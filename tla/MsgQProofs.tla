----------------------------- MODULE MsgQProofs -----------------------------
(***************************************************************************)
(* The kernel's message queue keeps its order and never mistakes a waiting *)
(* reader for a writer, for any threads, priorities and queue size; and the *)
(* program's use of it implements RxQueue.                                 *)
(***************************************************************************)
EXTENDS MsgQRx, TLAPS

-----------------------------------------------------------------------------
(***************************************************************************)
(* Sequences: what the operations on the wait queue do, element by element.*)
(***************************************************************************)
Inserted(s, k, e) == SubSeq(s, 1, k) \o <<e>> \o SubSeq(s, k + 1, Len(s))
Removed(s, k) == SubSeq(s, 1, k - 1) \o SubSeq(s, k + 1, Len(s))

LEMMA ConcatFacts ==
  ASSUME NEW S, NEW x \in Seq(S), NEW y \in Seq(S)
  PROVE  /\ x \o y \in Seq(S)
         /\ Len(x \o y) = Len(x) + Len(y)
         /\ \A j \in 1..Len(x) + Len(y) :
              (x \o y)[j] = IF j <= Len(x) THEN x[j] ELSE y[j - Len(x)]
OBVIOUS

LEMMA SubSeqFacts ==
  ASSUME NEW S, NEW s \in Seq(S), NEW m \in 1..Len(s) + 1, NEW n \in m - 1..Len(s)
  PROVE  /\ SubSeq(s, m, n) \in Seq(S)
         /\ Len(SubSeq(s, m, n)) = n - m + 1
         /\ \A j \in 1..n - m + 1 : SubSeq(s, m, n)[j] = s[m + j - 1]
OBVIOUS

LEMMA InsertFacts ==
  ASSUME NEW S, NEW s \in Seq(S), NEW k \in 0..Len(s), NEW e \in S
  PROVE  /\ Inserted(s, k, e) \in Seq(S)
         /\ Len(Inserted(s, k, e)) = Len(s) + 1
         /\ \A j \in 1..Len(s) + 1 :
              Inserted(s, k, e)[j] =
                IF j <= k THEN s[j] ELSE IF j = k + 1 THEN e ELSE s[j - 1]
<1> DEFINE a == SubSeq(s, 1, k)
           b == a \o <<e>>
           c == SubSeq(s, k + 1, Len(s))
<1>1. a \in Seq(S) /\ Len(a) = k /\ \A j \in 1..k : a[j] = s[j]
  BY SubSeqFacts
<1>2. c \in Seq(S) /\ Len(c) = Len(s) - k /\ \A j \in 1..Len(s) - k : c[j] = s[k + j]
  BY SubSeqFacts
<1>3. b \in Seq(S) /\ Len(b) = k + 1 /\ b[k + 1] = e /\ \A j \in 1..k : b[j] = s[j]
  <2> HIDE DEF a
  <2>1. QED
    BY <1>1
<1>4. Inserted(s, k, e) = b \o c
  BY Zenon DEF Inserted
<1> HIDE DEF a, b, c
<1>5. /\ b \o c \in Seq(S) /\ Len(b \o c) = Len(b) + Len(c)
      /\ \A j \in 1..Len(b) + Len(c) : (b \o c)[j] = IF j <= Len(b) THEN b[j] ELSE c[j - Len(b)]
  BY <1>2, <1>3, ConcatFacts
<1> DEFINE z == b \o c
<1> HIDE DEF z
<1>6. z \in Seq(S) /\ Len(z) = Len(s) + 1
  BY <1>2, <1>3, <1>5 DEF z
<1>7. \A j \in 1..Len(s) + 1 : z[j] = IF j <= k + 1 THEN b[j] ELSE c[j - (k + 1)]
  BY <1>2, <1>3, <1>5 DEF z
<1>8. \A j \in 1..Len(s) + 1 : z[j] = IF j <= k THEN s[j] ELSE IF j = k + 1 THEN e ELSE s[j - 1]
  <2> TAKE j \in 1..Len(s) + 1
  <2>1. CASE j <= k + 1
    BY <1>3, <1>7, <2>1
  <2>2. CASE j > k + 1
    <3>1. z[j] = c[j - (k + 1)] /\ j - (k + 1) \in 1..Len(s) - k /\ k + (j - (k + 1)) = j - 1
      BY <1>7, <2>2
    <3>2. z[j] = s[j - 1]
      BY <1>2, <3>1, Zenon
    <3>3. ~(j <= k) /\ j # k + 1
      BY <2>2
    <3>4. QED
      BY <3>2, <3>3, Zenon
  <2>3. j <= k + 1 \/ j > k + 1
    OBVIOUS
  <2>4. QED
    BY <2>1, <2>2, <2>3, Zenon
<1>9. Inserted(s, k, e) = z
  BY <1>4 DEF z
<1>10. QED
  BY <1>6, <1>8, <1>9

\* No element comes twice.
Distinct(s) == \A i, j \in 1..Len(s) : s[i] = s[j] => i = j

Holds(s, x) == \E i \in 1..Len(s) : s[i] = x

LEMMA InsertKeepsDistinct ==
  ASSUME NEW S, NEW s \in Seq(S), Distinct(s), NEW k \in 0..Len(s),
         NEW e \in S, ~Holds(s, e)
  PROVE  /\ Distinct(Inserted(s, k, e))
         /\ \A x : Holds(Inserted(s, k, e), x) <=> x = e \/ Holds(s, x)
<1> DEFINE z == Inserted(s, k, e)
<1>1. /\ z \in Seq(S) /\ Len(z) = Len(s) + 1
      /\ \A j \in 1..Len(s) + 1 :
           z[j] = IF j <= k THEN s[j] ELSE IF j = k + 1 THEN e ELSE s[j - 1]
  BY InsertFacts
<1> HIDE DEF z
<1>0. \A i \in 1..Len(s) : s[i] # e
  BY DEF Holds
<1>2. ASSUME NEW i \in 1..Len(z), NEW j \in 1..Len(z), z[i] = z[j] PROVE i = j
  <2>1. CASE i <= k
    <3>1. j # k + 1
      BY <1>0, <1>1, <1>2, <2>1
    <3>2. CASE j <= k
      BY <1>0, <1>1, <1>2, <2>1, <3>2 DEF Distinct
    <3>3. CASE j > k + 1
      <4>1. s[i] = s[j - 1] /\ i \in 1..Len(s) /\ j - 1 \in 1..Len(s) /\ i # j - 1
        BY <1>0, <1>1, <1>2, <2>1, <3>3
      <4>2. QED
        BY <4>1 DEF Distinct
    <3>4. QED
      BY <1>1, <3>1, <3>2, <3>3
  <2>2. CASE i = k + 1
    <3>1. z[j] = e /\ j \in 1..Len(s) + 1
      BY <1>1, <1>2, <2>2
    <3>2. CASE j <= k
      <4>1. s[j] = e /\ j \in 1..Len(s)
        BY <1>1, <3>1, <3>2
      <4>2. QED
        BY <1>0, <4>1
    <3>3. CASE j > k + 1
      <4>1. s[j - 1] = e /\ j - 1 \in 1..Len(s)
        BY <1>1, <3>1, <3>3
      <4>2. QED
        BY <1>0, <4>1
    <3>4. QED
      BY <2>2, <3>1, <3>2, <3>3
  <2>3. CASE i > k + 1
    <3>1. j # k + 1
      BY <1>0, <1>1, <1>2, <2>3
    <3>2. CASE j <= k
      <4>1. s[i - 1] = s[j] /\ i - 1 \in 1..Len(s) /\ j \in 1..Len(s) /\ i - 1 # j
        BY <1>0, <1>1, <1>2, <2>3, <3>2
      <4>2. QED
        BY <4>1 DEF Distinct
    <3>3. CASE j > k + 1
      <4>1. s[i - 1] = s[j - 1] /\ i - 1 \in 1..Len(s) /\ j - 1 \in 1..Len(s)
        BY <1>0, <1>1, <1>2, <2>3, <3>3
      <4>2. i - 1 = j - 1
        BY <4>1 DEF Distinct
      <4>3. QED
        BY <1>1, <4>2
    <3>4. QED
      BY <1>1, <3>1, <3>2, <3>3
  <2>4. QED
    BY <1>1, <2>1, <2>2, <2>3
<1>3. ASSUME NEW x PROVE Holds(z, x) <=> x = e \/ Holds(s, x)
  <2>1. ASSUME NEW i \in 1..Len(s) + 1, z[i] = x PROVE x = e \/ Holds(s, x)
    BY <1>1, <2>1 DEF Holds
  <2>2. ASSUME x = e PROVE Holds(z, x)
    <3>1. k + 1 \in 1..Len(s) + 1 /\ z[k + 1] = e
      BY <1>1
    <3>2. QED
      BY <1>1, <2>2, <3>1 DEF Holds
  <2>3. ASSUME NEW j \in 1..Len(s), s[j] = x PROVE Holds(z, x)
    <3>1. CASE j <= k
      BY <1>1, <2>3, <3>1 DEF Holds
    <3>2. CASE j > k
      <4>1. j + 1 \in 1..Len(s) + 1 /\ z[j + 1] = s[j]
        BY <1>1, <3>2
      <4>2. QED
        BY <1>1, <2>3, <4>1 DEF Holds
    <3>3. QED
      BY <3>1, <3>2
  <2>4. QED
    BY <1>1, <2>1, <2>2, <2>3 DEF Holds
<1>4. QED
  BY <1>2, <1>3 DEF Distinct, z

LEMMA RemoveFacts ==
  ASSUME NEW S, NEW s \in Seq(S), NEW k \in 1..Len(s)
  PROVE  /\ Removed(s, k) \in Seq(S)
         /\ Len(Removed(s, k)) = Len(s) - 1
         /\ \A j \in 1..Len(s) - 1 : Removed(s, k)[j] = IF j < k THEN s[j] ELSE s[j + 1]
<1> DEFINE a == SubSeq(s, 1, k - 1)
           c == SubSeq(s, k + 1, Len(s))
<1>1. a \in Seq(S) /\ Len(a) = k - 1 /\ \A j \in 1..k - 1 : a[j] = s[j]
  BY SubSeqFacts
<1>2. c \in Seq(S) /\ Len(c) = Len(s) - k /\ \A j \in 1..Len(s) - k : c[j] = s[k + j]
  BY SubSeqFacts
<1>3. Removed(s, k) = a \o c
  BY DEF Removed
<1> HIDE DEF a, c
<1>4. /\ a \o c \in Seq(S) /\ Len(a \o c) = Len(a) + Len(c)
      /\ \A j \in 1..Len(a) + Len(c) : (a \o c)[j] = IF j <= Len(a) THEN a[j] ELSE c[j - Len(a)]
  BY <1>1, <1>2, ConcatFacts, Zenon
<1> DEFINE z == a \o c
<1> HIDE DEF z
<1>5. z \in Seq(S) /\ Len(z) = Len(s) - 1
  BY <1>1, <1>2, <1>4 DEF z
<1>6. \A j \in 1..Len(s) - 1 : z[j] = IF j <= k - 1 THEN a[j] ELSE c[j - (k - 1)]
  BY <1>1, <1>2, <1>4 DEF z
<1>7. ASSUME NEW j \in 1..Len(s) - 1 PROVE z[j] = IF j < k THEN s[j] ELSE s[j + 1]
  <2>1. CASE j < k
    <3>1. j <= k - 1 /\ j \in 1..k - 1
      BY <2>1
    <3>2. QED
      BY <1>1, <1>6, <2>1, <3>1
  <2>2. CASE ~(j < k)
    <3>1. ~(j <= k - 1) /\ j - (k - 1) \in 1..Len(s) - k /\ k + (j - (k - 1)) = j + 1
      BY <2>2
    <3>2. z[j] = c[j - (k - 1)]
      BY <1>6, <3>1
    <3>3. c[j - (k - 1)] = s[k + (j - (k - 1))]
      BY <1>2, <3>1
    <3>4. QED
      BY <2>2, <3>1, <3>2, <3>3
  <2>3. QED
    BY <2>1, <2>2
<1>8. QED
  BY <1>3, <1>5, <1>7, Zenon DEF z

LEMMA TailFacts ==
  ASSUME NEW S, NEW s \in Seq(S), s # <<>>
  PROVE  /\ Tail(s) \in Seq(S)
         /\ Len(Tail(s)) = Len(s) - 1
         /\ \A j \in 1..Len(s) - 1 : Tail(s)[j] = s[j + 1]
         /\ Head(s) = s[1] /\ Head(s) \in S /\ Len(s) >= 1
OBVIOUS

-----------------------------------------------------------------------------
(***************************************************************************)
(* The ring buffer, as facts about constants: acc are the messages         *)
(* accepted, ret those returned, and between them the u messages from      *)
(* place r of the buffer on.                                               *)
(***************************************************************************)
Wrap(p) == IF p < MaxMsgs THEN p ELSE p - MaxMsgs

Ring(acc, ret, buf, r, w, u) ==
  /\ acc \in Seq(Msg) /\ ret \in Seq(Msg)
  /\ buf \in [Slots -> Msg \cup {NoMsg}]
  /\ r \in Slots /\ w \in Slots /\ u \in 0..MaxMsgs
  /\ w = Wrap(r + u)
  /\ Len(acc) = Len(ret) + u
  /\ \A i \in 1..Len(ret) : acc[i] = ret[i]
  /\ \A i \in 0..u - 1 : acc[Len(ret) + 1 + i] = buf[Wrap(r + i)]

LEMMA WrapFacts ==
  ASSUME NEW r \in Slots
  PROVE  /\ Wrap(r) = r /\ Wrap(r + 0) = r /\ Wrap(r + MaxMsgs) = r
         /\ Advance(r) \in Slots
         /\ \A i \in 0..MaxMsgs : Wrap(r + i) \in Slots
         /\ \A i \in 0..MaxMsgs - 1 : /\ Advance(Wrap(r + i)) = Wrap(r + (i + 1))
                                      /\ Wrap(Advance(r) + i) = Wrap(r + (i + 1))
         /\ \A i, j \in 0..MaxMsgs - 1 : i # j => Wrap(r + i) # Wrap(r + j)
BY MsgQAssumption DEF Wrap, Advance, Slots

LEMMA RingPut ==
  ASSUME NEW acc, NEW ret, NEW buf, NEW r, NEW w, NEW u, NEW m \in Msg,
         Ring(acc, ret, buf, r, w, u), u < MaxMsgs
  PROVE  Ring(Append(acc, m), ret, [buf EXCEPT ![w] = m], r, Advance(w), u + 1)
<1> DEFINE acc1 == Append(acc, m)
           buf1 == [buf EXCEPT ![w] = m]
<1>0. /\ acc \in Seq(Msg) /\ ret \in Seq(Msg) /\ buf \in [Slots -> Msg \cup {NoMsg}]
      /\ r \in Slots /\ w \in Slots /\ u \in 0..MaxMsgs /\ w = Wrap(r + u)
      /\ Len(acc) = Len(ret) + u /\ MaxMsgs \in Nat
  BY MsgQAssumption DEF Ring
<1>1. /\ acc1 \in Seq(Msg) /\ Len(acc1) = Len(acc) + 1 /\ acc1[Len(acc) + 1] = m
      /\ \A i \in 1..Len(acc) : acc1[i] = acc[i]
  BY <1>0
<1>2. buf1 \in [Slots -> Msg \cup {NoMsg}] /\ buf1[w] = m /\ \A k \in Slots \ {w} : buf1[k] = buf[k]
  BY <1>0
<1>3. u + 1 \in 0..MaxMsgs /\ Advance(w) \in Slots /\ Advance(w) = Wrap(r + (u + 1))
  <2>1. u + 1 \in 0..MaxMsgs /\ u \in 0..MaxMsgs - 1
    BY <1>0
  <2>2. Advance(w) \in Slots
    BY <1>0, WrapFacts
  <2>3. Advance(Wrap(r + u)) = Wrap(r + (u + 1))
    BY <1>0, <2>1, WrapFacts, Zenon
  <2>4. QED
    BY <1>0, <2>1, <2>2, <2>3
<1> HIDE DEF acc1, buf1
<1>4. Len(acc1) = Len(ret) + (u + 1)
  BY <1>0, <1>1
<1>5. \A i \in 1..Len(ret) : acc1[i] = ret[i]
  BY <1>0, <1>1 DEF Ring
<1>6. ASSUME NEW i \in 0..(u + 1) - 1 PROVE acc1[Len(ret) + 1 + i] = buf1[Wrap(r + i)]
  <2>1. CASE i = u
    BY <1>0, <1>1, <1>2, <2>1
  <2>2. CASE i # u
    <3>1. i \in 0..u - 1 /\ Len(ret) + 1 + i \in 1..Len(acc)
      BY <1>0, <2>2
    <3>2. Wrap(r + i) \in Slots \ {w}
      <4>1. i \in 0..MaxMsgs - 1 /\ u \in 0..MaxMsgs - 1 /\ i \in 0..MaxMsgs
        BY <1>0, <3>1
      <4>2. Wrap(r + i) # Wrap(r + u) /\ Wrap(r + i) \in Slots
        <5>1. \A j \in 0..MaxMsgs : Wrap(r + j) \in Slots
          BY <1>0, WrapFacts, Zenon
        <5>2. \A j, k \in 0..MaxMsgs - 1 : j # k => Wrap(r + j) # Wrap(r + k)
          BY <1>0, WrapFacts, Zenon
        <5>3. QED
          BY <2>2, <4>1, <5>1, <5>2, Zenon
      <4>3. QED
        BY <1>0, <4>2
    <3>3. acc[Len(ret) + 1 + i] = buf[Wrap(r + i)]
      BY <3>1 DEF Ring
    <3>4. QED
      BY <1>1, <1>2, <3>1, <3>2, <3>3
  <2>3. QED
    BY <2>1, <2>2
<1>7. QED
  BY <1>0, <1>1, <1>2, <1>3, <1>4, <1>5, <1>6, Zenon DEF Ring, acc1, buf1

LEMMA RingGet ==
  ASSUME NEW acc, NEW ret, NEW buf, NEW r, NEW w, NEW u,
         Ring(acc, ret, buf, r, w, u), u > 0
  PROVE  buf[r] \in Msg /\ Ring(acc, Append(ret, buf[r]), buf, Advance(r), w, u - 1)
<1> DEFINE ret1 == Append(ret, buf[r])
<1>0. /\ acc \in Seq(Msg) /\ ret \in Seq(Msg) /\ buf \in [Slots -> Msg \cup {NoMsg}]
      /\ r \in Slots /\ w \in Slots /\ u \in 0..MaxMsgs /\ w = Wrap(r + u)
      /\ Len(acc) = Len(ret) + u /\ MaxMsgs \in Nat
  BY MsgQAssumption DEF Ring
<1>1. acc[Len(ret) + 1] = buf[r] /\ buf[r] \in Msg
  <2>1. acc[Len(ret) + 1 + 0] = buf[Wrap(r + 0)]
    BY <1>0 DEF Ring
  <2>2. Wrap(r + 0) = r /\ Len(ret) + 1 + 0 = Len(ret) + 1 /\ Len(ret) + 1 \in 1..Len(acc)
    BY <1>0, WrapFacts
  <2>3. QED
    BY <1>0, <2>1, <2>2
<1>2. /\ ret1 \in Seq(Msg) /\ Len(ret1) = Len(ret) + 1 /\ ret1[Len(ret) + 1] = buf[r]
      /\ \A i \in 1..Len(ret) : ret1[i] = ret[i]
  BY <1>0, <1>1
<1> HIDE DEF ret1
<1>3. u - 1 \in 0..MaxMsgs /\ Advance(r) \in Slots /\ Len(acc) = Len(ret1) + (u - 1)
  <2>1. Advance(r) \in Slots
    BY <1>0, WrapFacts
  <2>2. u - 1 \in 0..MaxMsgs
    BY <1>0
  <2>3. Len(acc) = Len(ret1) + (u - 1)
    <3>1. Len(ret) \in Nat /\ u \in Nat
      BY <1>0
    <3>2. QED
      BY <1>0, <1>2, <3>1
  <2>4. QED
    BY <2>1, <2>2, <2>3
<1>4. w = Wrap(Advance(r) + (u - 1))
  <2>1. u - 1 \in 0..MaxMsgs - 1 /\ (u - 1) + 1 = u
    BY <1>0
  <2>2. QED
    BY <1>0, <2>1, WrapFacts
<1>5. \A i \in 1..Len(ret1) : acc[i] = ret1[i]
  <2>1. \A i \in 1..Len(ret) : acc[i] = ret[i]
    BY DEF Ring
  <2>2. \A i \in 1..Len(ret) + 1 : i \in 1..Len(ret) \/ i = Len(ret) + 1
    BY <1>0
  <2>3. QED
    BY <1>1, <1>2, <2>1, <2>2, Zenon
<1>6. ASSUME NEW i \in 0..(u - 1) - 1 PROVE acc[Len(ret1) + 1 + i] = buf[Wrap(Advance(r) + i)]
  <2>1. i + 1 \in 0..u - 1 /\ i \in 0..MaxMsgs - 1 /\ Len(ret) + 1 + (i + 1) = Len(ret1) + 1 + i
    BY <1>0, <1>2
  <2>2. acc[Len(ret) + 1 + (i + 1)] = buf[Wrap(r + (i + 1))]
    BY <2>1 DEF Ring
  <2>3. Wrap(Advance(r) + i) = Wrap(r + (i + 1))
    BY <1>0, <2>1, WrapFacts
  <2>4. QED
    BY <2>1, <2>2, <2>3
<1>7. QED
  BY <1>0, <1>1, <1>2, <1>3, <1>4, <1>5, <1>6 DEF Ring, ret1

LEMMA RingPass ==
  ASSUME NEW acc, NEW ret, NEW buf, NEW r, NEW w, NEW m \in Msg, Ring(acc, ret, buf, r, w, 0)
  PROVE  Ring(Append(acc, m), Append(ret, m), buf, r, w, 0)
BY DEF Ring

LEMMA RingPurge ==
  ASSUME NEW acc, NEW ret, NEW buf, NEW r, NEW w, NEW u, Ring(acc, ret, buf, r, w, u)
  PROVE  Ring(ret, ret, buf, w, w, 0)
BY MsgQAssumption, WrapFacts DEF Ring

\* Contents of a ring given by its parts.
Stored(buf, r, u) == [i \in 1..u |-> buf[Wrap(r + (i - 1))]]

LEMMA StoredFacts ==
  ASSUME NEW acc, NEW ret, NEW buf, NEW r, NEW w, NEW u, Ring(acc, ret, buf, r, w, u)
  PROVE  /\ Stored(buf, r, u) \in Seq(Msg) /\ Len(Stored(buf, r, u)) = u
         /\ \A i \in 1..u : Stored(buf, r, u)[i] = buf[Wrap(r + (i - 1))]
<1>1. /\ acc \in Seq(Msg) /\ ret \in Seq(Msg) /\ u \in Nat /\ Len(acc) = Len(ret) + u
  BY MsgQAssumption DEF Ring
<1>2. ASSUME NEW i \in 1..u PROVE buf[Wrap(r + (i - 1))] \in Msg
  <2>1. i - 1 \in 0..u - 1 /\ Len(ret) + 1 + (i - 1) \in 1..Len(acc)
    BY <1>1
  <2>2. acc[Len(ret) + 1 + (i - 1)] = buf[Wrap(r + (i - 1))]
    BY <2>1 DEF Ring
  <2>3. QED
    BY <1>1, <2>1, <2>2
<1>3. QED
  BY <1>1, <1>2 DEF Stored

IsAppend(t, s, m) == t = Append(s, m)

LEMMA StoredPut ==
  ASSUME NEW acc, NEW ret, NEW buf, NEW r, NEW w, NEW u, NEW m \in Msg,
         Ring(acc, ret, buf, r, w, u), u < MaxMsgs
  PROVE  IsAppend(Stored([buf EXCEPT ![w] = m], r, u + 1), Stored(buf, r, u), m)
<1> DEFINE buf1 == [buf EXCEPT ![w] = m]
           old == Stored(buf, r, u)
           new == Stored(buf1, r, u + 1)
<1>1. /\ buf \in [Slots -> Msg \cup {NoMsg}] /\ r \in Slots /\ w \in Slots
      /\ u \in 0..MaxMsgs /\ w = Wrap(r + u) /\ MaxMsgs \in Nat /\ u \in 0..MaxMsgs - 1
  BY MsgQAssumption DEF Ring
<1>2. buf1[w] = m /\ \A k \in Slots \ {w} : buf1[k] = buf[k]
  BY <1>1
<1>3. old \in Seq(Msg) /\ Len(old) = u /\ \A i \in 1..u : old[i] = buf[Wrap(r + (i - 1))]
  BY StoredFacts
<1>4. Ring(Append(acc, m), ret, buf1, r, Advance(w), u + 1)
  BY RingPut
<1> HIDE DEF buf1
<1>5. new \in Seq(Msg) /\ Len(new) = u + 1 /\ \A i \in 1..u + 1 : new[i] = buf1[Wrap(r + (i - 1))]
  BY <1>4, StoredFacts
<1> HIDE DEF old, new
<1>6. ASSUME NEW i \in 1..u + 1 PROVE new[i] = Append(old, m)[i]
  <2>1. CASE i = u + 1
    <3>1. i - 1 = u
      BY <1>1, <2>1
    <3>2. QED
      BY <1>1, <1>2, <1>3, <1>5, <2>1, <3>1
  <2>2. CASE i # u + 1
    <3>1. i \in 1..u /\ i - 1 \in 0..MaxMsgs - 1 /\ i - 1 \in 0..MaxMsgs /\ i - 1 # u
      BY <1>1, <2>2
    <3>2. \A j \in 0..MaxMsgs : Wrap(r + j) \in Slots
      BY <1>1, WrapFacts, Zenon
    <3>3. \A j, k \in 0..MaxMsgs - 1 : j # k => Wrap(r + j) # Wrap(r + k)
      BY <1>1, WrapFacts, Zenon
    <3>4. Wrap(r + (i - 1)) \in Slots /\ Wrap(r + (i - 1)) # Wrap(r + u)
      BY <1>1, <3>1, <3>2, <3>3, Zenon
    <3>5. new[i] = old[i]
      BY <1>1, <1>2, <1>3, <1>5, <3>1, <3>4
    <3>6. QED
      BY <1>3, <3>1, <3>5
  <2>3. QED
    BY <2>1, <2>2, Zenon
<1>7. Append(old, m) \in Seq(Msg) /\ Len(Append(old, m)) = u + 1
  BY <1>3
<1>8. new = Append(old, m)
  BY <1>5, <1>6, <1>7
<1>9. QED
  BY <1>8, Zenon DEF buf1, old, new, IsAppend

LEMMA StoredGet ==
  ASSUME NEW acc, NEW ret, NEW buf, NEW r, NEW w, NEW u,
         Ring(acc, ret, buf, r, w, u), u > 0
  PROVE  /\ Stored(buf, r, u) # <<>>
         /\ Stored(buf, Advance(r), u - 1) = Tail(Stored(buf, r, u))
<1> DEFINE old == Stored(buf, r, u)
           new == Stored(buf, Advance(r), u - 1)
<1>1. r \in Slots /\ u \in 0..MaxMsgs /\ MaxMsgs \in Nat
  BY MsgQAssumption DEF Ring
<1>2. old \in Seq(Msg) /\ Len(old) = u /\ \A i \in 1..u : old[i] = buf[Wrap(r + (i - 1))]
  BY StoredFacts
<1>3. Ring(acc, Append(ret, buf[r]), buf, Advance(r), w, u - 1)
  BY RingGet
<1>4. /\ new \in Seq(Msg) /\ Len(new) = u - 1
      /\ \A i \in 1..u - 1 : new[i] = buf[Wrap(Advance(r) + (i - 1))]
  BY <1>3, StoredFacts
<1> HIDE DEF old, new
<1>5. old # <<>>
  BY <1>1, <1>2
<1>6. /\ Tail(old) \in Seq(Msg) /\ Len(Tail(old)) = u - 1
      /\ \A i \in 1..u - 1 : Tail(old)[i] = old[i + 1]
  BY <1>2, <1>5, TailFacts
<1>7. ASSUME NEW i \in 1..u - 1 PROVE new[i] = Tail(old)[i]
  <2>1. /\ i + 1 \in 1..u /\ (i + 1) - 1 = (i - 1) + 1 /\ i - 1 \in 0..MaxMsgs - 1
    BY <1>1
  <2>2. Wrap(Advance(r) + (i - 1)) = Wrap(r + ((i - 1) + 1))
    BY <1>1, <2>1, WrapFacts
  <2>3. old[i + 1] = buf[Wrap(r + ((i + 1) - 1))]
    BY <1>2, <2>1
  <2>4. new[i] = buf[Wrap(Advance(r) + (i - 1))] /\ Tail(old)[i] = old[i + 1]
    BY <1>4, <1>6
  <2>5. QED
    BY <2>1, <2>2, <2>3, <2>4
<1>8. new = Tail(old)
  BY <1>4, <1>6, <1>7
<1>9. QED
  BY <1>5, <1>8 DEF old, new

-----------------------------------------------------------------------------
(***************************************************************************)
(* The inductive invariant: the ring, and the threads that wait.           *)
(***************************************************************************)
WaitInv ==
  /\ WaitersMatchTheQueue
  /\ Distinct(wait_q)
  /\ \A i \in DOMAIN wait_q : call[wait_q[i]] = "put" => swap_data[wait_q[i]] \in Msg

RingInv == Ring(accepted, returned, buffer, read_ptr, write_ptr, used_msgs)

QueueInv == TypeOK /\ RingInv /\ WaitInv /\ WokenReaderHasMessage

LEMMA InitInv == k_msgq_init => QueueInv
<1> SUFFICES ASSUME k_msgq_init PROVE QueueInv
  OBVIOUS
<1>1. TypeOK
  BY MsgQAssumption DEF k_msgq_init, TypeOK, Slots
<1>2. RingInv
  BY MsgQAssumption DEF k_msgq_init, RingInv, Ring, Slots, Wrap
<1>3. WaitInv /\ WokenReaderHasMessage
  BY MsgQAssumption
     DEF k_msgq_init, WaitInv, WaitersMatchTheQueue, Distinct, WokenReaderHasMessage
<1>4. QED
  BY <1>1, <1>2, <1>3 DEF QueueInv

\* Who waits is inside a call.
LEMMA RunningDoesNotWait ==
  ASSUME QueueInv, NEW t \in Threads, Running(t)
  PROVE  \A i \in DOMAIN wait_q : wait_q[i] # t
BY DEF QueueInv, WaitInv, WaitersMatchTheQueue, Running

\* A call pends: a put on a full queue or a get on an empty one.
LEMMA PendKeeps ==
  ASSUME QueueInv, NEW t \in Threads, Running(t), NEW what, NEW m,
         \/ what = "put" /\ m \in Msg /\ used_msgs = MaxMsgs
         \/ what = "get" /\ m = NoMsg /\ used_msgs = 0,
         Pend(t, what, m), UNCHANGED <<ring, return_value, history>>
  PROVE  QueueInv'
<1>1. PICK k \in 0..Len(wait_q) : wait_q' = Inserted(wait_q, k, t)
  BY Zenon DEF Pend, Inserted
<1>2. wait_q \in Seq(Threads) /\ call \in [Threads -> {"none", "put", "get"}]
      /\ swap_data \in [Threads -> Msg \cup {NoMsg}]
  BY DEF QueueInv, TypeOK
<1>3. wait_q' \in Seq(Threads) /\ Len(wait_q') = Len(wait_q) + 1
  BY <1>1, <1>2, InsertFacts
<1>4. \A i \in 1..Len(wait_q) : wait_q[i] # t /\ wait_q[i] \in Threads
  BY <1>2, RunningDoesNotWait
<1>5. call' = [call EXCEPT ![t] = what] /\ swap_data' = [swap_data EXCEPT ![t] = m]
  BY DEF Pend
<1>6. /\ Distinct(wait_q')
      /\ \A x : Holds(wait_q', x) <=> x = t \/ Holds(wait_q, x)
  <2>1. Distinct(wait_q)
    BY DEF QueueInv, WaitInv
  <2>2. ~Holds(wait_q, t)
    BY <1>4 DEF Holds
  <2>3. QED
    BY <1>1, <1>2, <2>1, <2>2, InsertKeepsDistinct
<1>7. TypeOK'
  BY <1>2, <1>3, <1>5 DEF QueueInv, TypeOK, ring, history
<1>8. RingInv'
  BY DEF QueueInv, RingInv, ring, history
<1>9. \A j \in DOMAIN wait_q' : wait_q'[j] = t \/ \E i \in DOMAIN wait_q : wait_q'[j] = wait_q[i]
  <2> SUFFICES ASSUME NEW j \in DOMAIN wait_q', wait_q'[j] # t
               PROVE  \E i \in DOMAIN wait_q : wait_q'[j] = wait_q[i]
    OBVIOUS
  <2>1. Holds(wait_q', wait_q'[j])
    BY <1>3 DEF Holds
  <2>2. Holds(wait_q, wait_q'[j])
    BY <1>6, <2>1
  <2>3. QED
    BY <1>2, <2>2 DEF Holds
<1>10. WaitersMatchTheQueue'
  BY <1>2, <1>4, <1>5, <1>9 DEF QueueInv, WaitInv, WaitersMatchTheQueue, ring
<1>11. \A i \in DOMAIN wait_q' : call'[wait_q'[i]] = "put" => swap_data'[wait_q'[i]] \in Msg
  BY <1>2, <1>4, <1>5, <1>9 DEF QueueInv, WaitInv
<1>12. \A u \in Threads : Pended(u)' <=> u = t \/ Pended(u)
  <2>1. \A u : Pended(u) <=> Holds(wait_q, u)
    BY <1>2 DEF Pended, Holds
  <2>2. \A u : Pended(u)' <=> Holds(wait_q', u)
    BY <1>3 DEF Pended, Holds
  <2>3. QED
    BY <1>6, <2>1, <2>2
<1>13. WokenReaderHasMessage'
  <2> SUFFICES ASSUME NEW u \in Threads, call'[u] = "get"
               PROVE  swap_data'[u] \in Msg <=> (~Pended(u)' /\ return_value'[u] = "0")
    BY DEF WokenReaderHasMessage
  <2>1. CASE u = t
    BY <1>2, <1>5, <1>12, <2>1, MsgQAssumption
  <2>2. CASE u # t
    BY <1>2, <1>5, <1>12, <2>2 DEF QueueInv, WokenReaderHasMessage
  <2>3. QED
    BY <2>1, <2>2
<1>14. QED
  BY <1>6, <1>7, <1>8, <1>10, <1>11, <1>13 DEF QueueInv, WaitInv

-----------------------------------------------------------------------------
\* The head of the wait queue is woken.
LEMMA WakeFacts ==
  ASSUME QueueInv, wait_q # <<>>, wait_q' = Tail(wait_q)
  PROVE  /\ Head(wait_q) \in Threads
         /\ wait_q' \in Seq(Threads)
         /\ Distinct(wait_q')
         /\ \A i \in DOMAIN wait_q' :
              wait_q'[i] # Head(wait_q) /\ \E j \in DOMAIN wait_q : wait_q'[i] = wait_q[j]
         /\ \A u : Pended(u)' <=> Pended(u) /\ u # Head(wait_q)
         /\ \E j \in DOMAIN wait_q : wait_q[j] = Head(wait_q)
<1>1. wait_q \in Seq(Threads) /\ Distinct(wait_q)
  BY DEF QueueInv, TypeOK, WaitInv
<1>2. /\ Head(wait_q) \in Threads /\ Head(wait_q) = wait_q[1] /\ 1 \in DOMAIN wait_q
      /\ wait_q' \in Seq(Threads) /\ Len(wait_q') = Len(wait_q) - 1 /\ Len(wait_q) \in Nat
      /\ DOMAIN wait_q = 1..Len(wait_q) /\ DOMAIN wait_q' = 1..Len(wait_q')
  BY <1>1
<1>3. \A i \in DOMAIN wait_q' : wait_q'[i] = wait_q[i + 1] /\ i + 1 \in DOMAIN wait_q /\ i + 1 # 1
  BY <1>1, <1>2
<1>4. Distinct(wait_q')
  <2> SUFFICES ASSUME NEW i \in 1..Len(wait_q'), NEW j \in 1..Len(wait_q'), wait_q'[i] = wait_q'[j]
               PROVE  i = j
    BY DEF Distinct
  <2>1. wait_q[i + 1] = wait_q[j + 1] /\ i + 1 \in 1..Len(wait_q) /\ j + 1 \in 1..Len(wait_q)
    BY <1>2, <1>3
  <2>2. i + 1 = j + 1
    BY <1>1, <2>1 DEF Distinct
  <2>3. QED
    BY <1>2, <2>2
<1>5. \A i \in DOMAIN wait_q' :
        wait_q'[i] # Head(wait_q) /\ \E j \in DOMAIN wait_q : wait_q'[i] = wait_q[j]
  <2> SUFFICES ASSUME NEW i \in DOMAIN wait_q'
               PROVE  wait_q'[i] # wait_q[1] /\ \E j \in DOMAIN wait_q : wait_q'[i] = wait_q[j]
    BY <1>2
  <2>1. wait_q[i + 1] # wait_q[1]
    BY <1>1, <1>2, <1>3 DEF Distinct
  <2>2. QED
    BY <1>3, <2>1
<1>6. ASSUME NEW u PROVE Pended(u)' <=> Pended(u) /\ u # Head(wait_q)
  <2>1. Pended(u)' => Pended(u) /\ u # Head(wait_q)
    BY <1>5 DEF Pended
  <2>2. ASSUME NEW j \in DOMAIN wait_q, wait_q[j] = u, u # Head(wait_q) PROVE Pended(u)'
    <3>1. j # 1
      BY <1>2, <2>2
    <3>2. j - 1 \in DOMAIN wait_q' /\ (j - 1) + 1 = j
      BY <1>2, <3>1
    <3>3. wait_q'[j - 1] = u
      BY <1>3, <2>2, <3>2
    <3>4. QED
      BY <3>2, <3>3 DEF Pended
  <2>3. QED
    BY <2>1, <2>2 DEF Pended
<1>7. QED
  BY <1>2, <1>4, <1>5, <1>6

\* A put that finds room.
LEMMA PutRoomKeeps ==
  ASSUME QueueInv, NEW m \in Msg, PutRoom(m)
  PROVE  QueueInv'
<1>1. /\ wait_q \in Seq(Threads) /\ call \in [Threads -> {"none", "put", "get"}]
      /\ swap_data \in [Threads -> Msg \cup {NoMsg}]
      /\ return_value \in [Threads -> {"0", "ENOMSG", "EAGAIN"}]
      /\ used_msgs \in 0..MaxMsgs /\ used_msgs < MaxMsgs /\ MaxMsgs \in Nat \ {0}
      /\ accepted \in Seq(Msg) /\ returned \in Seq(Msg)
  BY MsgQAssumption DEF QueueInv, TypeOK, PutRoom
<1>2. CASE wait_q # <<>>
  <2> DEFINE h == Head(wait_q)
  <2>1. /\ accepted' = Append(accepted, m) /\ returned' = Append(returned, m)
        /\ swap_data' = [swap_data EXCEPT ![h] = m]
        /\ return_value' = [return_value EXCEPT ![h] = "0"]
        /\ wait_q' = Tail(wait_q) /\ call' = call /\ UNCHANGED ring
    BY <1>2 DEF PutRoom, WakeFirst
  <2>2. /\ h \in Threads /\ wait_q' \in Seq(Threads) /\ Distinct(wait_q')
        /\ \A i \in DOMAIN wait_q' :
             wait_q'[i] # h /\ \E j \in DOMAIN wait_q : wait_q'[i] = wait_q[j]
        /\ \A u : Pended(u)' <=> Pended(u) /\ u # h
        /\ \E j \in DOMAIN wait_q : wait_q[j] = h
    BY <1>2, <2>1, WakeFacts
  <2> HIDE DEF h
  <2>3. used_msgs = 0 /\ call[h] = "get"
    BY <1>1, <2>2 DEF QueueInv, WaitInv, WaitersMatchTheQueue
  <2>4. TypeOK'
    BY <1>1, <2>1, <2>2 DEF QueueInv, TypeOK, ring
  <2>5. RingInv'
    <3>1. Ring(accepted, returned, buffer, read_ptr, write_ptr, 0)
      BY <2>3 DEF QueueInv, RingInv
    <3>2. Ring(Append(accepted, m), Append(returned, m), buffer, read_ptr, write_ptr, 0)
      BY <3>1, RingPass
    <3>3. QED
      BY <2>1, <2>3, <3>2 DEF RingInv, ring
  <2>6. WaitInv'
    <3>1. WaitersMatchTheQueue'
      BY <2>1, <2>2 DEF QueueInv, WaitInv, WaitersMatchTheQueue, ring
    <3>2. \A i \in DOMAIN wait_q' : call'[wait_q'[i]] = "put" => swap_data'[wait_q'[i]] \in Msg
      BY <1>1, <2>1, <2>2 DEF QueueInv, WaitInv
    <3>3. QED
      BY <2>2, <3>1, <3>2 DEF WaitInv
  <2>7. WokenReaderHasMessage'
    <3> SUFFICES ASSUME NEW u \in Threads, call'[u] = "get"
                 PROVE  swap_data'[u] \in Msg <=> (~Pended(u)' /\ return_value'[u] = "0")
      BY DEF WokenReaderHasMessage
    <3>1. CASE u = h
      BY <1>1, <2>1, <2>2, <3>1
    <3>2. CASE u # h
      BY <1>1, <2>1, <2>2, <3>2 DEF QueueInv, WokenReaderHasMessage
    <3>3. QED
      BY <3>1, <3>2
  <2>8. QED
    BY <2>4, <2>5, <2>6, <2>7 DEF QueueInv
<1>3. CASE wait_q = <<>>
  <2>1. /\ accepted' = Append(accepted, m)
        /\ buffer' = [buffer EXCEPT ![write_ptr] = m] /\ write_ptr' = Advance(write_ptr)
        /\ used_msgs' = used_msgs + 1
        /\ UNCHANGED <<read_ptr, returned, waiting>>
    BY <1>3 DEF PutRoom, Store
  <2>2. Ring(Append(accepted, m), returned, [buffer EXCEPT ![write_ptr] = m], read_ptr,
             Advance(write_ptr), used_msgs + 1)
    BY <1>1, RingPut, Zenon DEF QueueInv, RingInv
  <2>3. RingInv'
    BY <2>1, <2>2 DEF RingInv
  <2>4. TypeOK'
    BY <1>1, <2>1, <2>3 DEF QueueInv, TypeOK, RingInv, Ring, waiting
  <2>5. WaitInv'
    BY <1>3, <2>1 DEF WaitInv, WaitersMatchTheQueue, Distinct, waiting
  <2>6. WokenReaderHasMessage'
    BY <2>1 DEF QueueInv, WokenReaderHasMessage, Pended, waiting
  <2>7. QED
    BY <2>3, <2>4, <2>5, <2>6 DEF QueueInv
<1>4. QED
  BY <1>2, <1>3

\* A get that finds a message, with or without a waiting writer.
LEMMA GetQueuedKeeps ==
  ASSUME QueueInv, GetQueued
  PROVE  QueueInv'
<1>1. /\ wait_q \in Seq(Threads) /\ call \in [Threads -> {"none", "put", "get"}]
      /\ swap_data \in [Threads -> Msg \cup {NoMsg}]
      /\ return_value \in [Threads -> {"0", "ENOMSG", "EAGAIN"}]
      /\ used_msgs \in 0..MaxMsgs /\ used_msgs > 0 /\ MaxMsgs \in Nat \ {0}
      /\ read_ptr' = Advance(read_ptr) /\ returned' = Append(returned, buffer[read_ptr])
  BY MsgQAssumption DEF QueueInv, TypeOK, GetQueued
<1>2. Ring(accepted, Append(returned, buffer[read_ptr]), buffer, Advance(read_ptr), write_ptr,
           used_msgs - 1)
  BY <1>1, RingGet DEF QueueInv, RingInv
<1>3. CASE wait_q # <<>>
  <2> DEFINE h == Head(wait_q)
             m == swap_data[h]
  <2>1. /\ buffer' = [buffer EXCEPT ![write_ptr] = m] /\ write_ptr' = Advance(write_ptr)
        /\ accepted' = Append(accepted, m)
        /\ return_value' = [return_value EXCEPT ![h] = "0"]
        /\ wait_q' = Tail(wait_q) /\ call' = call
        /\ used_msgs' = used_msgs /\ swap_data' = swap_data
    BY <1>3 DEF GetQueued, WakeFirst, Store
  <2>2. /\ h \in Threads /\ wait_q' \in Seq(Threads) /\ Distinct(wait_q')
        /\ \A i \in DOMAIN wait_q' :
             wait_q'[i] # h /\ \E j \in DOMAIN wait_q : wait_q'[i] = wait_q[j]
        /\ \A u : Pended(u)' <=> Pended(u) /\ u # h
        /\ \E j \in DOMAIN wait_q : wait_q[j] = h
    BY <1>3, <2>1, WakeFacts
  <2> HIDE DEF h
  <2>3. used_msgs = MaxMsgs /\ call[h] = "put" /\ m \in Msg
    BY <1>1, <2>2 DEF QueueInv, WaitInv, WaitersMatchTheQueue
  <2> HIDE DEF m
  <2>4. RingInv'
    <3>1. used_msgs - 1 < MaxMsgs /\ (used_msgs - 1) + 1 = used_msgs
      BY <1>1
    <3>2. Ring(Append(accepted, m), Append(returned, buffer[read_ptr]),
               [buffer EXCEPT ![write_ptr] = m], Advance(read_ptr), Advance(write_ptr),
               (used_msgs - 1) + 1)
      BY <1>2, <2>3, <3>1, RingPut
    <3>3. QED
      BY <1>1, <2>1, <3>1, <3>2 DEF RingInv
  <2>5. TypeOK'
    BY <1>1, <2>1, <2>2, <2>4 DEF TypeOK, RingInv, Ring
  <2>6. WaitInv'
    <3>1. WaitersMatchTheQueue'
      BY <2>1, <2>2 DEF QueueInv, WaitInv, WaitersMatchTheQueue
    <3>2. \A i \in DOMAIN wait_q' : call'[wait_q'[i]] = "put" => swap_data'[wait_q'[i]] \in Msg
      BY <2>1, <2>2 DEF QueueInv, WaitInv
    <3>3. QED
      BY <2>2, <3>1, <3>2 DEF WaitInv
  <2>7. WokenReaderHasMessage'
    <3> SUFFICES ASSUME NEW u \in Threads, call'[u] = "get"
                 PROVE  swap_data'[u] \in Msg <=> (~Pended(u)' /\ return_value'[u] = "0")
      BY DEF WokenReaderHasMessage
    <3>1. u # h
      BY <2>1, <2>3
    <3>2. QED
      BY <1>1, <2>1, <2>2, <3>1 DEF QueueInv, WokenReaderHasMessage
  <2>8. QED
    BY <2>4, <2>5, <2>6, <2>7 DEF QueueInv
<1>4. CASE wait_q = <<>>
  <2>1. used_msgs' = used_msgs - 1 /\ UNCHANGED <<buffer, write_ptr, waiting, accepted>>
    BY <1>4 DEF GetQueued
  <2>2. RingInv'
    BY <1>1, <1>2, <2>1 DEF RingInv
  <2>3. TypeOK'
    BY <1>1, <2>1, <2>2 DEF TypeOK, RingInv, Ring, waiting
  <2>4. WaitInv'
    BY <1>4, <2>1 DEF WaitInv, WaitersMatchTheQueue, Distinct, waiting
  <2>5. WokenReaderHasMessage'
    BY <2>1 DEF QueueInv, WokenReaderHasMessage, Pended, waiting
  <2>6. QED
    BY <2>2, <2>3, <2>4, <2>5 DEF QueueInv
<1>5. QED
  BY <1>3, <1>4

LEMMA PurgeKeeps ==
  ASSUME QueueInv, k_msgq_purge
  PROVE  QueueInv'
<1>1. /\ wait_q' = <<>> /\ used_msgs' = 0 /\ read_ptr' = write_ptr /\ accepted' = returned
      /\ return_value' = [t \in Threads |-> IF Pended(t) THEN "ENOMSG" ELSE return_value[t]]
      /\ UNCHANGED <<buffer, write_ptr, call, swap_data, returned>>
  BY DEF k_msgq_purge
<1>2. Ring(returned, returned, buffer, write_ptr, write_ptr, 0)
  BY RingPurge DEF QueueInv, RingInv
<1>3. RingInv'
  BY <1>1, <1>2 DEF RingInv
<1>4. TypeOK'
  BY <1>1, <1>3 DEF QueueInv, TypeOK, RingInv, Ring
<1>5. WaitInv'
  BY <1>1 DEF WaitInv, WaitersMatchTheQueue, Distinct
<1>6. WokenReaderHasMessage'
  <2> SUFFICES ASSUME NEW u \in Threads, call'[u] = "get"
               PROVE  swap_data'[u] \in Msg <=> (~Pended(u)' /\ return_value'[u] = "0")
    BY DEF WokenReaderHasMessage
  <2>1. ~Pended(u)'
    BY <1>1 DEF Pended
  <2>2. return_value'[u] = IF Pended(u) THEN "ENOMSG" ELSE return_value[u]
    BY <1>1
  <2>3. swap_data[u] \in Msg <=> (~Pended(u) /\ return_value[u] = "0")
    BY <1>1 DEF QueueInv, WokenReaderHasMessage
  <2>4. QED
    BY <1>1, <2>1, <2>2, <2>3
<1>7. QED
  BY <1>3, <1>4, <1>5, <1>6 DEF QueueInv

LEMMA TimeoutKeeps ==
  ASSUME QueueInv, NEW t \in Threads, Timeout(t)
  PROVE  QueueInv'
<1>1. PICK k \in DOMAIN wait_q : wait_q[k] = t /\ wait_q' = Removed(wait_q, k)
  BY Zenon DEF Timeout, Removed
<1>2. /\ wait_q \in Seq(Threads) /\ Distinct(wait_q) /\ k \in 1..Len(wait_q) /\ Len(wait_q) \in Nat
      /\ return_value \in [Threads -> {"0", "ENOMSG", "EAGAIN"}]
      /\ DOMAIN wait_q = 1..Len(wait_q)
  BY <1>1 DEF QueueInv, TypeOK, WaitInv
<1>3. /\ return_value' = [return_value EXCEPT ![t] = "EAGAIN"]
      /\ UNCHANGED <<ring, call, swap_data, history>>
  BY DEF Timeout
<1>4. /\ wait_q' \in Seq(Threads) /\ Len(wait_q') = Len(wait_q) - 1
      /\ \A j \in 1..Len(wait_q) - 1 : wait_q'[j] = IF j < k THEN wait_q[j] ELSE wait_q[j + 1]
      /\ DOMAIN wait_q' = 1..Len(wait_q) - 1
  <2>1. /\ Removed(wait_q, k) \in Seq(Threads) /\ Len(Removed(wait_q, k)) = Len(wait_q) - 1
        /\ \A j \in 1..Len(wait_q) - 1 :
             Removed(wait_q, k)[j] = IF j < k THEN wait_q[j] ELSE wait_q[j + 1]
    BY <1>2, RemoveFacts, Zenon
  <2>2. QED
    BY <1>1, <1>2, <2>1
<1>5. \A j \in DOMAIN wait_q' : \E i \in DOMAIN wait_q :
         wait_q'[j] = wait_q[i] /\ i # k /\ i = IF j < k THEN j ELSE j + 1
  BY <1>2, <1>4
<1>6. \A j \in DOMAIN wait_q' : wait_q'[j] # t /\ \E i \in DOMAIN wait_q : wait_q'[j] = wait_q[i]
  BY <1>1, <1>2, <1>5 DEF Distinct
<1>7. Distinct(wait_q')
  <2> SUFFICES ASSUME NEW i \in 1..Len(wait_q'), NEW j \in 1..Len(wait_q'), wait_q'[i] = wait_q'[j]
               PROVE  i = j
    BY DEF Distinct
  <2>0. i \in DOMAIN wait_q' /\ j \in DOMAIN wait_q'
    BY <1>4
  <2>1. PICK a \in DOMAIN wait_q : wait_q'[i] = wait_q[a] /\ a = IF i < k THEN i ELSE i + 1
    BY <1>5, <2>0
  <2>2. PICK b \in DOMAIN wait_q : wait_q'[j] = wait_q[b] /\ b = IF j < k THEN j ELSE j + 1
    BY <1>5, <2>0
  <2>3. a = b
    <3>1. a \in 1..Len(wait_q) /\ b \in 1..Len(wait_q) /\ wait_q[a] = wait_q[b]
      BY <1>2, <2>1, <2>2
    <3>2. QED
      BY <1>2, <3>1 DEF Distinct
  <2>4. QED
    BY <1>2, <2>1, <2>2, <2>3
<1>8. ASSUME NEW u PROVE Pended(u)' <=> Pended(u) /\ u # t
  <2>1. Pended(u)' => Pended(u) /\ u # t
    BY <1>6 DEF Pended
  <2>2. ASSUME NEW i \in DOMAIN wait_q, wait_q[i] = u, u # t PROVE Pended(u)'
    <3>1. CASE i < k
      BY <1>2, <1>4, <2>2, <3>1 DEF Pended
    <3>2. CASE i > k
      <4>1. i - 1 \in DOMAIN wait_q' /\ wait_q'[i - 1] = wait_q[i]
        BY <1>2, <1>4, <3>2
      <4>2. QED
        BY <2>2, <4>1 DEF Pended
    <3>3. QED
      BY <1>1, <1>2, <2>2, <3>1, <3>2
  <2>3. QED
    BY <2>1, <2>2 DEF Pended
<1>9. TypeOK' /\ RingInv'
  BY <1>2, <1>3, <1>4 DEF QueueInv, TypeOK, RingInv, ring, history
<1>10. WaitInv'
  <2>1. WaitersMatchTheQueue'
    BY <1>3, <1>6 DEF QueueInv, WaitInv, WaitersMatchTheQueue, ring
  <2>2. \A i \in DOMAIN wait_q' : call'[wait_q'[i]] = "put" => swap_data'[wait_q'[i]] \in Msg
    BY <1>3, <1>6 DEF QueueInv, WaitInv
  <2>3. QED
    BY <1>7, <2>1, <2>2 DEF WaitInv
<1>11. WokenReaderHasMessage'
  <2> SUFFICES ASSUME NEW u \in Threads, call'[u] = "get"
               PROVE  swap_data'[u] \in Msg <=> (~Pended(u)' /\ return_value'[u] = "0")
    BY DEF WokenReaderHasMessage
  <2>1. swap_data[u] \in Msg <=> (~Pended(u) /\ return_value[u] = "0")
    BY <1>3 DEF QueueInv, WokenReaderHasMessage
  <2>2. CASE u = t
    <3>1. Pended(u)
      BY <1>1, <2>2 DEF Pended
    <3>2. return_value'[u] = "EAGAIN"
      BY <1>2, <1>3, <2>2
    <3>3. QED
      BY <1>3, <2>1, <3>1, <3>2
  <2>3. CASE u # t
    <3>1. return_value'[u] = return_value[u] /\ (Pended(u)' <=> Pended(u))
      BY <1>2, <1>3, <1>8, <2>3
    <3>2. QED
      BY <1>3, <2>1, <3>1
  <2>4. QED
    BY <2>2, <2>3
<1>12. QED
  BY <1>9, <1>10, <1>11 DEF QueueInv

LEMMA ReturnKeeps ==
  ASSUME QueueInv, NEW t \in Threads, Return(t)
  PROVE  QueueInv'
<1>1. /\ call' = [call EXCEPT ![t] = "none"] /\ swap_data' = [swap_data EXCEPT ![t] = NoMsg]
      /\ return_value' = [return_value EXCEPT ![t] = "0"]
      /\ UNCHANGED <<ring, wait_q, history>>
  BY DEF Return
<1>2. \A i \in DOMAIN wait_q : wait_q[i] # t /\ wait_q[i] \in Threads
  BY DEF Return, Woken, Pended, QueueInv, TypeOK
<1>3. TypeOK' /\ RingInv'
  BY <1>1 DEF QueueInv, TypeOK, RingInv, ring, history
<1>4. \A i \in DOMAIN wait_q : call'[wait_q[i]] = call[wait_q[i]]
                            /\ swap_data'[wait_q[i]] = swap_data[wait_q[i]]
  BY <1>1, <1>2 DEF QueueInv, TypeOK
<1>5. WaitInv'
  BY <1>1, <1>4 DEF QueueInv, WaitInv, WaitersMatchTheQueue, Distinct, ring
<1>6. WokenReaderHasMessage'
  <2> SUFFICES ASSUME NEW u \in Threads, call'[u] = "get"
               PROVE  swap_data'[u] \in Msg <=> (~Pended(u)' /\ return_value'[u] = "0")
    BY DEF WokenReaderHasMessage
  <2>1. u # t
    BY <1>1 DEF QueueInv, TypeOK
  <2>2. QED
    BY <1>1, <2>1 DEF QueueInv, TypeOK, WokenReaderHasMessage, Pended
<1>7. QED
  BY <1>3, <1>5, <1>6 DEF QueueInv

LEMMA NextInv ==
  ASSUME QueueInv, [Next]_vars
  PROVE  QueueInv'
<1>1. CASE UNCHANGED vars
  BY <1>1 DEF QueueInv, TypeOK, RingInv, WaitInv, WaitersMatchTheQueue, WokenReaderHasMessage,
              Pended, Distinct, vars, ring, waiting, history
<1>2. ASSUME NEW m \in Msg, PutRoom(m) PROVE QueueInv'
  BY <1>2, PutRoomKeeps
<1>3. CASE GetQueued
  BY <1>3, GetQueuedKeeps
<1>4. CASE k_msgq_purge
  BY <1>4, PurgeKeeps
<1>5. ASSUME NEW t \in Threads, NEW m \in Msg, PutPends(t, m) PROVE QueueInv'
  BY <1>5, PendKeeps DEF PutPends
<1>6. ASSUME NEW t \in Threads, GetPends(t) PROVE QueueInv'
  BY <1>6, PendKeeps DEF GetPends
<1>7. ASSUME NEW t \in Threads, Timeout(t) PROVE QueueInv'
  BY <1>7, TimeoutKeeps
<1>8. ASSUME NEW t \in Threads, Return(t) PROVE QueueInv'
  BY <1>8, ReturnKeeps
<1>9. QED
  BY <1>1, <1>2, <1>3, <1>4, <1>5, <1>6, <1>7, <1>8 DEF Next

-----------------------------------------------------------------------------
LEMMA ContentsFacts ==
  ASSUME RingInv
  PROVE  /\ Contents \in Seq(Msg) /\ Len(Contents) = used_msgs /\ used_msgs \in 0..MaxMsgs
         /\ \A i \in 1..used_msgs : Contents[i] = buffer[Wrap(read_ptr + (i - 1))]
         /\ \A i \in 1..used_msgs : Contents[i] = accepted[Len(returned) + i]
<1>1. /\ accepted \in Seq(Msg) /\ returned \in Seq(Msg) /\ read_ptr \in Int
      /\ used_msgs \in 0..MaxMsgs /\ MaxMsgs \in Nat /\ used_msgs \in Nat
      /\ Len(accepted) = Len(returned) + used_msgs
  BY MsgQAssumption DEF RingInv, Ring, Slots
<1>2. ASSUME NEW i \in 1..used_msgs
      PROVE  /\ Contents[i] = buffer[Wrap(read_ptr + (i - 1))]
             /\ Contents[i] = accepted[Len(returned) + i]
             /\ accepted[Len(returned) + i] \in Msg
  <2>1. read_ptr + i - 1 = read_ptr + (i - 1) /\ i - 1 \in 0..used_msgs - 1
        /\ Len(returned) + 1 + (i - 1) = Len(returned) + i /\ Len(returned) + i \in 1..Len(accepted)
    BY <1>1
  <2>2. Contents[i] = buffer[Wrap(read_ptr + i - 1)]
    BY DEF Contents, Wrap
  <2>3. accepted[Len(returned) + 1 + (i - 1)] = buffer[Wrap(read_ptr + (i - 1))]
    BY <2>1 DEF RingInv, Ring
  <2>4. QED
    BY <1>1, <2>1, <2>2, <2>3
<1>3. Contents \in Seq(Msg) /\ Len(Contents) = used_msgs
  <2>1. DOMAIN Contents = 1..used_msgs /\ Contents = [i \in 1..used_msgs |-> Contents[i]]
    BY DEF Contents
  <2>2. \A i \in 1..used_msgs : Contents[i] \in Msg
    BY <1>2
  <2>3. QED
    BY <1>1, <2>1, <2>2
<1>4. QED
  BY <1>1, <1>2, <1>3

LEMMA RingIsFifo ==
  ASSUME RingInv
  PROVE  FirstInFirstOut
<1>1. /\ accepted \in Seq(Msg) /\ returned \in Seq(Msg) /\ used_msgs \in Nat
      /\ Len(accepted) = Len(returned) + used_msgs
      /\ \A i \in 1..Len(returned) : accepted[i] = returned[i]
  BY MsgQAssumption DEF RingInv, Ring
<1>2. /\ Contents \in Seq(Msg) /\ Len(Contents) = used_msgs
      /\ \A i \in 1..used_msgs : Contents[i] = accepted[Len(returned) + i]
  BY ContentsFacts
<1> DEFINE z == returned \o Contents
<1>3. /\ z \in Seq(Msg) /\ Len(z) = Len(returned) + used_msgs
      /\ \A j \in 1..Len(returned) : z[j] = returned[j]
      /\ \A j \in 1..used_msgs : z[Len(returned) + j] = Contents[j]
  <2>1. /\ z \in Seq(Msg) /\ Len(z) = Len(returned) + Len(Contents)
        /\ \A j \in 1..Len(returned) + Len(Contents) :
             z[j] = IF j <= Len(returned) THEN returned[j] ELSE Contents[j - Len(returned)]
    BY <1>1, <1>2, ConcatFacts, Zenon
  <2> HIDE DEF z
  <2>2. \A j \in 1..Len(returned) : z[j] = returned[j]
    BY <1>1, <1>2, <2>1
  <2>3. ASSUME NEW j \in 1..used_msgs PROVE z[Len(returned) + j] = Contents[j]
    <3>1. /\ Len(returned) + j \in 1..Len(returned) + Len(Contents)
          /\ ~(Len(returned) + j <= Len(returned)) /\ (Len(returned) + j) - Len(returned) = j
      BY <1>1, <1>2
    <3>2. QED
      BY <2>1, <3>1
  <2>4. QED
    BY <1>2, <2>1, <2>2, <2>3
<1> HIDE DEF z
<1>4. ASSUME NEW i \in 1..Len(accepted) PROVE accepted[i] = z[i]
  <2>1. CASE i <= Len(returned)
    BY <1>1, <1>3, <2>1
  <2>2. CASE i > Len(returned)
    <3>1. i - Len(returned) \in 1..used_msgs /\ Len(returned) + (i - Len(returned)) = i
      BY <1>1, <2>2
    <3>2. QED
      BY <1>2, <1>3, <3>1
  <2>3. QED
    BY <1>1, <2>1, <2>2
<1>5. accepted = z
  BY <1>1, <1>3, <1>4
<1>6. QED
  BY <1>5 DEF FirstInFirstOut, z

LEMMA QueueInvariant == Spec => []QueueInv
<1>1. k_msgq_init => QueueInv
  BY InitInv
<1>2. QueueInv /\ [Next]_vars => QueueInv'
  BY NextInv
<1>3. QED
  BY <1>1, <1>2, PTL DEF Spec

\* The pointers of the ring buffer stay inside it and used_msgs within
\* max_msgs, for any number of threads, places and messages.
THEOREM MsgQTypeCorrect == Spec => []TypeOK
<1>1. QueueInv => TypeOK
  BY DEF QueueInv
<1>2. QED
  BY <1>1, QueueInvariant, PTL

\* k_msgq_put takes the head of the wait queue for a reader, k_msgq_get for a
\* writer, and neither looks.  They are right: readers wait on an empty queue
\* only, writers on a full one.
THEOREM MsgQWaitersMatchTheQueue == Spec => []WaitersMatchTheQueue
<1>1. QueueInv => WaitersMatchTheQueue
  BY DEF QueueInv, WaitInv
<1>2. QED
  BY <1>1, QueueInvariant, PTL

\* Messages leave the queue in the order in which it accepted them, whatever
\* mixture of hand-overs, wrap-arounds, waiting writers and purges.
THEOREM MsgQFirstInFirstOut == Spec => []FirstInFirstOut
<1>1. QueueInv => FirstInFirstOut
  BY RingIsFifo DEF QueueInv
<1>2. QED
  BY <1>1, QueueInvariant, PTL

\* A get that k_msgq_put has woken holds the message it was given; one that
\* timed out or was purged holds none.
THEOREM MsgQWokenReaderHasMessage == Spec => []WokenReaderHasMessage
<1>1. QueueInv => WokenReaderHasMessage
  BY DEF QueueInv
<1>2. QED
  BY <1>1, QueueInvariant, PTL

-----------------------------------------------------------------------------
(***************************************************************************)
(* The program's use of the queue implements RxQueue.                      *)
(***************************************************************************)
\* Only the keyboard thread is ever inside a call, and that is a get.
RxInv ==
  /\ QueueInv
  /\ started \in BOOLEAN
  /\ \A t \in Threads : call[t] # "none" => t = kbd /\ started /\ call[t] = "get"
  /\ \A t \in Threads : return_value[t] = "0"

LEMMA RxWaitQueue ==
  ASSUME kbd \in Threads, RxInv
  PROVE  /\ wait_q # <<>> => Head(wait_q) = kbd /\ Tail(wait_q) = <<>> /\ used_msgs = 0
         /\ Pended(kbd) <=> wait_q # <<>>
         /\ Pended(kbd) => ~Running(kbd) /\ started
<1>1. wait_q \in Seq(Threads) /\ Distinct(wait_q)
  BY DEF RxInv, QueueInv, TypeOK, WaitInv
<1>2. \A i \in DOMAIN wait_q : wait_q[i] = kbd /\ call[kbd] = "get" /\ used_msgs = 0
  BY <1>1 DEF RxInv, QueueInv, WaitInv, WaitersMatchTheQueue
<1>3. ASSUME wait_q # <<>>
      PROVE  Head(wait_q) = kbd /\ Tail(wait_q) = <<>> /\ used_msgs = 0 /\ Pended(kbd)
  <2>1. 1 \in DOMAIN wait_q /\ Head(wait_q) = wait_q[1] /\ Len(wait_q) \in Nat /\ Len(wait_q) >= 1
    BY <1>1, <1>3
  <2>2. Len(wait_q) < 2
    <3> SUFFICES ASSUME Len(wait_q) >= 2 PROVE FALSE
      BY <2>1
    <3>1. 1 \in 1..Len(wait_q) /\ 2 \in 1..Len(wait_q) /\ DOMAIN wait_q = 1..Len(wait_q)
      BY <1>1, <2>1
    <3>2. wait_q[1] = wait_q[2]
      BY <1>2, <3>1
    <3>3. QED
      BY <1>1, <3>1, <3>2 DEF Distinct
  <2>3. Tail(wait_q) = <<>>
    BY <1>1, <2>1, <2>2
  <2>4. QED
    BY <1>2, <2>1, <2>3 DEF Pended
<1>4. Pended(kbd) => wait_q # <<>> /\ call[kbd] = "get"
  BY <1>1, <1>2 DEF Pended
<1>5. QED
  BY <1>3, <1>4 DEF RxInv, Running

LEMMA RxStepInv ==
  ASSUME kbd \in Threads, RxInv, [RxNext]_<<vars, started>>
  PROVE  RxInv'
<1>1. [Next]_vars
  BY DEF RxNext, Next
<1>2. QueueInv'
  BY <1>1, NextInv DEF RxInv
<1>3. /\ call \in [Threads -> {"none", "put", "get"}]
      /\ return_value \in [Threads -> {"0", "ENOMSG", "EAGAIN"}]
  BY DEF RxInv, QueueInv, TypeOK
<1>4. CASE UNCHANGED <<vars, started>>
  BY <1>2, <1>4 DEF RxInv, vars, waiting
<1>5. CASE ~started /\ started' = TRUE /\ UNCHANGED vars
  BY <1>2, <1>5 DEF RxInv, vars, waiting
<1>6. ASSUME NEW m \in Msg, PutRoom(m), UNCHANGED started PROVE RxInv'
  BY <1>2, <1>3, <1>6 DEF RxInv, PutRoom, WakeFirst, waiting
<1>7. CASE started /\ UNCHANGED started /\ GetQueued
  BY <1>2, <1>3, <1>7 DEF RxInv, GetQueued, WakeFirst, waiting
<1>8. CASE started /\ UNCHANGED started /\ GetPends(kbd)
  BY <1>2, <1>3, <1>8 DEF RxInv, GetPends, Pend
<1>9. CASE started /\ UNCHANGED started /\ Return(kbd)
  BY <1>2, <1>3, <1>9 DEF RxInv, Return
<1>10. QED
  BY <1>4, <1>5, <1>6, <1>7, <1>8, <1>9, Zenon DEF RxNext

LEMMA ContentsStored ==
  ASSUME MaxMsgs \in Nat, read_ptr \in Int, read_ptr' \in Int
  PROVE  /\ Contents = Stored(buffer, read_ptr, used_msgs)
         /\ Contents' = Stored(buffer', read_ptr', used_msgs')
<1>1. ASSUME NEW r \in Int, NEW u, NEW i \in 1..u PROVE r + i - 1 = r + (i - 1)
  BY <1>1
<1>2. QED
  BY <1>1 DEF Contents, Stored, Wrap

\* The ring buffer before and after a step, as Contents shows it.
LEMMA ContentsStep ==
  ASSUME RxInv, RxInv'
  PROVE  /\ Contents = Stored(buffer, read_ptr, used_msgs)
         /\ Contents' = Stored(buffer', read_ptr', used_msgs')
         /\ Contents \in Seq(Msg) /\ Len(Contents) = used_msgs
         /\ used_msgs \in 0..MaxMsgs /\ MaxMsgs \in Nat
         /\ RingInv
<1>1. MaxMsgs \in Nat /\ read_ptr \in Int /\ read_ptr' \in Int /\ used_msgs \in 0..MaxMsgs
  BY MsgQAssumption DEF RxInv, QueueInv, TypeOK, Slots
<1>2. RingInv
  BY DEF RxInv, QueueInv
<1>3. QED
  BY <1>1, <1>2, ContentsStored, ContentsFacts

LEMMA RxInitMaps ==
  ASSUME kbd \in Threads, RxInit
  PROVE  Rx!QueueInit
<1>1. started = FALSE /\ used_msgs = 0 /\ call = [t \in Threads |-> "none"]
  BY DEF RxInit, k_msgq_init
<1>2. Contents = <<>>
  BY <1>1 DEF Contents
<1>3. ~Woken(kbd)
  BY <1>1 DEF Woken
<1>4. QED
  BY <1>1, <1>2, <1>3 DEF Rx!QueueInit

LEMMA RxPutMaps ==
  ASSUME kbd \in Threads, RxInv, RxInv', NEW m \in Msg, PutRoom(m), UNCHANGED started
  PROVE  Rx!PutAccepted(m)
<1>1. /\ Contents \in Seq(Msg) /\ Len(Contents) = used_msgs
      /\ used_msgs \in 0..MaxMsgs /\ MaxMsgs \in Nat /\ used_msgs < MaxMsgs
      /\ Contents = Stored(buffer, read_ptr, used_msgs)
      /\ Contents' = Stored(buffer', read_ptr', used_msgs')
      /\ RingInv
  BY ContentsStep DEF PutRoom
<1>2. ~Rx!QueueFull
  BY <1>1 DEF Rx!QueueFull
<1>3. /\ wait_q # <<>> => Head(wait_q) = kbd /\ Tail(wait_q) = <<>> /\ used_msgs = 0
      /\ Pended(kbd) <=> wait_q # <<>>
      /\ Pended(kbd) => ~Running(kbd) /\ started
  BY RxWaitQueue
<1>4. CASE wait_q # <<>>
  <2>1. /\ wait_q' = <<>> /\ swap_data' = [swap_data EXCEPT ![kbd] = m] /\ call' = call
        /\ UNCHANGED ring
    BY <1>3, <1>4, Zenon DEF PutRoom, WakeFirst
  <2>2. swap_data'[kbd] = m
    BY <2>1 DEF RxInv, QueueInv, TypeOK
  <2>3. Pended(kbd) /\ ~Running(kbd) /\ started
    BY <1>3, <1>4
  <2>4. ~Pended(kbd)' /\ ~Running(kbd)' /\ started' /\ Woken(kbd)'
    BY <2>1, <2>3 DEF Pended, Running, Woken
  <2>5. Contents' = Contents
    BY <1>1, <2>1 DEF ring
  <2>6. QED
    BY <1>2, <2>2, <2>3, <2>4, <2>5 DEF Rx!PutAccepted
<1>5. CASE wait_q = <<>>
  <2>1. /\ buffer' = [buffer EXCEPT ![write_ptr] = m] /\ read_ptr' = read_ptr
        /\ used_msgs' = used_msgs + 1 /\ UNCHANGED waiting
    BY <1>5 DEF PutRoom, Store
  <2>2. ~Pended(kbd)
    BY <1>3, <1>5
  <2>3. (Pended(kbd)' <=> Pended(kbd)) /\ (Running(kbd)' <=> Running(kbd))
        /\ (Woken(kbd)' <=> Woken(kbd)) /\ swap_data' = swap_data
    BY <2>1 DEF Pended, Running, Woken, waiting
  <2>4. Contents' = Append(Contents, m)
    <3>1. Ring(accepted, returned, buffer, read_ptr, write_ptr, used_msgs) /\ used_msgs < MaxMsgs
      BY <1>1 DEF RingInv
    <3>2. IsAppend(Stored([buffer EXCEPT ![write_ptr] = m], read_ptr, used_msgs + 1),
                   Stored(buffer, read_ptr, used_msgs), m)
      BY <3>1, StoredPut, Zenon
    <3>3. QED
      BY <1>1, <2>1, <3>2, Zenon DEF IsAppend
  <2>5. QED
    BY <1>2, <2>2, <2>3, <2>4 DEF Rx!PutAccepted
<1>6. QED
  BY <1>4, <1>5

LEMMA RxGetMaps ==
  ASSUME kbd \in Threads, RxInv, RxInv', started, Running(kbd), GetQueued, UNCHANGED started
  PROVE  Rx!GetQueued
<1>1. /\ Contents = Stored(buffer, read_ptr, used_msgs)
      /\ Contents' = Stored(buffer', read_ptr', used_msgs')
      /\ RingInv /\ used_msgs > 0
  BY ContentsStep DEF GetQueued
<1>2. wait_q = <<>>
  BY RxWaitQueue
<1>3. /\ buffer' = buffer /\ read_ptr' = Advance(read_ptr) /\ used_msgs' = used_msgs - 1
      /\ UNCHANGED waiting
  BY <1>2 DEF GetQueued
<1>4. Contents # <<>> /\ Contents' = Tail(Contents)
  <2>1. /\ Stored(buffer, read_ptr, used_msgs) # <<>>
        /\ Stored(buffer, Advance(read_ptr), used_msgs - 1)
             = Tail(Stored(buffer, read_ptr, used_msgs))
    BY <1>1, StoredGet DEF RingInv
  <2>2. QED
    BY <1>1, <1>3, <2>1
<1>5. (Pended(kbd)' <=> Pended(kbd)) /\ (Running(kbd)' <=> Running(kbd))
      /\ (Woken(kbd)' <=> Woken(kbd)) /\ swap_data' = swap_data
  BY <1>3 DEF Pended, Running, Woken, waiting
<1>6. QED
  BY <1>4, <1>5 DEF Rx!GetQueued

LEMMA RxPendMaps ==
  ASSUME kbd \in Threads, RxInv, RxInv', started, GetPends(kbd), UNCHANGED started
  PROVE  Rx!GetPends
<1>1. /\ Contents = Stored(buffer, read_ptr, used_msgs)
      /\ Contents' = Stored(buffer', read_ptr', used_msgs')
      /\ Contents \in Seq(Msg) /\ Len(Contents) = used_msgs
  BY ContentsStep
<1>2. used_msgs = 0 /\ Running(kbd) /\ UNCHANGED ring
  BY DEF GetPends
<1>3. Contents = <<>> /\ Contents' = Contents
  BY <1>1, <1>2 DEF ring
<1>4. call'[kbd] = "get"
  BY DEF GetPends, Pend, RxInv, QueueInv, TypeOK
<1>5. wait_q' # <<>>
  <2>1. PICK k \in 0..Len(wait_q) : wait_q' = Inserted(wait_q, k, kbd)
    BY Zenon DEF GetPends, Pend, Inserted
  <2>2. wait_q \in Seq(Threads)
    BY DEF RxInv, QueueInv, TypeOK
  <2>3. Len(wait_q') = Len(wait_q) + 1
    BY <2>1, <2>2, InsertFacts
  <2>4. QED
    BY <2>2, <2>3
<1>6. Pended(kbd)'
  <2>1. wait_q' \in Seq(Threads)
    BY DEF RxInv, QueueInv, TypeOK
  <2>2. 1 \in DOMAIN wait_q' /\ wait_q'[1] \in Threads
    BY <1>5, <2>1
  <2>3. call'[wait_q'[1]] # "none"
    BY <2>2 DEF RxInv, QueueInv, WaitInv, WaitersMatchTheQueue
  <2>4. wait_q'[1] = kbd
    BY <2>2, <2>3 DEF RxInv
  <2>5. QED
    BY <2>2, <2>4 DEF Pended
<1>7. ~Running(kbd)' /\ ~Woken(kbd)' /\ ~Woken(kbd)
  BY <1>2, <1>4, <1>6 DEF Running, Woken
<1>8. QED
  BY <1>2, <1>3, <1>6, <1>7 DEF Rx!GetPends

LEMMA RxReturnMaps ==
  ASSUME kbd \in Threads, RxInv, RxInv', started, Return(kbd), UNCHANGED started
  PROVE  Rx!GetHanded
<1>1. /\ Contents = Stored(buffer, read_ptr, used_msgs)
      /\ Contents' = Stored(buffer', read_ptr', used_msgs')
  BY ContentsStep
<1>2. Woken(kbd) /\ UNCHANGED ring
  BY DEF Return
<1>3. Contents' = Contents
  BY <1>1, <1>2 DEF ring
<1>4. ~Pended(kbd) /\ ~Running(kbd)
  BY <1>2 DEF Woken, Running
<1>5. Running(kbd)' /\ ~Woken(kbd)'
  BY DEF Return, Running, Woken, RxInv, QueueInv, TypeOK
<1>6. QED
  BY <1>3, <1>4, <1>5 DEF Rx!GetHanded

LEMMA RxStepMaps ==
  ASSUME kbd \in Threads, RxInv, RxInv', [RxNext]_<<vars, started>>
  PROVE  [Rx!QueueNext]_(Rx!queueVars)
<1>1. CASE UNCHANGED <<vars, started>>
  BY <1>1 DEF Rx!queueVars, Contents, Running, Pended, Woken, vars, ring, waiting
<1>2. CASE ~started /\ started' = TRUE /\ UNCHANGED vars
  <2>1. call[kbd] = "none"
    BY <1>2 DEF RxInv
  <2>2. Running(kbd)' /\ ~Woken(kbd) /\ ~Woken(kbd)' /\ Contents' = Contents
    BY <1>2, <2>1 DEF Running, Woken, Contents, vars, ring, waiting
  <2>3. QED
    BY <1>2, <2>2 DEF Rx!QueueNext
<1>3. ASSUME NEW m \in Msg, PutRoom(m), UNCHANGED started PROVE Rx!QueueNext
  BY <1>3, RxPutMaps DEF Rx!QueueNext
<1>4. CASE started /\ UNCHANGED started /\ Running(kbd) /\ GetQueued
  BY <1>4, RxGetMaps DEF Rx!QueueNext, Rx!Get
<1>5. CASE started /\ UNCHANGED started /\ GetPends(kbd)
  BY <1>5, RxPendMaps DEF Rx!QueueNext
<1>6. CASE started /\ UNCHANGED started /\ Return(kbd)
  BY <1>6, RxReturnMaps DEF Rx!QueueNext, Rx!Get
<1>7. QED
  BY <1>1, <1>2, <1>3, <1>4, <1>5, <1>6, Zenon DEF RxNext

\* The ring buffer and wait queue of msg_q.c, used as the program uses them,
\* do nothing that RxQueue does not: PS2Connector and KeyPath may take RxQueue
\* for the kernel's queue.
THEOREM MsgQImplementsRxQueue == ASSUME kbd \in Threads PROVE RxSpec => ImplementsRxQueue
<1>1. RxInit => RxInv
  BY InitInv, Zenon DEF RxInit, RxInv, k_msgq_init
<1>2. RxInv /\ [RxNext]_<<vars, started>> => RxInv'
  BY RxStepInv
<1>3. RxInit => Rx!QueueInit
  BY RxInitMaps
<1>4. RxInv /\ RxInv' /\ [RxNext]_<<vars, started>> => [Rx!QueueNext]_(Rx!queueVars)
  BY RxStepMaps
<1>5. QED
  BY <1>1, <1>2, <1>3, <1>4, PTL DEF RxSpec, ImplementsRxQueue, Rx!QueueSpec
=============================================================================
