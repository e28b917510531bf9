----------------------------- MODULE ReplayLemmas -----------------------------
(***************************************************************************)
(* Lemmas about the data of Replay: runs of output bytes, the ring and     *)
(* what is read from it.                                                   *)
(***************************************************************************)
EXTENDS ReplayInv, SequenceTheorems, TLAPS

\* A run of bytes is a sequence of offsets, as long as it should be.
LEMMA BytesType ==
  ASSUME NEW lo \in Nat, NEW hi \in Nat, lo <= hi
  PROVE  /\ Bytes(lo, hi) \in Seq(Nat)
         /\ Len(Bytes(lo, hi)) = hi - lo
         /\ \A i \in 1..(hi - lo) : Bytes(lo, hi)[i] = lo + i - 1
<1> DEFINE n == hi - lo
           b == [i \in 1..n |-> lo + i - 1]
<1>1. n \in Nat
  OBVIOUS
<1>2. b \in [1..n -> Nat]
  <2>1. ASSUME NEW i \in 1..n PROVE lo + i - 1 \in Nat
    BY <1>1, <2>1
  <2> QED BY <2>1
<1>3. b \in Seq(Nat)
  BY <1>1, <1>2
<1>4. Len(b) = n
  BY <1>1, <1>3, LenProperties
<1> QED BY <1>3, <1>4 DEF Bytes

\* Two runs that meet are one run.
LEMMA BytesConcat ==
  ASSUME NEW a \in Nat, NEW b \in Nat, NEW c \in Nat, a <= b, b <= c
  PROVE  Bytes(a, b) \o Bytes(b, c) = Bytes(a, c)
<1> DEFINE s == Bytes(a, b) \o Bytes(b, c)
<1>1. /\ Bytes(a, b) \in Seq(Nat) /\ Len(Bytes(a, b)) = b - a
      /\ \A i \in 1..(b - a) : Bytes(a, b)[i] = a + i - 1
  BY BytesType
<1>2. /\ Bytes(b, c) \in Seq(Nat) /\ Len(Bytes(b, c)) = c - b
      /\ \A i \in 1..(c - b) : Bytes(b, c)[i] = b + i - 1
  BY BytesType
<1>3. /\ Bytes(a, c) \in Seq(Nat) /\ Len(Bytes(a, c)) = c - a
      /\ \A i \in 1..(c - a) : Bytes(a, c)[i] = a + i - 1
  BY BytesType
<1>4. /\ s \in Seq(Nat) /\ Len(s) = c - a
      /\ \A i \in 1..(c - a) : s[i] = IF i <= b - a THEN Bytes(a, b)[i]
                                      ELSE Bytes(b, c)[i - (b - a)]
  <2>1. /\ s \in Seq(Nat)
        /\ Len(s) = Len(Bytes(a, b)) + Len(Bytes(b, c))
        /\ \A i \in 1..(Len(Bytes(a, b)) + Len(Bytes(b, c))) :
              s[i] = IF i <= Len(Bytes(a, b)) THEN Bytes(a, b)[i]
                     ELSE Bytes(b, c)[i - Len(Bytes(a, b))]
    <3> HIDE DEF Bytes
    <3> QED BY <1>1, <1>2, ConcatProperties
  <2>2. (b - a) + (c - b) = c - a
    OBVIOUS
  <2> HIDE DEF s
  <2> QED BY <2>1, <2>2, <1>1, <1>2
<1>5. ASSUME NEW i \in 1..(c - a) PROVE s[i] = Bytes(a, c)[i]
  <2>1. CASE i <= b - a
    BY <2>1, <1>1, <1>3, <1>4
  <2>2. CASE ~(i <= b - a)
    <3>1. i - (b - a) \in 1..(c - b) /\ b + (i - (b - a)) - 1 = a + i - 1
      BY <2>2
    <3> DEFINE k == i - (b - a)
    <3>2. Bytes(b, c)[k] = b + k - 1
      BY <3>1, <1>2
    <3>3. s[i] = Bytes(b, c)[k]
      <4> HIDE DEF s
      <4> QED BY <2>2, <1>4
    <3> HIDE DEF s
    <3> QED BY <3>1, <3>2, <3>3, <1>3
  <2> QED BY <2>1, <2>2
<1> QED BY <1>3, <1>4, <1>5, SeqEqual

\* A part of a run is a run.
Part(a, b, i, j) == SubSeq(Bytes(a, b), i + 1, j)

LEMMA BytesSubSeq ==
  ASSUME NEW a \in Nat, NEW b \in Nat, NEW i \in Nat, NEW j \in Nat,
         a <= b, i <= j, j <= b - a
  PROVE  Part(a, b, i, j) = Bytes(a + i, a + j)
<1> DEFINE s == SubSeq(Bytes(a, b), i + 1, j)
<1>1. /\ Bytes(a, b) \in Seq(Nat) /\ Len(Bytes(a, b)) = b - a
      /\ \A k \in 1..(b - a) : Bytes(a, b)[k] = a + k - 1
  BY BytesType
<1>2. /\ Bytes(a + i, a + j) \in Seq(Nat) /\ Len(Bytes(a + i, a + j)) = j - i
      /\ \A k \in 1..(j - i) : Bytes(a + i, a + j)[k] = a + i + k - 1
  <2> DEFINE lo == a + i
             hi == a + j
  <2>1. lo \in Nat /\ hi \in Nat /\ lo <= hi /\ hi - lo = j - i
    OBVIOUS
  <2> HIDE DEF lo, hi
  <2>2. /\ Bytes(lo, hi) \in Seq(Nat) /\ Len(Bytes(lo, hi)) = hi - lo
        /\ \A k \in 1..(hi - lo) : Bytes(lo, hi)[k] = lo + k - 1
    BY <2>1, BytesType
  <2> QED BY <2>1, <2>2 DEF lo, hi
<1>3. \A k \in (i + 1)..j : Bytes(a, b)[k] \in Nat
  BY <1>1
<1>4. /\ s \in Seq(Nat)
      /\ Len(s) = IF i + 1 <= j THEN j - (i + 1) + 1 ELSE 0
      /\ \A k \in 1..(j - (i + 1) + 1) : s[k] = Bytes(a, b)[(i + 1) + k - 1]
  BY <1>3, SubSeqProperties
<1>5. Len(s) = j - i
  BY <1>4
<1>6. ASSUME NEW k \in 1..(j - i) PROVE s[k] = Bytes(a + i, a + j)[k]
  <2>1. s[k] = Bytes(a, b)[(i + 1) + k - 1]
    BY <1>4
  <2>2. (i + 1) + k - 1 \in 1..(b - a)
    OBVIOUS
  <2> QED BY <2>1, <2>2, <1>1, <1>2
<1>7. s = Bytes(a + i, a + j)
  BY <1>2, <1>4, <1>5, <1>6, SeqEqual
<1> QED BY <1>7 DEF Part

LEMMA BytesEmpty ==
  ASSUME NEW a \in Nat
  PROVE  Bytes(a, a) = << >>
<1>1. Bytes(a, a) \in Seq(Nat) /\ Len(Bytes(a, a)) = 0
  BY BytesType
<1> HIDE DEF Bytes
<1> QED BY <1>1, EmptySeq

LEMMA ExcessType ==
  ASSUME NEW n \in Nat
  PROVE  Excess(n) \in Nat /\ Excess(n) <= n /\ n - Excess(n) <= RingBytes
BY RingAssumption DEF Excess

LEMMA ExcessMonotone ==
  ASSUME NEW n \in Nat, NEW m \in Nat, n <= m
  PROVE  Excess(n) <= Excess(m)
BY RingAssumption DEF Excess

\* A frame with a run of bytes ends where the run does.
LEMMA RunFrame ==
  ASSUME NEW o \in Nat, NEW e \in Nat, o <= e
  PROVE  /\ OutputFrame(o, Bytes(o, e)) \in Frame
         /\ OutputFrame(o, Bytes(o, e)).offset = o
         /\ OutputFrame(o, Bytes(o, e)).data = Bytes(o, e)
         /\ EndOf(OutputFrame(o, Bytes(o, e))) = e
<1>1. Bytes(o, e) \in Seq(Nat) /\ Len(Bytes(o, e)) = e - o
  BY BytesType
<1> HIDE DEF Bytes
<1> QED BY <1>1 DEF OutputFrame, Frame, EndOf

-----------------------------------------------------------------------------
(* The ring.                                                               *)

\* What the ring with the last bytes of an output of n bytes holds.
LEMMA LastBytesType ==
  ASSUME NEW n \in Nat
  PROVE  /\ LastBytes(n) \in [data : Seq(Nat), start : Nat]
         /\ Total(LastBytes(n)) = n
         /\ Len(LastBytes(n).data) <= RingBytes
<1>1. Excess(n) \in Nat /\ Excess(n) <= n /\ n - Excess(n) <= RingBytes
  BY ExcessType
<1>2. /\ Bytes(Excess(n), n) \in Seq(Nat)
      /\ Len(Bytes(Excess(n), n)) = n - Excess(n)
  BY <1>1, BytesType
<1> HIDE DEF Excess, Bytes
<1> QED BY <1>1, <1>2 DEF LastBytes, Total

\* Append keeps it so, whatever the size of what is appended.
LEMMA AppendToLastBytes ==
  ASSUME NEW n \in Nat, NEW m \in Nat, n <= m
  PROVE  AppendTo(LastBytes(n), Bytes(n, m)) = LastBytes(m)
<1> DEFINE lo   == Excess(n)
           len  == m - lo
           drop == Excess(len)
           all  == LastBytes(n).data \o Bytes(n, m)
<1>1. lo \in Nat /\ lo <= n /\ len \in Nat
  BY ExcessType
<1>2. drop \in Nat /\ drop <= len
  BY <1>1, ExcessType
<1>3. lo + drop = Excess(m) /\ lo + len = m
  BY RingAssumption DEF Excess
<1>4. LastBytes(n).data = Bytes(lo, n)
  BY DEF LastBytes
<1>5. all = Bytes(lo, m)
  <2> HIDE DEF lo
  <2>1. Bytes(lo, n) \o Bytes(n, m) = Bytes(lo, m)
    BY <1>1, BytesConcat
  <2> QED BY <2>1, <1>4
<1>6. Len(all) = len
  <2> HIDE DEF lo, all
  <2>1. Len(Bytes(lo, m)) = m - lo
    BY <1>1, BytesType
  <2> QED BY <2>1, <1>5
<1>7. SubSeq(Bytes(lo, m), drop + 1, len) = Bytes(lo + drop, lo + len)
  <2>1. lo \in Nat /\ drop \in Nat /\ len \in Nat
    BY <1>1, <1>2
  <2>2. lo <= m /\ drop <= len /\ len <= m - lo
    BY <1>1, <1>2
  <2> HIDE DEF lo, drop, len, all
  <2>3. Part(lo, m, drop, len) = Bytes(lo + drop, lo + len)
    BY ONLY m \in Nat, <2>1, <2>2, BytesSubSeq
  <2> QED BY <2>3 DEF Part
<1>8. SubSeq(all, Excess(Len(all)) + 1, Len(all)) = Bytes(Excess(m), m)
  BY <1>3, <1>5, <1>6, <1>7
<1>9. LastBytes(n).start + Excess(Len(all)) = Excess(m)
  BY <1>3, <1>6 DEF LastBytes
<1> QED BY <1>8, <1>9 DEF AppendTo, LastBytes

\* What read_from returns is a run of real bytes at or after the offset asked
\* for.  It starts later only at the start of the ring, and it makes progress
\* unless everything has been read.
LEMMA ReadFromLastBytes ==
  ASSUME NEW n \in Nat, NEW offset \in Nat, offset <= n
  PROVE  \E o \in Nat : \E e \in Nat :
            /\ ReadFrom(LastBytes(n), offset) = [offset |-> o, data |-> Bytes(o, e)]
            /\ offset <= o /\ o <= e /\ e <= n
            /\ o > offset => o <= Excess(n)
            /\ offset < n => offset < o \/ o < e
<1> DEFINE r == LastBytes(n)
           lo == Excess(n)
<1>1. lo \in Nat /\ lo <= n
  BY ExcessType
<1>2. Total(r) = n
  BY LastBytesType
<1>3. r.start = lo /\ r.data = Bytes(lo, n)
  BY DEF LastBytes
<1>4. Len(r.data) = n - lo
  <2> HIDE DEF lo, r
  <2> QED BY <1>1, <1>3, BytesType
<1>5. CASE offset >= n
  <2>1. ReadFrom(r, offset) = [offset |-> n, data |-> << >>]
    BY <1>5, <1>2 DEF ReadFrom
  <2>2. Bytes(n, n) = << >>
    BY BytesEmpty
  <2>3. ReadFrom(r, offset) = [offset |-> n, data |-> Bytes(n, n)]
    BY <2>1, <2>2
  <2>4. offset = n
    BY <1>5
  <2> HIDE DEF r, lo
  <2> QED BY <2>3, <2>4 DEF r, lo
<1>6. CASE ~(offset >= n)
  <2> DEFINE from == Larger(offset, lo)
             idx == from - lo
             k == Smaller(MaxOutputBytes, (n - lo) - idx)
  <2>1. /\ from \in Nat /\ idx \in Nat /\ k \in Nat
        /\ offset <= from /\ from <= n /\ lo <= from
        /\ from > offset => from = lo
        /\ idx + k <= n - lo /\ from + k <= n
    BY <1>1, <1>6, RingAssumption DEF Larger, Smaller
  <2>2. from < n => k > 0
    BY <1>1, <2>1, RingAssumption DEF Smaller
  <2>3. SubSeq(Bytes(lo, n), idx + 1, idx + k) = Bytes(lo + idx, lo + (idx + k))
    <3> DEFINE last == idx + k
    <3>1. /\ lo \in Nat /\ lo <= n
          /\ idx \in Nat /\ last \in Nat /\ idx <= last /\ last <= n - lo
      <4> HIDE DEF lo, idx, k
      <4> QED BY <1>1, <2>1
    <3> HIDE DEF lo, idx, k, last
    <3>2. Part(lo, n, idx, last) = Bytes(lo + idx, lo + last)
      BY <3>1, BytesSubSeq
    <3> QED BY <3>2 DEF last, Part
  <2>4. lo + idx = from /\ lo + (idx + k) = from + k
    <3> HIDE DEF lo, from, k
    <3> QED BY <1>1, <2>1
  <2>5. ReadFrom(r, offset) = [offset |-> from, data |-> Bytes(from, from + k)]
    <3>1. ReadFrom(r, offset)
            = [offset |-> from, data |-> SubSeq(Bytes(lo, n), idx + 1, idx + k)]
      BY <1>2, <1>3, <1>4, <1>6 DEF ReadFrom
    <3> QED BY <3>1, <2>3, <2>4
  <2>6. from + k \in Nat /\ from <= from + k
    <3> HIDE DEF from, k
    <3> QED BY <2>1
  <2>7. offset < from \/ from < from + k
    <3> HIDE DEF from, k
    <3> QED BY <1>6, <2>1, <2>2
  <2>8. from > offset => from <= lo
    <3> HIDE DEF from, lo
    <3> QED BY <1>1, <2>1
  <2> HIDE DEF from, k, r, lo
  <2> QED BY <2>1, <2>5, <2>6, <2>7, <2>8 DEF r, lo
<1> QED BY <1>5, <1>6

-----------------------------------------------------------------------------
(* Parts of sequences.                                                     *)

\* A part that lies within a sequence.
LEMMA PartType ==
  ASSUME NEW S, NEW s \in Seq(S), NEW m \in Nat \ {0}, NEW n \in Nat, n <= Len(s)
  PROVE  /\ SubSeq(s, m, n) \in Seq(S)
         /\ Len(SubSeq(s, m, n)) = IF m <= n THEN n - m + 1 ELSE 0
         /\ \A i \in 1..(n - m + 1) : SubSeq(s, m, n)[i] = s[m + i - 1]
<1>1. \A i \in m..n : s[i] \in S
  <2>1. ASSUME NEW i \in m..n PROVE s[i] \in S
    <3>1. i \in 1..Len(s)
      BY LenProperties
    <3> QED BY <3>1, ElementOfSeq
  <2> QED BY <2>1
<1>2. m \in Int /\ n \in Int
  OBVIOUS
<1> QED BY <1>1, <1>2, SubSeqProperties

\* The bytes of a frame that are new to the client.
LEMMA FreshLength ==
  ASSUME cur \in Frame, received \in Nat
  PROVE  Fresh \in Seq(Nat) /\ Len(Fresh) \in Nat
<1> DEFINE k == (IF received > cur.offset THEN received - cur.offset ELSE 0) + 1
<1>1. cur.data \in Seq(Nat) /\ cur.offset \in Nat /\ k \in Nat \ {0}
  BY DEF Frame
<1>2. Len(cur.data) \in Nat
  BY <1>1, LenProperties
<1>3. Fresh = SubSeq(cur.data, k, Len(cur.data))
  BY DEF Fresh, From
<1>4. Fresh \in Seq(Nat)
  <2> HIDE DEF k
  <2>1. SubSeq(cur.data, k, Len(cur.data)) \in Seq(Nat)
    BY <1>1, <1>2, PartType
  <2> QED BY <1>3, <2>1
<1> QED BY <1>4, LenProperties

\* Any first part of them.
LEMMA FreshType ==
  ASSUME cur \in Frame, received \in Nat, NEW n \in 0..Len(Fresh)
  PROVE  SubSeq(Fresh, 1, n) \in Seq(Nat)
<1>1. Fresh \in Seq(Nat) /\ Len(Fresh) \in Nat
  BY FreshLength
<1>2. n \in Nat /\ n <= Len(Fresh)
  BY <1>1
<1> QED BY <1>1, <1>2, PartType

\* A run shown after s, when everything in s lies before it.
LEMMA ShowRun ==
  ASSUME NEW s \in Seq(Nat), NEW a \in Nat, NEW b \in Nat, a <= b
  PROVE  LET t == s \o Bytes(a, b)
         IN  /\ t \in Seq(Nat)
             /\ {t[i] : i \in 1..Len(t)} = {s[i] : i \in 1..Len(s)} \cup a..(b - 1)
             /\ /\ \A i, j \in 1..Len(s) : i < j => s[i] < s[j]
                /\ \A i \in 1..Len(s) : s[i] < a
                => \A i, j \in 1..Len(t) : i < j => t[i] < t[j]
<1> DEFINE r == Bytes(a, b)
           t == s \o r
           n == Len(s)
           m == b - a
<1>1. /\ r \in Seq(Nat) /\ Len(r) = m /\ \A i \in 1..m : r[i] = a + i - 1
      /\ m \in Nat /\ n \in Nat
  BY BytesType, LenProperties
<1>2. /\ t \in Seq(Nat) /\ Len(t) = n + m
      /\ \A i \in 1..(n + m) : t[i] = IF i <= n THEN s[i] ELSE r[i - n]
  <2> HIDE DEF r
  <2>1. /\ s \o r \in Seq(Nat) /\ Len(s \o r) = Len(s) + Len(r)
        /\ \A i \in 1..(Len(s) + Len(r)) :
              (s \o r)[i] = IF i <= Len(s) THEN s[i] ELSE r[i - Len(s)]
    BY <1>1, ConcatProperties, Zenon
  <2> HIDE DEF m
  <2> QED BY <1>1, <2>1
<1>3. /\ \A i \in 1..n : t[i] = s[i]
      /\ \A i \in 1..m : n + i \in 1..(n + m) /\ t[n + i] = a + i - 1
      /\ \A i \in 1..(n + m) : i \in 1..n \/ (i - n \in 1..m /\ n + (i - n) = i)
  <2> HIDE DEF r, t, n, m
  <2>1. \A i \in 1..n : t[i] = s[i]
    BY <1>1, <1>2
  <2>2. ASSUME NEW i \in 1..m PROVE n + i \in 1..(n + m) /\ t[n + i] = a + i - 1
    <3>1. n + i \in 1..(n + m) /\ ~(n + i <= n) /\ (n + i) - n = i
      BY <1>1
    <3>2. t[n + i] = r[(n + i) - n]
      BY <1>2, <3>1
    <3> QED BY <1>1, <3>1, <3>2
  <2>3. ASSUME NEW i \in 1..(n + m), i \notin 1..n
        PROVE  i - n \in 1..m /\ n + (i - n) = i
    BY <1>1, <2>3
  <2> QED BY <2>1, <2>2, <2>3
<1>4. {t[i] : i \in 1..Len(t)} = {s[i] : i \in 1..Len(s)} \cup a..(b - 1)
  <2>1. ASSUME NEW i \in 1..(n + m)
        PROVE  t[i] \in {s[k] : k \in 1..n} \cup a..(b - 1)
    <3>a. \A k \in 1..m : a + k - 1 \in a..(b - 1)
      OBVIOUS
    <3> HIDE DEF r, t, n, m
    <3>1. CASE i \in 1..n
      <4>1. t[i] = s[i]
        BY <1>3, <3>1
      <4> QED BY <3>1, <4>1
    <3>2. CASE i - n \in 1..m /\ n + (i - n) = i
      <4>1. t[i] = a + (i - n) - 1
        BY <1>3, <3>2
      <4>2. t[i] \in a..(b - 1)
        BY <3>a, <3>2, <4>1
      <4> QED BY <4>2
    <3> QED BY <1>3, <3>1, <3>2
  <2>2. ASSUME NEW i \in 1..n PROVE s[i] \in {t[k] : k \in 1..(n + m)}
    <3> HIDE DEF r, t, n, m
    <3>1. i \in 1..(n + m) /\ t[i] = s[i]
      BY <1>1, <1>3
    <3> QED BY <3>1
  <2>3. ASSUME NEW p \in a..(b - 1) PROVE p \in {t[k] : k \in 1..(n + m)}
    <3>1. p - a + 1 \in 1..m /\ a + (p - a + 1) - 1 = p
      OBVIOUS
    <3> HIDE DEF r, t, n, m
    <3>2. n + (p - a + 1) \in 1..(n + m) /\ t[n + (p - a + 1)] = p
      BY <1>3, <3>1
    <3> QED BY <3>2
  <2> HIDE DEF t, n, m
  <2> QED BY <2>1, <2>2, <2>3, <1>2 DEF n
<1>5. ASSUME \A i, j \in 1..n : i < j => s[i] < s[j],
             \A i \in 1..n : s[i] < a,
             NEW i \in 1..(n + m), NEW j \in 1..(n + m), i < j
      PROVE  t[i] < t[j]
  <2> HIDE DEF r, t, n, m
  <2>1. CASE i \in 1..n /\ j \in 1..n
    BY <1>3, <1>5, <2>1
  <2>2. CASE i \in 1..n /\ j - n \in 1..m /\ n + (j - n) = j
    <3>1. t[i] = s[i] /\ t[j] = a + (j - n) - 1
      BY <1>3, <2>2
    <3>2. s[i] < a /\ s[i] \in Nat
      BY <1>5, <2>2, ElementOfSeq DEF n
    <3> QED BY <3>1, <3>2, <2>2, <1>1
  <2>3. CASE i - n \in 1..m /\ n + (i - n) = i /\ j - n \in 1..m /\ n + (j - n) = j
    <3>1. t[i] = a + (i - n) - 1 /\ t[j] = a + (j - n) - 1
      BY <1>3, <2>3
    <3> QED BY <3>1, <2>3, <1>1, <1>5
  <2>4. ~(j \in 1..n /\ i \notin 1..n)
    BY <1>1, <1>5
  <2> QED BY <1>3, <2>1, <2>2, <2>3, <2>4
<1> QED
  <2> HIDE DEF t, m
  <2> QED BY <1>2, <1>4, <1>5 DEF t, n
=============================================================================
