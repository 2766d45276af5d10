----------------------------- MODULE WriteLemmas ------------------------------
(***************************************************************************)
(* A command of the CS7 streamer is a sequence of writes, each a record of *)
(* a cell and a value.  What a cell holds after them, and the unsigned     *)
(* arithmetic of the values: what MixerProofs and StreamParamsProofs need. *)
(***************************************************************************)
EXTENDS Integers, Sequences, TLAPS

\* The last of the writes s to cell c writes v; none of them is to c.
Last(s, c, v) ==
  \E i \in DOMAIN s : /\ s[i].cell = c /\ s[i].val = v
                      /\ \A j \in DOMAIN s : j > i => s[j].cell # c
Avoids(s, c) == \A i \in DOMAIN s : s[i].cell # c

\* What cell c, which held old, holds after the writes s.
After(s, c, old, v) == Last(s, c, v) \/ (Avoids(s, c) /\ old = v)

-----------------------------------------------------------------------------
\* The later of two writes to a cell counts.
LEMMA LastOfTwo ==
  ASSUME NEW W, NEW s \in Seq(W), NEW t \in Seq(W), NEW c, NEW v
  PROVE  /\ Last(t, c, v) => Last(s \o t, c, v)
         /\ Last(s, c, v) /\ Avoids(t, c) => Last(s \o t, c, v)
         /\ Avoids(s, c) /\ Avoids(t, c) => Avoids(s \o t, c)
         /\ s \o t \in Seq(W)
<1>1. /\ s \o t \in Seq(W) /\ Len(s \o t) = Len(s) + Len(t)
      /\ \A i \in 1 .. Len(s) : (s \o t)[i] = s[i]
      /\ \A i \in 1 .. Len(t) : (s \o t)[Len(s) + i] = t[i]
      /\ DOMAIN (s \o t) = 1 .. (Len(s) + Len(t))
      /\ DOMAIN s = 1 .. Len(s) /\ DOMAIN t = 1 .. Len(t)
      /\ Len(s) \in Nat /\ Len(t) \in Nat
  OBVIOUS
<1> DEFINE u == s \o t
<1> HIDE DEF u
<1>2. \A i \in DOMAIN u : i \in DOMAIN s \/ \E j \in DOMAIN t : i = Len(s) + j
  <2> SUFFICES ASSUME NEW i \in DOMAIN u, i \notin DOMAIN s
               PROVE  \E j \in DOMAIN t : i = Len(s) + j
    OBVIOUS
  <2>1. i - Len(s) \in DOMAIN t /\ i = Len(s) + (i - Len(s))
    BY <1>1 DEF u
  <2> QED
    BY <2>1
<1>3. ASSUME Last(t, c, v) PROVE Last(u, c, v)
  <2>1. PICK i \in DOMAIN t : /\ t[i].cell = c /\ t[i].val = v
                              /\ \A j \in DOMAIN t : j > i => t[j].cell # c
    BY <1>3 DEF Last
  <2>2. Len(s) + i \in DOMAIN u /\ u[Len(s) + i].cell = c /\ u[Len(s) + i].val = v
    BY <1>1, <2>1 DEF u
  <2>3. ASSUME NEW j \in DOMAIN u, j > Len(s) + i PROVE u[j].cell # c
    <3>1. PICK k \in DOMAIN t : j = Len(s) + k
      BY <1>1, <1>2, <2>3
    <3> QED
      BY <1>1, <2>1, <2>3, <3>1 DEF u
  <2> QED
    BY <2>2, <2>3 DEF Last
<1>4. ASSUME Last(s, c, v), Avoids(t, c) PROVE Last(u, c, v)
  <2>1. PICK i \in DOMAIN s : /\ s[i].cell = c /\ s[i].val = v
                              /\ \A j \in DOMAIN s : j > i => s[j].cell # c
    BY <1>4 DEF Last
  <2>2. i \in DOMAIN u /\ u[i].cell = c /\ u[i].val = v
    BY <1>1, <2>1 DEF u
  <2>3. ASSUME NEW j \in DOMAIN u, j > i PROVE u[j].cell # c
    BY <1>1, <1>2, <1>4, <2>1, <2>3 DEF u, Avoids
  <2> QED
    BY <2>2, <2>3 DEF Last
<1>5. ASSUME Avoids(s, c), Avoids(t, c) PROVE Avoids(u, c)
  BY <1>1, <1>2, <1>5 DEF Avoids, u
<1> QED
  BY <1>1, <1>3, <1>4, <1>5 DEF u

\* What the first writes leave, the others start from.
LEMMA Chain ==
  ASSUME NEW W, NEW s \in Seq(W), NEW t \in Seq(W), NEW c, NEW old, NEW m, NEW v,
         After(s, c, old, m), After(t, c, m, v)
  PROVE  After(s \o t, c, old, v)
BY LastOfTwo DEF After

\* When the first write is made, the others leave what all of them left.
LEMMA OneLess ==
  ASSUME NEW W, NEW s \in Seq(W), s # <<>>, NEW c, NEW old, NEW v, After(s, c, old, v)
  PROVE  After(Tail(s), c, IF s[1].cell = c THEN s[1].val ELSE old, v)
<1> DEFINE t == Tail(s)
           now == IF s[1].cell = c THEN s[1].val ELSE old
<1>1. /\ DOMAIN s = 1 .. Len(s) /\ DOMAIN t = 1 .. (Len(s) - 1)
      /\ \A i \in DOMAIN t : t[i] = s[i + 1]
      /\ Len(s) \in Nat \ {0}
  OBVIOUS
<1> HIDE DEF t
<1>3. CASE Avoids(s, c) /\ old = v
  <2>1. Avoids(t, c)
    BY <1>1, <1>3 DEF Avoids
  <2>2. now = v
    BY <1>1, <1>3 DEF Avoids
  <2> QED
    BY <2>1, <2>2 DEF After, t
<1>4. CASE Last(s, c, v)
  <2>1. PICK i \in DOMAIN s : /\ s[i].cell = c /\ s[i].val = v
                              /\ \A j \in DOMAIN s : j > i => s[j].cell # c
    BY <1>4 DEF Last
  <2>2. CASE i = 1
    <3>1. Avoids(t, c)
      BY <1>1, <2>1, <2>2 DEF Avoids
    <3>2. now = v
      BY <2>1, <2>2
    <3> QED
      BY <3>1, <3>2 DEF After, t
  <2>3. CASE i # 1
    <3>1. i - 1 \in DOMAIN t /\ t[i - 1] = s[i]
      BY <1>1, <2>1, <2>3
    <3>2. \A j \in DOMAIN t : j > i - 1 => t[j].cell # c
      BY <1>1, <2>1
    <3>3. Last(t, c, v)
      BY <2>1, <3>1, <3>2 DEF Last
    <3> QED
      BY <3>3 DEF After, t
  <2> QED
    BY <2>2, <2>3
<1> QED
  BY <1>3, <1>4 DEF After

-----------------------------------------------------------------------------
\* A multiple of the word within a word of zero is zero.
LEMMA NoMultiple ==
  ASSUME NEW n \in Nat \ {0}, NEW d \in Int, -n < n * d, n * d < n
  PROVE  d = 0
<1>1. CASE d >= 1
  <2>1. n * d >= n
    BY <1>1
  <2> QED
    BY <2>1
<1>2. CASE d <= -1
  <2>1. n * d <= -n
    BY <1>2
  <2> QED
    BY <2>1
<1> QED
  BY <1>1, <1>2

\* Quotient and remainder.
LEMMA ModIs ==
  ASSUME NEW x \in Int, NEW n \in Nat \ {0}
  PROVE  /\ x % n \in 0 .. (n - 1) /\ x \div n \in Int
         /\ x = n * (x \div n) + (x % n)
OBVIOUS

\* Whole words do not count.
LEMMA ModShift ==
  ASSUME NEW x \in Int, NEW k \in Int, NEW n \in Nat \ {0}
  PROVE  (x - n * k) % n = x % n
<1> DEFINE y == x - n * k
<1>1. y \in Int
  OBVIOUS
<1>2. x % n \in 0 .. (n - 1) /\ x \div n \in Int /\ x = n * (x \div n) + (x % n)
  BY ModIs
<1>3. y % n \in 0 .. (n - 1) /\ y \div n \in Int /\ y = n * (y \div n) + (y % n)
  BY <1>1, ModIs
<1>4. n * ((x \div n) - k - (y \div n)) = (y % n) - (x % n)
  <2> DEFINE a == n * (x \div n)
             b == n * (y \div n)
             c == n * k
  <2>1. n * ((x \div n) - k - (y \div n)) = a - c - b
    BY <1>2, <1>3
  <2>2. a \in Int /\ b \in Int /\ c \in Int
    BY <1>2, <1>3
  <2>3. x = a + (x % n) /\ y = b + (y % n) /\ y = x - c
    BY <1>2, <1>3
  <2> HIDE DEF a, b, c, y
  <2> QED
    BY <1>2, <1>3, <2>1, <2>2, <2>3
<1>5. (x \div n) - k - (y \div n) = 0
  BY <1>2, <1>3, <1>4, NoMultiple
<1> QED
  BY <1>2, <1>3, <1>4, <1>5
===============================================================================
