------------------------ MODULE SequencePiecesProofs ------------------------
(* What First, After and \o make of a sequence: of its elements, of the      *)
(* order of its numbers, and of numbers that count on.                      *)
EXTENDS SequencePieces, SequenceTheorems, TLAPS

\* A piece of no elements.
LEMMA EmptyPiece == Elements(<<>>) = {} /\ Increasing(<<>>) /\ <<>> \in Seq(Nat)
  BY DEF Elements, Increasing

\* The front of a sequence, element by element.
LEMMA FirstIs ==
  ASSUME NEW S, NEW s \in Seq(S), NEW n \in Nat
  PROVE /\ First(s, n) \in Seq(S)
        /\ Len(First(s, n)) = Least(n, Len(s))
        /\ \A i \in DOMAIN First(s, n) :
             i \in 1 .. n /\ i \in DOMAIN s /\ First(s, n)[i] = s[i]
<1> DEFINE k == Least(n, Len(s))
<1>1. k \in Nat /\ k <= Len(s) /\ k <= n
      BY DEF Least
<1>2. \A i \in 1 .. k : s[i] \in S
      BY <1>1
<1>3. First(s, n) = [i \in 1 .. k |-> s[i]]
      BY <1>1 DEF First
<1> QED BY <1>1, <1>2, <1>3

\* It holds every element up to the n-th.
LEMMA FirstHas ==
  ASSUME NEW S, NEW s \in Seq(S), NEW n \in Nat
  PROVE \A i \in 1 .. n : i \in DOMAIN s => i \in DOMAIN First(s, n)
<1>1. Len(First(s, n)) = Least(n, Len(s)) /\ First(s, n) \in Seq(S)
      BY FirstIs
<1> QED BY <1>1 DEF Least

\* What is behind it.
LEMMA AfterIs ==
  ASSUME NEW S, NEW s \in Seq(S), NEW n \in Nat
  PROVE /\ After(s, n) \in Seq(S)
        /\ Len(After(s, n)) = IF n < Len(s) THEN Len(s) - n ELSE 0
        /\ \A i \in DOMAIN After(s, n) : n + i \in DOMAIN s /\ After(s, n)[i] = s[n + i]
<1> DEFINE k == IF n < Len(s) THEN Len(s) - n ELSE 0
<1>1. k \in Nat
      OBVIOUS
<1>2. After(s, n) = [i \in 1 .. k |-> s[n + i]]
      BY DEF After
<1>3. \A i \in 1 .. k : n + i \in DOMAIN s /\ s[n + i] \in S
      OBVIOUS
<1> QED BY <1>1, <1>2, <1>3

\* Two pieces one behind the other.
LEMMA JoinIs ==
  ASSUME NEW s \in Seq(Nat), NEW t \in Seq(Nat)
  PROVE /\ s \o t \in Seq(Nat)
        /\ Elements(s \o t) = Elements(s) \cup Elements(t)
        /\ Increasing(s) /\ Increasing(t) /\ Before(s, t) => Increasing(s \o t)
<1>1. /\ s \o t \in Seq(Nat) /\ Len(s \o t) = Len(s) + Len(t)
      /\ \A i \in 1 .. Len(s) + Len(t) :
           (s \o t)[i] = IF i <= Len(s) THEN s[i] ELSE t[i - Len(s)]
      BY ConcatProperties
<1>2. Elements(s \o t) = Elements(s) \cup Elements(t)
  <2>1. Elements(s \o t) \subseteq Elements(s) \cup Elements(t)
        BY <1>1 DEF Elements
  <2>2. Elements(s) \subseteq Elements(s \o t)
        BY <1>1 DEF Elements
  <2>3. ASSUME NEW j \in DOMAIN t PROVE t[j] \in Elements(s \o t)
    <3>1. Len(s) + j \in DOMAIN (s \o t) /\ (s \o t)[Len(s) + j] = t[j]
          BY <1>1
    <3> QED BY <3>1 DEF Elements
  <2> QED BY <2>1, <2>2, <2>3 DEF Elements
<1>3. ASSUME Increasing(s), Increasing(t), Before(s, t),
             NEW i \in DOMAIN (s \o t), NEW j \in DOMAIN (s \o t), i < j
      PROVE (s \o t)[i] < (s \o t)[j]
  <2>1. CASE j <= Len(s)
        BY <1>1, <1>3, <2>1 DEF Increasing
  <2>2. CASE i > Len(s)
    <3>1. i - Len(s) \in DOMAIN t /\ j - Len(s) \in DOMAIN t
          BY <1>1, <1>3, <2>2
    <3>2. t[i - Len(s)] < t[j - Len(s)]
          BY <1>3, <2>2, <3>1 DEF Increasing
    <3> QED BY <1>1, <1>3, <2>2, <3>2
  <2>3. CASE i <= Len(s) /\ j > Len(s)
    <3>1. i \in DOMAIN s /\ j - Len(s) \in DOMAIN t
          BY <1>1, <2>3
    <3>2. s[i] < t[j - Len(s)]
          BY <1>3, <3>1 DEF Before, Elements
    <3> QED BY <1>1, <2>3, <3>2
  <2> QED BY <1>1, <2>1, <2>2, <2>3
<1> QED BY <1>1, <1>2, <1>3 DEF Increasing

\* The elements of three pieces.
LEMMA JoinThree ==
  ASSUME NEW k \in Seq(Nat), NEW o \in Seq(Nat), NEW s \in Seq(Nat)
  PROVE Elements(k \o o \o s) = Elements(k) \cup Elements(o) \cup Elements(s)
<1>1. k \o o \in Seq(Nat) /\ Elements(k \o o) = Elements(k) \cup Elements(o)
      BY JoinIs
<1>2. Elements((k \o o) \o s) = Elements(k \o o) \cup Elements(s)
      BY <1>1, JoinIs
<1> QED BY <1>1, <1>2

\* Taking the front off an ordered sequence.
LEMMA CutIs ==
  ASSUME NEW s \in Seq(Nat), NEW n \in Nat
  PROVE /\ First(s, n) \in Seq(Nat) /\ After(s, n) \in Seq(Nat)
        /\ Elements(First(s, n)) \subseteq Elements(s)
        /\ Elements(After(s, n)) \subseteq Elements(s)
        /\ Increasing(s) => /\ Increasing(First(s, n)) /\ Increasing(After(s, n))
                            /\ Before(First(s, n), After(s, n))
<1> DEFINE f == First(s, n)
           a == After(s, n)
<1>1. f \in Seq(Nat) /\ \A i \in DOMAIN f : i \in 1 .. n /\ i \in DOMAIN s /\ f[i] = s[i]
      BY FirstIs
<1>2. /\ a \in Seq(Nat)
      /\ \A i \in DOMAIN a : n + i \in DOMAIN s /\ a[i] = s[n + i]
      BY AfterIs
<1>3. \A i \in DOMAIN f : i \in Nat /\ i <= n
      BY <1>1
<1>4. \A i \in DOMAIN a : i \in Nat /\ i > 0
      BY <1>2
<1> HIDE DEF f, a
<1>5. Elements(f) \subseteq Elements(s) /\ Elements(a) \subseteq Elements(s)
      BY <1>1, <1>2 DEF Elements
<1>6. Increasing(s) => Increasing(f)
      BY <1>1 DEF Increasing
<1>7. Increasing(s) => Increasing(a)
      BY <1>2, <1>4 DEF Increasing
<1>8. ASSUME Increasing(s), NEW i \in DOMAIN f, NEW j \in DOMAIN a PROVE f[i] < a[j]
  <2>1. i \in DOMAIN s /\ n + j \in DOMAIN s /\ i < n + j
        BY <1>1, <1>2, <1>3, <1>4
  <2>2. s[i] < s[n + j]
        BY <1>8, <2>1 DEF Increasing
  <2> QED BY <1>1, <1>2, <2>2
<1>9. Increasing(s) => Before(f, a)
      BY <1>8 DEF Before, Elements
<1> QED BY <1>1, <1>2, <1>5, <1>6, <1>7, <1>9 DEF f, a

\* A message later than all of an ordered sequence.
LEMMA AppendIs ==
  ASSUME NEW s \in Seq(Nat), NEW x \in Nat
  PROVE /\ Append(s, x) \in Seq(Nat)
        /\ Elements(Append(s, x)) = Elements(s) \cup {x}
        /\ Increasing(s) /\ (\A m \in Elements(s) : m < x) => Increasing(Append(s, x))
<1>1. /\ Append(s, x) \in Seq(Nat) /\ Len(Append(s, x)) = Len(s) + 1
      /\ \A i \in 1 .. Len(s) : Append(s, x)[i] = s[i]
      /\ Append(s, x)[Len(s) + 1] = x
      BY AppendProperties
<1>2. Elements(Append(s, x)) = Elements(s) \cup {x}
      BY <1>1 DEF Elements
<1>3. ASSUME Increasing(s), \A m \in Elements(s) : m < x,
             NEW i \in DOMAIN Append(s, x), NEW j \in DOMAIN Append(s, x), i < j
      PROVE Append(s, x)[i] < Append(s, x)[j]
  <2>1. i \in DOMAIN s /\ s[i] \in Elements(s)
        BY <1>1, <1>3 DEF Elements
  <2>2. CASE j = Len(s) + 1
        BY <1>1, <1>3, <2>1, <2>2
  <2>3. CASE j # Len(s) + 1
    <3>1. j \in DOMAIN s
          BY <1>1, <2>3
    <3> QED BY <1>1, <1>3, <2>1, <3>1 DEF Increasing
  <2> QED BY <2>2, <2>3
<1> QED BY <1>1, <1>2, <1>3 DEF Increasing

\* What was joined is what is left when the first part is taken away.
LEMMA RestIs ==
  ASSUME NEW s \in Seq(Nat), NEW t \in Seq(Nat)
  PROVE SubSeq(s \o t, Len(s) + 1, Len(s \o t)) = t
<1>1. /\ s \o t \in Seq(Nat) /\ Len(s \o t) = Len(s) + Len(t)
      /\ \A i \in 1 .. Len(s) + Len(t) :
           (s \o t)[i] = IF i <= Len(s) THEN s[i] ELSE t[i - Len(s)]
      BY ConcatProperties
<1> DEFINE r == SubSeq(s \o t, Len(s) + 1, Len(s \o t))
<1>2. r = [i \in 1 .. Len(t) |-> (s \o t)[Len(s) + i]]
      BY <1>1
<1>3. r = [i \in 1 .. Len(t) |-> t[i]]
      BY <1>1, <1>2
<1> QED BY <1>3

\* The front of a front is not longer than either.
LEMMA FirstOfFirst ==
  ASSUME NEW s \in Seq(Nat), NEW k \in Nat, NEW n \in Nat
  PROVE Elements(First(First(s, k), n)) \subseteq Elements(First(s, n))
<1> DEFINE f == First(s, k)
           g == First(f, n)
           h == First(s, n)
<1>1. f \in Seq(Nat) /\ \A i \in DOMAIN f : i \in DOMAIN s /\ f[i] = s[i]
      BY FirstIs
<1>2. \A i \in DOMAIN g : i \in 1 .. n /\ i \in DOMAIN f /\ g[i] = f[i]
      BY <1>1, FirstIs
<1>3. \A i \in DOMAIN h : h[i] = s[i]
      BY FirstIs
<1>4. \A i \in 1 .. n : i \in DOMAIN s => i \in DOMAIN h
      BY FirstHas
<1> HIDE DEF f, g, h
<1>5. \A i \in DOMAIN g : i \in DOMAIN h /\ g[i] = h[i]
      BY <1>1, <1>2, <1>3, <1>4
<1> QED BY <1>5 DEF Elements, f, g, h

\* Nothing is lost by taking the front off.
LEMMA CutCovers ==
  ASSUME NEW s \in Seq(Nat), NEW n \in Nat
  PROVE Elements(s) \subseteq Elements(First(s, n)) \cup Elements(After(s, n))
<1> DEFINE f == First(s, n)
           a == After(s, n)
<1>1. \A i \in 1 .. n : i \in DOMAIN s => i \in DOMAIN f
      BY FirstHas
<1>2. \A i \in DOMAIN f : f[i] = s[i]
      BY FirstIs
<1>3. /\ a \in Seq(Nat) /\ Len(a) = IF n < Len(s) THEN Len(s) - n ELSE 0
      /\ \A i \in DOMAIN a : a[i] = s[n + i]
      BY AfterIs
<1> HIDE DEF f, a
<1>4. ASSUME NEW i \in DOMAIN s PROVE s[i] \in Elements(f) \cup Elements(a)
  <2>1. CASE i <= n
    <3>1. i \in DOMAIN f /\ f[i] = s[i]
          BY <1>1, <1>2, <2>1
    <3> QED BY <3>1 DEF Elements
  <2>2. CASE i > n
    <3>1. i - n \in DOMAIN a /\ n + (i - n) = i
          BY <1>3, <2>2
    <3>2. a[i - n] = s[i]
          BY <1>3, <3>1
    <3> QED BY <3>1, <3>2 DEF Elements
  <2> QED BY <2>1, <2>2
<1> QED BY <1>4 DEF Elements, f, a

\* Moving the front of one ordered piece to the end of the one before it.
LEMMA MoveIs ==
  ASSUME NEW a \in Seq(Nat), NEW b \in Seq(Nat), NEW n \in Nat,
         Increasing(a), Increasing(b), Before(a, b)
  PROVE /\ Increasing(a \o First(b, n)) /\ Increasing(After(b, n))
        /\ Elements(a \o First(b, n)) = Elements(a) \cup Elements(First(b, n))
        /\ Elements(First(b, n)) \subseteq Elements(b)
        /\ Elements(After(b, n)) \subseteq Elements(b)
        /\ Before(a \o First(b, n), After(b, n))
<1> DEFINE f == First(b, n)
           r == After(b, n)
<1>1. /\ f \in Seq(Nat) /\ Elements(f) \subseteq Elements(b) /\ Increasing(f)
      /\ Elements(r) \subseteq Elements(b) /\ Increasing(r) /\ Before(f, r)
      BY CutIs
<1> HIDE DEF f, r
<1>2. Before(a, f) /\ Before(a, r)
      BY <1>1 DEF Before
<1>3. Elements(a \o f) = Elements(a) \cup Elements(f) /\ Increasing(a \o f)
      BY <1>1, <1>2, JoinIs
<1>4. Before(a \o f, r)
      BY <1>1, <1>2, <1>3 DEF Before
<1> QED BY <1>1, <1>3, <1>4 DEF f, r

\* Head and Tail, Append and Head, as pieces.
LEMMA HeadIs ==
  ASSUME NEW s \in Seq(Nat), s # <<>>
  PROVE /\ First(s, 1) = <<Head(s)>> /\ After(s, 1) = Tail(s)
        /\ Elements(First(s, 1)) = {Head(s)}
        /\ \A t \in Seq(Nat) : Append(t, Head(s)) = t \o First(s, 1)
<1>1. Len(s) \in Nat /\ Len(s) >= 1 /\ s[1] \in Nat /\ Head(s) = s[1]
      BY EmptySeq
<1>2. \A k \in Nat : k >= 1 => Least(1, k) = 1
      BY DEF Least
<1>3. First(s, 1) = <<Head(s)>>
  <2> DEFINE f == First(s, 1)
  <2>1. f \in Seq(Nat) /\ Len(f) = Least(1, Len(s))
        BY FirstIs
  <2>2. \A i \in DOMAIN f : f[i] = s[i]
        BY FirstIs
  <2> HIDE DEF f
  <2>3. f \in Seq(Nat) /\ Len(f) = 1
        BY <1>1, <1>2, <2>1
  <2>4. f[1] = s[1]
        BY <2>2, <2>3
  <2>5. <<Head(s)>> \in Seq(Nat) /\ Len(<<Head(s)>>) = 1 /\ <<Head(s)>>[1] = s[1]
        BY <1>1
  <2>6. \A i \in 1 .. 1 : f[i] = <<Head(s)>>[i]
        BY <2>4, <2>5
  <2> QED BY <2>3, <2>5, <2>6, SeqEqual DEF f
<1>4. After(s, 1) = Tail(s)
      BY <1>1, SubSeqProperties, HeadTailProperties DEF After
<1>5. Elements(<<Head(s)>>) = {Head(s)}
      BY <1>1 DEF Elements
<1>6. \A t \in Seq(Nat) : Append(t, Head(s)) = t \o <<Head(s)>>
      BY <1>1, AppendIsConcat
<1> QED BY <1>3, <1>4, <1>5, <1>6

\* A function on the first numbers is a sequence.
LEMMA MadeSeq ==
  ASSUME NEW S, NEW n \in Nat, NEW s \in [1 .. n -> S] PROVE s \in Seq(S) /\ Len(s) = n
  BY SeqDef

\* Two sequences of the same length and the same elements.
LEMMA SameSeq ==
  ASSUME NEW S, NEW s \in Seq(S), NEW t \in Seq(S), Len(s) = Len(t),
         \A i \in 1 .. Len(s) : s[i] = t[i]
  PROVE s = t
  BY SeqEqual

\* A sequence that is cut is the two pieces one behind the other.
LEMMA CutJoins ==
  ASSUME NEW S, NEW s \in Seq(S), NEW n \in Nat
  PROVE First(s, n) \o After(s, n) = s
<1> DEFINE f == First(s, n)
           a == After(s, n)
           l == Len(s)
<1>1. /\ f \in Seq(S) /\ Len(f) = Least(n, l)
      /\ \A i \in DOMAIN f : i \in DOMAIN s /\ f[i] = s[i]
      BY FirstIs
<1>2. /\ a \in Seq(S) /\ Len(a) = (IF n < l THEN l - n ELSE 0)
      /\ \A i \in DOMAIN a : n + i \in DOMAIN s /\ a[i] = s[n + i]
      BY AfterIs
<1>3. l \in Nat
      OBVIOUS
<1>4. s \in Seq(S) /\ Len(s) = l
      OBVIOUS
<1> HIDE DEF f, a, l
<1>5. /\ f \o a \in Seq(S) /\ Len(f \o a) = Len(f) + Len(a)
      /\ \A i \in 1 .. Len(f) + Len(a) :
           (f \o a)[i] = IF i <= Len(f) THEN f[i] ELSE a[i - Len(f)]
      BY <1>1, <1>2, ConcatProperties
<1>6. Len(f) + Len(a) = l
      BY <1>1, <1>2, <1>3 DEF Least
<1>7. ASSUME NEW i \in 1 .. l PROVE (f \o a)[i] = s[i]
  <2>1. CASE i <= Len(f)
    <3>1. i \in DOMAIN f
          BY <1>1, <1>3, <2>1 DEF Least
    <3> QED BY <1>1, <1>5, <1>6, <2>1, <3>1
  <2>2. CASE ~(i <= Len(f))
    <3>1. Len(f) = n /\ n < l
          BY <1>1, <1>3, <2>2 DEF Least
    <3>2. i - n \in DOMAIN a /\ n + (i - n) = i
          BY <1>2, <1>3, <2>2, <3>1
    <3> QED BY <1>2, <1>5, <1>6, <2>2, <3>1, <3>2
  <2> QED BY <2>1, <2>2
<1>8. f \o a = s
      BY <1>4, <1>5, <1>6, <1>7, SameSeq
<1> QED BY <1>8 DEF f, a

\* Nothing is added in front of a sequence or behind it.
LEMMA EmptyJoin ==
  ASSUME NEW S, NEW s \in Seq(S) PROVE <<>> \o s = s /\ s \o <<>> = s
  BY ConcatEmptySeq

\* All of a sequence, and what is behind it.
LEMMA WholeIs ==
  ASSUME NEW S, NEW s \in Seq(S) PROVE First(s, Len(s)) = s /\ After(s, Len(s)) = <<>>
<1>1. Len(s) \in Nat
      OBVIOUS
<1>2. Least(Len(s), Len(s)) = Len(s)
      BY <1>1 DEF Least
<1>3. /\ First(s, Len(s)) \in Seq(S) /\ Len(First(s, Len(s))) = Len(s)
      /\ \A i \in DOMAIN First(s, Len(s)) : First(s, Len(s))[i] = s[i]
      BY <1>1, <1>2, FirstIs
<1>4. First(s, Len(s)) = s
  <2> DEFINE f == First(s, Len(s))
  <2>1. f \in Seq(S) /\ Len(f) = Len(s) /\ \A i \in DOMAIN f : f[i] = s[i]
        BY <1>3
  <2> HIDE DEF f
  <2>2. DOMAIN f = 1 .. Len(f)
        BY <2>1
  <2> QED BY <2>1, <2>2, SameSeq DEF f
<1>5. After(s, Len(s)) \in Seq(S) /\ Len(After(s, Len(s))) = 0
      BY <1>1, AfterIs
<1> QED BY <1>4, <1>5, EmptySeq

\* The same of one that is not longer.
LEMMA EnoughIs ==
  ASSUME NEW S, NEW s \in Seq(S), NEW n \in Nat, ~(Len(s) > n) PROVE First(s, n) = s
<1>1. Len(s) \in Nat
      OBVIOUS
<1>2. Least(n, Len(s)) = Least(Len(s), Len(s))
  <2> DEFINE l == Len(s)
  <2>1. l \in Nat /\ ~(l > n)
        BY <1>1
  <2> HIDE DEF l
  <2>2. Least(n, l) = Least(l, l)
        BY <2>1 DEF Least
  <2> QED BY <2>2 DEF l
<1>3. First(s, n) = First(s, Len(s))
      BY <1>2 DEF First
<1> QED BY <1>3, WholeIs

\* What is put behind the second of two sequences is behind both.
LEMMA AppendToJoin ==
  ASSUME NEW S, NEW s \in Seq(S), NEW t \in Seq(S), NEW x \in S
  PROVE s \o Append(t, x) = Append(s \o t, x)
<1> DEFINE a == Append(t, x)
           j == s \o t
           l == s \o a
           r == Append(j, x)
<1>1. /\ a \in Seq(S) /\ Len(a) = Len(t) + 1
      /\ \A i \in 1 .. Len(t) : a[i] = t[i]
      /\ a[Len(t) + 1] = x
      BY AppendProperties
<1>2. /\ j \in Seq(S) /\ Len(j) = Len(s) + Len(t)
      /\ \A i \in 1 .. Len(s) + Len(t) : j[i] = IF i <= Len(s) THEN s[i] ELSE t[i - Len(s)]
      BY ConcatProperties
<1> HIDE DEF a, j
<1>3. /\ l \in Seq(S) /\ Len(l) = Len(s) + Len(a)
      /\ \A i \in 1 .. Len(s) + Len(a) : l[i] = IF i <= Len(s) THEN s[i] ELSE a[i - Len(s)]
      BY <1>1, ConcatProperties
<1>4. /\ r \in Seq(S) /\ Len(r) = Len(j) + 1
      /\ \A i \in 1 .. Len(j) : r[i] = j[i]
      /\ r[Len(j) + 1] = x
      BY <1>2, AppendProperties
<1> HIDE DEF l, r
<1>5. Len(s) \in Nat /\ Len(t) \in Nat
      OBVIOUS
<1>6. ASSUME NEW i \in 1 .. Len(l) PROVE l[i] = r[i]
  <2>1. CASE i <= Len(s)
    <3>1. /\ i \in 1 .. Len(s) + Len(a) /\ i \in 1 .. Len(s) + Len(t)
          /\ i \in 1 .. Len(j)
          BY <1>1, <1>2, <1>3, <1>5, <2>1
    <3>2. l[i] = s[i] /\ j[i] = s[i] /\ r[i] = j[i]
          BY <1>2, <1>3, <1>4, <2>1, <3>1
    <3> QED BY <3>2
  <2>2. CASE ~(i <= Len(s)) /\ i <= Len(s) + Len(t)
    <3>1. i - Len(s) \in 1 .. Len(t) /\ i \in 1 .. Len(j) /\ i \in 1 .. Len(s) + Len(a)
          BY <1>1, <1>2, <1>5, <2>2
    <3> QED BY <1>1, <1>2, <1>3, <1>4, <2>2, <3>1
  <2>3. CASE i = Len(s) + Len(t) + 1
    <3>1. i - Len(s) = Len(t) + 1 /\ i = Len(j) + 1 /\ ~(i <= Len(s)) /\ i \in 1 .. Len(s) + Len(a)
          BY <1>1, <1>2, <1>5, <2>3
    <3>2. l[i] = a[i - Len(s)]
          BY <1>3, <3>1
    <3>3. l[i] = x /\ r[i] = x
          BY <1>1, <1>4, <3>1, <3>2
    <3> QED BY <3>3
  <2>4. i \in Nat /\ i <= Len(s) + Len(t) + 1
        BY <1>1, <1>3, <1>5
  <2> QED BY <1>5, <2>1, <2>2, <2>3, <2>4
<1>7. Len(l) = Len(r)
      BY <1>1, <1>2, <1>3, <1>4, <1>5
<1>8. l = r
      BY <1>3, <1>4, <1>6, <1>7, SameSeq
<1> QED BY <1>8 DEF l, r, a, j

\* The numbers that follow n, one after the other.
Counted(s, n) == \A i \in DOMAIN s : s[i] = n + i

LEMMA CountedNone == \A n : Counted(<<>>, n)
  BY DEF Counted

\* The next k numbers behind n.
LEMMA NumbersAre ==
  ASSUME NEW n \in Nat, NEW k \in Nat
  PROVE LET s == [i \in 1 .. k |-> n + i]
        IN /\ s \in Seq(Nat) /\ Len(s) = k /\ Counted(s, n)
           /\ Increasing(s) /\ Elements(s) = n + 1 .. n + k
<1> DEFINE s == [i \in 1 .. k |-> n + i]
<1>1. DOMAIN s = 1 .. k /\ \A i \in 1 .. k : s[i] = n + i /\ n + i \in Nat
      OBVIOUS
<1>2. s \in [1 .. k -> Nat]
      BY <1>1
<1> HIDE DEF s
<1>3. s \in Seq(Nat) /\ Len(s) = k
      BY <1>2, MadeSeq
<1>4. Counted(s, n) /\ Increasing(s)
      BY <1>1 DEF Counted, Increasing
<1>5. Elements(s) = n + 1 .. n + k
  <2>1. ASSUME NEW m \in n + 1 .. n + k PROVE m \in Elements(s)
    <3>1. m - n \in 1 .. k /\ n + (m - n) = m
          OBVIOUS
    <3> QED BY <1>1, <3>1 DEF Elements
  <2>2. Elements(s) \subseteq n + 1 .. n + k
        BY <1>1 DEF Elements
  <2> QED BY <2>1, <2>2
<1> QED BY <1>3, <1>4, <1>5 DEF s

\* Counting goes on behind what is counted.
LEMMA CountedJoin ==
  ASSUME NEW s \in Seq(Nat), NEW t \in Seq(Nat), NEW n \in Nat,
         Counted(s, n), Counted(t, n + Len(s))
  PROVE Counted(s \o t, n)
<1>1. /\ s \o t \in Seq(Nat) /\ Len(s \o t) = Len(s) + Len(t)
      /\ \A i \in 1 .. Len(s) + Len(t) :
           (s \o t)[i] = IF i <= Len(s) THEN s[i] ELSE t[i - Len(s)]
      BY ConcatProperties
<1>2. Len(s) \in Nat /\ Len(t) \in Nat
      OBVIOUS
<1>3. ASSUME NEW i \in 1 .. Len(s) + Len(t) PROVE (s \o t)[i] = n + i
  <2>1. CASE i <= Len(s)
    <3>1. i \in DOMAIN s
          BY <1>2, <2>1
    <3> QED BY <1>1, <2>1, <3>1 DEF Counted
  <2>2. CASE ~(i <= Len(s))
    <3>1. i - Len(s) \in 1 .. Len(t) /\ DOMAIN t = 1 .. Len(t)
          BY <1>2, <2>2
    <3>2. t[i - Len(s)] = n + Len(s) + (i - Len(s))
          BY <3>1 DEF Counted
    <3> QED BY <1>1, <1>2, <2>2, <3>2
  <2> QED BY <2>1, <2>2
<1>4. DOMAIN (s \o t) = 1 .. Len(s) + Len(t)
      BY <1>1
<1> QED BY <1>3, <1>4 DEF Counted

\* Both pieces of what is counted are.
LEMMA CountedCut ==
  ASSUME NEW s \in Seq(Nat), NEW k \in Nat, NEW n \in Nat, Counted(s, n)
  PROVE /\ Counted(First(s, k), n)
        /\ Counted(After(s, k), n + Len(First(s, k)))
        /\ Len(First(s, k)) + Len(After(s, k)) = Len(s)
<1> DEFINE l == Len(s)
           f == Len(First(s, k))
           a == Len(After(s, k))
<1>1. l \in Nat /\ DOMAIN s = 1 .. l
      OBVIOUS
<1>2. f = Least(k, l)
  <2>1. First(s, k) \in Seq(Nat) /\ Len(First(s, k)) = Least(k, Len(s))
        BY FirstIs
  <2> QED BY <2>1
<1>7. \A i \in DOMAIN First(s, k) : i \in DOMAIN s /\ First(s, k)[i] = s[i]
      BY FirstIs
<1>3. /\ a = IF k < l THEN l - k ELSE 0
      /\ \A i \in DOMAIN After(s, k) : k + i \in DOMAIN s /\ After(s, k)[i] = s[k + i]
      /\ After(s, k) \in Seq(Nat)
      BY AfterIs
<1>4. Counted(First(s, k), n)
      BY <1>7 DEF Counted
<1> HIDE DEF l, f, a
<1>5. ASSUME NEW i \in DOMAIN After(s, k) PROVE After(s, k)[i] = n + f + i
  <2>1. i \in Nat /\ k + i \in DOMAIN s /\ After(s, k)[i] = s[k + i]
        BY <1>3
  <2>2. k <= l
        BY <1>1, <2>1
  <2>3. Least(k, l) = k
        BY <1>1, <2>2 DEF Least
  <2>4. s[k + i] = n + (k + i)
        BY <2>1 DEF Counted
  <2> QED BY <1>2, <2>1, <2>3, <2>4
<1>6. f + a = l
      BY <1>1, <1>2, <1>3 DEF Least
<1> QED BY <1>4, <1>5, <1>6 DEF Counted, l, f, a
=============================================================================
