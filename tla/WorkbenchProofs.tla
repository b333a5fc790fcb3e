--------------------------- MODULE WorkbenchProofs ---------------------------
(***************************************************************************)
(* Proofs about the window of the memory view and a client's reads         *)
(* (Memory, as Workbench runs it), for every size of memory, of pages, of  *)
(* rows and of steps.                                                      *)
(*                                                                         *)
(* The window's inductive invariant says what the reads under way will do  *)
(* to it. The first of them were made obsolete by a move, the others       *)
(* extend the window; behind each read it is known where the window begins *)
(* by then, and how much is still to come at its end. The text follows     *)
(* because what is put before it are whole rows, and what is put behind it *)
(* fills the last row first: Rows(a \o b) is told by Rows(a) and Rows(b).  *)
(*                                                                         *)
(* A client's read goes step by step: Blocks and Unreadable are functions  *)
(* of the address, given by their values at later ones. That there are     *)
(* such functions, and what they are, follows from the last address where  *)
(* it would be wrong.                                                      *)
(***************************************************************************)
EXTENDS Workbench, FiniteSetTheorems, TLAPS

-----------------------------------------------------------------------------
(* Division, for rows and pages of any size. *)
LEMMA DivIs ==
  ASSUME NEW n \in Nat, NEW r \in Nat \ {0}
  PROVE  /\ n \div r \in Nat /\ n % r \in 0 .. r - 1
         /\ n = (r * (n \div r)) + (n % r)
OBVIOUS

LEMMA DivUnique ==
  ASSUME NEW n \in Nat, NEW r \in Nat \ {0}, NEW q \in Nat, r * q <= n, n < r * q + r
  PROVE  n \div r = q /\ n % r = n - r * q
<1> DEFINE p == n \div r
<1>1. p \in Nat /\ r * p <= n /\ n < r * p + r /\ n % r = n - r * p
  BY DivIs
<1> HIDE DEF p
<1>2. p = q
  <2>1. CASE p < q
    <3>1. r * (p + 1) <= r * q
      BY <1>1, <2>1
    <3>2. r * (p + 1) = r * p + r
      BY <1>1
    <3> QED BY <1>1, <3>1, <3>2
  <2>2. CASE q < p
    <3>1. r * (q + 1) <= r * p
      BY <1>1, <2>2
    <3>2. r * (q + 1) = r * q + r
      BY <1>1
    <3> QED BY <1>1, <3>1, <3>2
  <2> QED BY <1>1, <2>1, <2>2
<1> QED BY <1>1, <1>2 DEF p

LEMMA DivMonotone ==
  ASSUME NEW m \in Nat, NEW n \in Nat, m <= n, NEW r \in Nat \ {0}
  PROVE  m \div r <= n \div r
<1> DEFINE p == m \div r
           q == n \div r
<1>1. p \in Nat /\ q \in Nat /\ r * p <= m /\ n < r * q + r
  BY DivIs
<1> HIDE DEF p, q
<1>2. CASE q < p
  <2>1. r * (q + 1) <= r * p
    BY <1>1, <1>2
  <2>2. r * (q + 1) = r * q + r
    BY <1>1
  <2> QED BY <1>1, <2>1, <2>2
<1> QED BY <1>1, <1>2 DEF p, q

LEMMA TimesMonotone ==
  ASSUME NEW r \in Nat, NEW i \in Int, NEW k \in Int, i <= k
  PROVE  r * i <= r * k
<1> DEFINE d == k - i
<1>1. d \in Nat /\ k = i + d
  OBVIOUS
<1> HIDE DEF d
<1>2. r * d >= 0
  BY <1>1
<1>3. r * (i + d) = r * i + r * d
  BY <1>1
<1> QED BY <1>1, <1>2, <1>3

-----------------------------------------------------------------------------
(* The rows of a list of bytes: how many there are, and what is in each.     *)
LEMMA Sizes == Row \in Nat \ {0} /\ Top \in Nat \ {0} /\ PageSize \in Nat \ {0}
BY BoundsAssumption

(* Two lists of one length that agree at every place are equal. *)
LEMMA Extensional ==
  ASSUME NEW S, NEW a \in Seq(S), NEW b \in Seq(S), Len(a) = Len(b),
         \A i \in 1 .. Len(a) : a[i] = b[i]
  PROVE  a = b
OBVIOUS

RowCount(n) == (n + Row - 1) \div Row

(* The last row may be short. *)
LEMMA RowCounts ==
  ASSUME NEW n \in Nat
  PROVE  /\ RowCount(n) \in Nat
         /\ n <= Row * RowCount(n) /\ Row * RowCount(n) < n + Row
         /\ \A m \in Nat : n <= Row * m /\ Row * m < n + Row => RowCount(n) = m
<1>1. Row \in Nat \ {0} /\ n + Row - 1 \in Nat
  BY Sizes
<1> DEFINE c == n + Row - 1
<1>2. c \div Row \in Nat /\ c = (Row * (c \div Row)) + (c % Row) /\ c % Row \in 0 .. Row - 1
  BY <1>1, DivIs
<1>3. ASSUME NEW m \in Nat, n <= Row * m, Row * m < n + Row PROVE c \div Row = m
  <2>1. Row * m <= c /\ c < Row * m + Row
    BY <1>1, <1>3
  <2> QED BY <1>1, <2>1, DivUnique
<1>4. RowCount(n) = c \div Row
  BY DEF RowCount
<1> HIDE DEF c
<1>5. n <= Row * (c \div Row) /\ Row * (c \div Row) < n + Row
  <2>1. c = n + Row - 1
    BY DEF c
  <2> QED BY <1>1, <1>2, <2>1
<1> QED BY <1>2, <1>3, <1>4, <1>5

(* The i-th row: from the byte behind the rows before it, as many as fit. *)
LEMMA RowIs ==
  ASSUME NEW b \in Seq(Nat), NEW i \in 1 .. RowCount(Len(b))
  PROVE  /\ Rows(b)[i] = SubSeq(b, Row * (i - 1) + 1, Lesser(Row * i, Len(b)))
         /\ Row * (i - 1) \in Nat /\ Row * i = Row * (i - 1) + Row
         /\ Row * (i - 1) < Len(b)
<1>1. Row \in Nat \ {0} /\ Len(b) \in Nat /\ RowCount(Len(b)) \in Nat /\ i \in Nat
      /\ Row * RowCount(Len(b)) < Len(b) + Row
  BY Sizes, RowCounts
<1>2. i * Row = Row * i /\ (i - 1) * Row = Row * (i - 1)
  BY <1>1
<1>3. Rows(b)[i] = SubSeq(b, Row * (i - 1) + 1, Lesser(Row * i, Len(b)))
  BY <1>2 DEF Rows, RowCount
<1>4. Row * (i - 1) \in Nat /\ Row * i = Row * (i - 1) + Row
  BY <1>1
<1>5. Row * i <= Row * RowCount(Len(b))
  <2>1. Row \in Nat /\ i \in Int /\ RowCount(Len(b)) \in Int /\ i <= RowCount(Len(b))
    BY <1>1
  <2> QED BY <2>1, TimesMonotone, Zenon
<1> QED BY <1>1, <1>3, <1>4, <1>5

LEMMA RowsAre ==
  ASSUME NEW b \in Seq(Nat)
  PROVE  /\ Rows(b) \in Seq(Seq(Nat)) /\ Len(Rows(b)) = RowCount(Len(b))
         /\ Rows(b) = <<>> <=> b = <<>>
<1>1. Row \in Nat \ {0} /\ Len(b) \in Nat /\ RowCount(Len(b)) \in Nat
      /\ Len(b) <= Row * RowCount(Len(b)) /\ Row * RowCount(Len(b)) < Len(b) + Row
  BY Sizes, RowCounts
<1>2. ASSUME NEW i \in 1 .. RowCount(Len(b)) PROVE Rows(b)[i] \in Seq(Nat)
  <2>1. /\ Rows(b)[i] = SubSeq(b, Row * (i - 1) + 1, Lesser(Row * i, Len(b)))
        /\ Row * (i - 1) \in Nat /\ Row * i \in Nat
    BY <1>1, RowIs
  <2>2. Lesser(Row * i, Len(b)) \in Nat /\ Lesser(Row * i, Len(b)) <= Len(b)
    BY <1>1, <2>1 DEF Lesser
  <2> QED BY <2>1, <2>2
<1>3. Rows(b) \in [1 .. RowCount(Len(b)) -> Seq(Nat)]
  BY <1>2 DEF Rows, RowCount
<1>4. Rows(b) \in Seq(Seq(Nat)) /\ Len(Rows(b)) = RowCount(Len(b))
  BY <1>1, <1>3
<1>5. RowCount(Len(b)) = 0 <=> Len(b) = 0
  <2>1. ASSUME Len(b) = 0 PROVE RowCount(Len(b)) = 0
    <3>1. Len(b) <= Row * 0 /\ Row * 0 < Len(b) + Row
      BY <1>1, <2>1
    <3> QED BY <1>1, <3>1, RowCounts
  <2>2. ASSUME RowCount(Len(b)) = 0 PROVE Len(b) = 0
    BY <1>1, <2>2
  <2> QED BY <2>1, <2>2
<1>6. (Rows(b) = <<>> <=> Len(Rows(b)) = 0) /\ (b = <<>> <=> Len(b) = 0)
  BY <1>4
<1> QED BY <1>4, <1>5, <1>6

(* Two lists read as one. *)
LEMMA ListsJoined ==
  ASSUME NEW S, NEW a \in Seq(S), NEW b \in Seq(S)
  PROVE  /\ a \o b \in Seq(S) /\ Len(a \o b) = Len(a) + Len(b)
         /\ \A i \in 1 .. Len(a) : (a \o b)[i] = a[i]
         /\ \A i \in 1 .. Len(b) : (a \o b)[Len(a) + i] = b[i]
OBVIOUS

LEMMA ChainIs ==
  ASSUME NEW S, NEW a \in Seq(S), NEW b \in Seq(S), NEW c \in Seq(S), Len(c) = Len(a) + Len(b),
         \A i \in 1 .. Len(a) : c[i] = a[i], \A i \in 1 .. Len(b) : c[Len(a) + i] = b[i]
  PROVE  c = a \o b
<1> DEFINE d == a \o b
<1>1. /\ d \in Seq(S) /\ Len(d) = Len(c) /\ Len(a) \in Nat /\ Len(b) \in Nat
      /\ \A i \in 1 .. Len(a) : d[i] = a[i]
      /\ \A i \in 1 .. Len(b) : d[Len(a) + i] = b[i]
  OBVIOUS
<1> HIDE DEF d
<1>2. ASSUME NEW i \in 1 .. Len(c) PROVE c[i] = d[i]
  <2>1. CASE i <= Len(a)
    BY <1>1, <2>1
  <2>2. CASE i > Len(a)
    <3>1. i - Len(a) \in 1 .. Len(b) /\ Len(a) + (i - Len(a)) = i
      BY <1>1, <2>2
    <3>2. c[Len(a) + (i - Len(a))] = b[i - Len(a)] /\ d[Len(a) + (i - Len(a))] = b[i - Len(a)]
      BY <1>1, <3>1
    <3> QED BY <3>1, <3>2
  <2> QED BY <1>1, <2>1, <2>2
<1>3. c = d
  BY <1>1, <1>2, Extensional
<1> QED BY <1>3 DEF d

(* A part of a list, and one of the second of two lists. *)
LEMMA PartIs ==
  ASSUME NEW c \in Seq(Nat), NEW f \in Nat, NEW n \in Nat, f <= n, n <= Len(c)
  PROVE  /\ SubSeq(c, f + 1, n) \in Seq(Nat) /\ Len(SubSeq(c, f + 1, n)) = n - f
         /\ \A i \in 1 .. n - f : SubSeq(c, f + 1, n)[i] = c[f + i]
<1> DEFINE g == f + 1
<1>1. g \in Nat \ {0} /\ g <= n + 1 /\ (n + 1) - g = n - f /\ Len(c) \in Nat
      /\ \A i \in 1 .. n - f : g + i - 1 = f + i
  OBVIOUS
<1> HIDE DEF g
<1>2. SubSeq(c, g, n) \in Seq(Nat)
  BY <1>1
<1>3. Len(SubSeq(c, g, n)) = n - f
  BY <1>1
<1>4. \A i \in 1 .. n - f : SubSeq(c, g, n)[i] = c[g + i - 1]
  BY <1>1
<1>5. \A i \in 1 .. n - f : SubSeq(c, g, n)[i] = c[f + i]
  BY <1>1, <1>4
<1> QED BY <1>2, <1>3, <1>5 DEF g

LEMMA PartWhole ==
  ASSUME NEW c \in Seq(Nat)
  PROVE  SubSeq(c, 1, Len(c)) = c
<1> DEFINE x == SubSeq(c, 1, Len(c))
<1>1. x \in Seq(Nat) /\ Len(x) = Len(c) /\ \A i \in 1 .. Len(c) : x[i] = c[i]
  OBVIOUS
<1> HIDE DEF x
<1>2. x = c
  BY <1>1, Extensional
<1> QED BY <1>2 DEF x

(* Three lists read as one. *)
LEMMA ChainedThree ==
  ASSUME NEW a \in Seq(Nat), NEW b \in Seq(Nat), NEW c \in Seq(Nat)
  PROVE  (a \o b) \o c = a \o (b \o c)
<1> DEFINE x == (a \o b) \o c
           y == b \o c
<1>1. /\ x \in Seq(Nat) /\ y \in Seq(Nat) /\ Len(y) = Len(b) + Len(c)
      /\ Len(x) = Len(a) + (Len(b) + Len(c))
      /\ \A i \in 1 .. Len(a) : x[i] = a[i]
  OBVIOUS
<1>2. \A i \in 1 .. Len(y) : x[Len(a) + i] = y[i]
  OBVIOUS
<1>3. Len(x) = Len(a) + Len(y)
  BY <1>1
<1> HIDE DEF x, y
<1>4. x = a \o y
  BY <1>1, <1>2, <1>3, ChainIs
<1> QED BY <1>4 DEF x, y

(* The last of a list, and what is before it. *)
LEMMA FrontLast ==
  ASSUME NEW S, NEW x \in Seq(S), NEW t \in S
  PROVE  Front(x \o <<t>>) = x /\ Last(x \o <<t>>) = t
<1> DEFINE y == x \o <<t>>
<1>1. /\ y \in Seq(S) /\ Len(y) = Len(x) + 1 /\ Len(x) \in Nat /\ y[Len(x) + 1] = t
      /\ \A i \in 1 .. Len(x) : y[i] = x[i]
  OBVIOUS
<1> HIDE DEF y
<1> DEFINE z == Front(y)
<1>2. z \in Seq(S) /\ Len(z) = Len(x) /\ \A i \in 1 .. Len(x) : z[i] = x[i]
  BY <1>1 DEF Front
<1>3. Last(y) = t
  BY <1>1 DEF Last
<1> HIDE DEF z
<1>4. z = x
  BY <1>2, Extensional
<1> QED BY <1>3, <1>4 DEF y, z

LEMMA PartJoined ==
  ASSUME NEW a \in Seq(Nat), NEW b \in Seq(Nat), NEW f \in Nat, NEW n \in Nat, f <= n, n <= Len(b)
  PROVE  SubSeq(a \o b, Len(a) + f + 1, Len(a) + n) = SubSeq(b, f + 1, n)
<1> DEFINE c == a \o b
           p == Len(a) + f
           e == Len(a) + n
           x == SubSeq(c, p + 1, e)
           y == SubSeq(b, f + 1, n)
<1>1. /\ c \in Seq(Nat) /\ Len(c) = Len(a) + Len(b) /\ Len(a) \in Nat /\ Len(b) \in Nat
      /\ \A i \in 1 .. Len(b) : c[Len(a) + i] = b[i]
  OBVIOUS
<1>2. p \in Nat /\ e \in Nat /\ p <= e /\ e <= Len(c) /\ e - p = n - f
  BY <1>1
<1>3. \A i \in 1 .. n - f : f + i \in 1 .. Len(b) /\ p + i = Len(a) + (f + i)
  BY <1>1
<1> HIDE DEF c, p, e
<1>4. x \in Seq(Nat) /\ Len(x) = n - f /\ \A i \in 1 .. n - f : x[i] = c[p + i]
  BY <1>1, <1>2, PartIs
<1>5. y \in Seq(Nat) /\ Len(y) = n - f /\ \A i \in 1 .. n - f : y[i] = b[f + i]
  BY PartIs
<1> HIDE DEF x, y
<1>6. ASSUME NEW i \in 1 .. Len(x) PROVE x[i] = y[i]
  <2>1. i \in 1 .. n - f /\ f + i \in 1 .. Len(b) /\ p + i = Len(a) + (f + i)
    BY <1>3, <1>4
  <2>2. x[i] = c[p + i] /\ y[i] = b[f + i] /\ c[p + i] = b[f + i]
    BY <1>1, <1>4, <1>5, <2>1
  <2> QED BY <2>2
<1>7. x = y
  BY <1>4, <1>5, <1>6, Extensional
<1> QED BY <1>7 DEF x, y, c, p, e

(* Rows that are full, and others behind them. *)
LEMMA RowsJoined ==
  ASSUME NEW a \in Seq(Nat), NEW b \in Seq(Nat), Len(a) % Row = 0
  PROVE  Rows(a \o b) = Rows(a) \o Rows(b)
<1> DEFINE k == RowCount(Len(a))
           m == RowCount(Len(b))
           c == a \o b
<1>1. Row \in Nat \ {0} /\ Len(a) \in Nat /\ Len(b) \in Nat /\ c \in Seq(Nat)
      /\ Len(c) = Len(a) + Len(b)
  BY Sizes
<1>2. k \in Nat /\ Row * k = Len(a)
  <2> DEFINE q == Len(a) \div Row
  <2>1. q \in Nat /\ Len(a) = Row * q
    BY <1>1, DivIs
  <2> HIDE DEF q
  <2>2. Len(a) <= Row * q /\ Row * q < Len(a) + Row
    BY <1>1, <2>1
  <2>3. RowCount(Len(a)) = q
    BY <1>1, <2>1, <2>2, RowCounts
  <2> QED BY <2>1, <2>3
<1>3. m \in Nat /\ Len(b) <= Row * m /\ Row * m < Len(b) + Row
  BY <1>1, RowCounts
<1>4. RowCount(Len(c)) = k + m
  <2> HIDE DEF k, m, c
  <2>1. Row * (k + m) = Row * k + Row * m /\ k + m \in Nat
    BY <1>1, <1>2, <1>3
  <2>2. Len(c) <= Row * (k + m) /\ Row * (k + m) < Len(c) + Row /\ Len(c) \in Nat
    BY <1>1, <1>2, <1>3, <2>1
  <2> QED BY <2>1, <2>2, RowCounts
<1>5. /\ Rows(c) \in Seq(Seq(Nat)) /\ Len(Rows(c)) = k + m
      /\ Rows(a) \in Seq(Seq(Nat)) /\ Len(Rows(a)) = k
      /\ Rows(b) \in Seq(Seq(Nat)) /\ Len(Rows(b)) = m
  BY <1>1, <1>4, RowsAre
<1>6. ASSUME NEW i \in 1 .. k PROVE Rows(c)[i] = Rows(a)[i]
  <2>1. i \in 1 .. RowCount(Len(c)) /\ i \in 1 .. RowCount(Len(a))
    BY <1>2, <1>3, <1>4
  <2>2. /\ Rows(c)[i] = SubSeq(c, Row * (i - 1) + 1, Lesser(Row * i, Len(c)))
        /\ Rows(a)[i] = SubSeq(a, Row * (i - 1) + 1, Lesser(Row * i, Len(a)))
        /\ Row * (i - 1) \in Nat /\ Row * i = Row * (i - 1) + Row
    BY <1>1, <2>1, RowIs
  <2>3. Row * i <= Row * k
    <3> HIDE DEF k
    <3> QED BY <1>1, <1>2, TimesMonotone
  <2> DEFINE f == Row * (i - 1)
             g == Row * i
  <2>4. f \in Nat /\ g = f + Row /\ g <= Len(a) /\ g <= Len(c)
    BY <1>1, <1>2, <2>2, <2>3
  <2> HIDE DEF f, g, c
  <2>5. Lesser(g, Len(c)) = g /\ Lesser(g, Len(a)) = g
    BY <2>4 DEF Lesser
  <2>6. SubSeq(a \o b, f + 1, g) = SubSeq(a, f + 1, g)
    BY <1>1, <2>4
  <2> QED BY <2>2, <2>5, <2>6 DEF f, g, c
<1>7. ASSUME NEW j \in 1 .. m PROVE Rows(c)[k + j] = Rows(b)[j]
  <2>1. k + j \in 1 .. RowCount(Len(c)) /\ j \in 1 .. RowCount(Len(b))
    BY <1>2, <1>3, <1>4
  <2>2. /\ Rows(c)[k + j] = SubSeq(c, Row * ((k + j) - 1) + 1, Lesser(Row * (k + j), Len(c)))
        /\ Rows(b)[j] = SubSeq(b, Row * (j - 1) + 1, Lesser(Row * j, Len(b)))
        /\ Row * (j - 1) \in Nat /\ Row * j = Row * (j - 1) + Row /\ Row * (j - 1) < Len(b)
    BY <1>1, <2>1, RowIs
  <2>3. Row * ((k + j) - 1) = Row * k + Row * (j - 1) /\ Row * (k + j) = Row * k + Row * j
    BY <1>1, <1>2
  <2> DEFINE f == Row * (j - 1)
             g == Row * j
             n == Lesser(g, Len(b))
  <2>4. f \in Nat /\ g = f + Row /\ f < Len(b)
        /\ Row * ((k + j) - 1) = Len(a) + f /\ Row * (k + j) = Len(a) + g
    BY <1>2, <2>2, <2>3
  <2> HIDE DEF f, g, c
  <2>5. n \in Nat /\ n <= Len(b) /\ n > f /\ Lesser(Len(a) + g, Len(c)) = Len(a) + n
    BY <1>1, <2>4 DEF Lesser
  <2> HIDE DEF n
  <2>6. SubSeq(a \o b, Len(a) + f + 1, Len(a) + n) = SubSeq(b, f + 1, n)
    <3> HIDE DEF c
    <3>1. f <= n /\ n <= Len(b) /\ f \in Nat /\ n \in Nat
      BY <1>1, <2>4, <2>5
    <3> QED BY <3>1, PartJoined
  <2>7. Rows(c)[k + j] = SubSeq(c, Len(a) + f + 1, Len(a) + n)
    BY <2>2, <2>4, <2>5
  <2> QED BY <2>2, <2>6, <2>7 DEF f, g, c, n
<1> DEFINE ra == Rows(a)
           rb == Rows(b)
           rc == Rows(c)
           S == Seq(Nat)
<1>8. /\ rc \in Seq(S) /\ ra \in Seq(S) /\ rb \in Seq(S) /\ Len(rc) = Len(ra) + Len(rb)
      /\ \A i \in 1 .. Len(ra) : rc[i] = ra[i]
      /\ \A i \in 1 .. Len(rb) : rc[Len(ra) + i] = rb[i]
  <2> HIDE DEF k, m, c
  <2> QED BY <1>5, <1>6, <1>7
<1> HIDE DEF ra, rb, rc, S
<1>9. rc = ra \o rb
  BY <1>8, ChainIs
<1> QED BY <1>9 DEF ra, rb, rc

(* A single row. *)
LEMMA RowAlone ==
  ASSUME NEW c \in Seq(Nat), c # <<>>, Len(c) <= Row
  PROVE  Rows(c) = <<c>>
<1>1. Row \in Nat \ {0} /\ Len(c) \in Nat /\ Len(c) > 0
  BY Sizes
<1>2. RowCount(Len(c)) = 1
  <2>1. Len(c) <= Row * 1 /\ Row * 1 < Len(c) + Row
    BY <1>1
  <2> QED BY <1>1, <2>1, RowCounts
<1>3. Rows(c) \in Seq(Seq(Nat)) /\ Len(Rows(c)) = 1
  BY <1>2, RowsAre
<1>4. Rows(c)[1] = SubSeq(c, Row * (1 - 1) + 1, Lesser(Row * 1, Len(c)))
  <2>1. 1 \in 1 .. RowCount(Len(c))
    BY <1>2
  <2> QED BY <2>1, RowIs
<1>5. Row * (1 - 1) + 1 = 1 /\ Row * 1 = Row /\ Lesser(Row, Len(c)) = Len(c)
  BY <1>1 DEF Lesser
<1>6. SubSeq(c, 1, Len(c)) = c
  BY PartWhole
<1>7. Rows(c)[1] = c
  BY <1>4, <1>5, <1>6
<1> DEFINE x == Rows(c)
           S == Seq(Nat)
<1>8. x \in Seq(S) /\ Len(x) = 1 /\ x[1] = c /\ c \in S
  BY <1>3, <1>7
<1> HIDE DEF x, S
<1>9. x = <<c>>
  BY <1>8
<1> QED BY <1>9 DEF x

(* A last row that is not full is filled up first. *)
LEMMA RowsContinued ==
  ASSUME NEW a \in Seq(Nat), NEW b \in Seq(Nat), Len(a) % Row # 0
  PROVE  Rows(a \o b) = Front(Rows(a)) \o Rows(Last(Rows(a)) \o b)
<1> DEFINE q == Len(a) \div Row
           n == Row * q
           h == SubSeq(a, 1, n)
           t == SubSeq(a, n + 1, Len(a))
<1>1. Row \in Nat \ {0} /\ Len(a) \in Nat
  BY Sizes
<1>2. q \in Nat /\ Len(a) = n + (Len(a) % Row) /\ Len(a) % Row \in 0 .. Row - 1
  BY <1>1, DivIs
<1>3. n \in Nat /\ n < Len(a) /\ Len(a) < n + Row
  BY <1>1, <1>2
<1>4. n % Row = 0
  <2> HIDE DEF q
  <2>1. Row * q <= n /\ n < Row * q + Row
    BY <1>1, <1>3
  <2>2. n % Row = n - Row * q
    BY <1>1, <1>2, <1>3, <2>1, DivUnique
  <2> QED BY <1>3, <2>2
<1> HIDE DEF n
<1>5. /\ h \in Seq(Nat) /\ Len(h) = n /\ \A i \in 1 .. n : h[i] = a[i]
      /\ t \in Seq(Nat) /\ Len(t) = Len(a) - n /\ \A i \in 1 .. Len(a) - n : t[i] = a[n + i]
  <2>1. /\ SubSeq(a, 0 + 1, n) \in Seq(Nat) /\ Len(SubSeq(a, 0 + 1, n)) = n - 0
        /\ \A i \in 1 .. n - 0 : SubSeq(a, 0 + 1, n)[i] = a[0 + i]
    BY <1>1, <1>3, PartIs
  <2>2. 0 + 1 = 1 /\ n - 0 = n /\ \A i \in 1 .. n : 0 + i = i
    BY <1>3
  <2>3. h \in Seq(Nat) /\ Len(h) = n /\ \A i \in 1 .. n : h[i] = a[i]
    BY <2>1, <2>2
  <2>4. t \in Seq(Nat) /\ Len(t) = Len(a) - n /\ \A i \in 1 .. Len(a) - n : t[i] = a[n + i]
    BY <1>1, <1>3, PartIs
  <2> QED BY <2>3, <2>4
<1> HIDE DEF h, t, q
<1>6. t # <<>> /\ Len(t) <= Row
  BY <1>1, <1>3, <1>5
<1>7. a = h \o t
  <2>1. Len(a) = Len(h) + Len(t)
    BY <1>1, <1>3, <1>5
  <2>2. (\A i \in 1 .. Len(h) : a[i] = h[i]) /\ (\A i \in 1 .. Len(t) : a[Len(h) + i] = t[i])
    BY <1>5
  <2> QED BY <1>5, <2>1, <2>2, ChainIs
<1>8. a \o b = h \o (t \o b)
  <2>1. (h \o t) \o b = h \o (t \o b)
    <3>1. h \in Seq(Nat) /\ t \in Seq(Nat)
      BY <1>5
    <3> QED BY <3>1, ChainedThree
  <2> QED BY <1>7, <2>1
<1>9. t \o b \in Seq(Nat)
  BY <1>5
<1>10. Rows(a \o b) = Rows(h) \o Rows(t \o b)
  BY <1>4, <1>5, <1>8, <1>9, RowsJoined
<1>11. Rows(a) = Rows(h) \o <<t>>
  BY <1>4, <1>5, <1>6, <1>7, RowsJoined, RowAlone
<1>12. Rows(h) \in Seq(Seq(Nat)) /\ t \in Seq(Nat)
  BY <1>5, RowsAre
<1>13. Front(Rows(a)) = Rows(h) /\ Last(Rows(a)) = t
  <2> DEFINE x == Rows(h)
             S == Seq(Nat)
  <2>1. x \in Seq(S) /\ t \in S
    BY <1>12
  <2> HIDE DEF x, S
  <2>2. Front(x \o <<t>>) = x /\ Last(x \o <<t>>) = t
    BY <2>1, FrontLast
  <2> QED BY <1>11, <2>2 DEF x
<1> QED BY <1>10, <1>13


-----------------------------------------------------------------------------
(* What a read brings: the bytes asked for, or the first of them; all of them *)
(* where memory can be read.                                                  *)
LEMMA LeastPlace ==
  ASSUME NEW P \in SUBSET Nat, P # {}
  PROVE  \E k \in P : \A m \in P : k <= m
<1> DEFINE R == {ss \in Nat \X Nat : ss[1] < ss[2]}
<1>1. IsWellFoundedOn(R, Nat)
  BY NatLessThanWellFounded DEF OpToRel
<1>2. \E k \in P : \A m \in P : ~(<<m, k>> \in R)
  <2> HIDE DEF R
  <2> QED BY <1>1, WFMin
<1>3. PICK k \in P : \A m \in P : ~(<<m, k>> \in R)
  BY <1>2
<1>4. ASSUME NEW m \in P PROVE k <= m
  <2>1. k \in Nat /\ m \in Nat
    OBVIOUS
  <2>2. ~(<<m, k>>[1] < <<m, k>>[2])
    BY <1>3, <2>1
  <2> QED BY <2>1, <2>2
<1> QED BY <1>4

LEMMA BytesAre ==
  ASSUME NEW a \in Nat, NEW n \in Nat
  PROVE  /\ Bytes(a, n) \in Seq(Nat) /\ Len(Bytes(a, n)) = n
         /\ \A i \in 1 .. n : Bytes(a, n)[i] = a + i - 1
BY DEF Bytes

LEMMA BytesJoined ==
  ASSUME NEW a \in Nat, NEW n \in Nat, NEW m \in Nat
  PROVE  Bytes(a, n) \o Bytes(a + n, m) = Bytes(a, n + m)
<1> DEFINE x == Bytes(a, n)
           y == Bytes(a + n, m)
           z == Bytes(a, n + m)
<1>1. /\ x \in Seq(Nat) /\ Len(x) = n /\ \A i \in 1 .. n : x[i] = a + i - 1
      /\ y \in Seq(Nat) /\ Len(y) = m /\ \A i \in 1 .. m : y[i] = (a + n) + i - 1
      /\ z \in Seq(Nat) /\ Len(z) = n + m /\ \A i \in 1 .. n + m : z[i] = a + i - 1
  <2>1. x \in Seq(Nat) /\ Len(x) = n /\ \A i \in 1 .. n : x[i] = a + i - 1
    BY BytesAre
  <2>2. y \in Seq(Nat) /\ Len(y) = m /\ \A i \in 1 .. m : y[i] = (a + n) + i - 1
    <3> DEFINE c == a + n
    <3>1. c \in Nat
      OBVIOUS
    <3> HIDE DEF c
    <3>2. Bytes(c, m) \in Seq(Nat) /\ Len(Bytes(c, m)) = m /\ \A i \in 1 .. m : Bytes(c, m)[i] = c + i - 1
      BY <3>1, BytesAre
    <3> QED BY <3>2 DEF c
  <2>3. z \in Seq(Nat) /\ Len(z) = n + m /\ \A i \in 1 .. n + m : z[i] = a + i - 1
    <3> DEFINE c == n + m
    <3>1. c \in Nat
      OBVIOUS
    <3> HIDE DEF c
    <3>2. Bytes(a, c) \in Seq(Nat) /\ Len(Bytes(a, c)) = c /\ \A i \in 1 .. c : Bytes(a, c)[i] = a + i - 1
      BY <3>1, BytesAre
    <3> QED BY <3>2 DEF c
  <2> QED BY <2>1, <2>2, <2>3
<1> HIDE DEF x, y, z
<1>2. Len(z) = Len(x) + Len(y)
  BY <1>1
<1>3. \A i \in 1 .. Len(x) : z[i] = x[i]
  BY <1>1
<1>4. \A i \in 1 .. Len(y) : z[Len(x) + i] = y[i]
  BY <1>1
<1>5. z = x \o y
  BY <1>1, <1>2, <1>3, <1>4, ChainIs
<1> QED BY <1>5 DEF x, y, z

(* A read ends before the first byte that cannot be read. *)
LEMMA ReadEnds ==
  ASSUME NEW a \in Nat, NEW n \in Nat
  PROVE  /\ Read(a, n) \in Seq(Nat) /\ Len(Read(a, n)) \in 0 .. n /\ Read(a, n) = Bytes(a, Len(Read(a, n)))
         /\ \A i \in 0 .. Len(Read(a, n)) - 1 : CanRead(a + i)
         /\ Len(Read(a, n)) < n => ~CanRead(a + Len(Read(a, n)))
<1> DEFINE Gaps == {i \in 0 .. n - 1 : ~CanRead(a + i)}
           m == IF \A i \in 0 .. n - 1 : CanRead(a + i) THEN n ELSE Min(Gaps)
<1>1. Read(a, n) = Bytes(a, m)
  BY DEF Read
<1>2. m \in 0 .. n /\ (\A i \in 0 .. m - 1 : CanRead(a + i)) /\ (m < n => ~CanRead(a + m))
  <2>1. CASE Gaps = {}
    <3>1. \A i \in 0 .. n - 1 : CanRead(a + i)
      BY <2>1
    <3> QED BY <3>1
  <2>2. CASE Gaps # {}
    <3>1. Gaps \in SUBSET Nat
      OBVIOUS
    <3>2. Min(Gaps) \in Gaps /\ \A x \in Gaps : Min(Gaps) <= x
      <4> HIDE DEF Gaps
      <4>1. \E k \in Gaps : \A x \in Gaps : k <= x
        BY <2>2, <3>1, LeastPlace
      <4> QED BY <4>1 DEF Min
    <3>3. ~\A i \in 0 .. n - 1 : CanRead(a + i)
      BY <2>2
    <3>4. m = Min(Gaps)
      BY <3>3
    <3>5. m \in Gaps /\ \A x \in Gaps : m <= x
      BY <3>2, <3>4
    <3>6. m \in 0 .. n - 1 /\ ~CanRead(a + m)
      BY <3>5
    <3>7. ASSUME NEW i \in 0 .. m - 1 PROVE CanRead(a + i)
      <4> HIDE DEF m
      <4>1. i \in 0 .. n - 1 /\ ~(m <= i)
        BY <3>6
      <4> QED BY <3>5, <4>1
    <3> HIDE DEF m
    <3> QED BY <3>6, <3>7
  <2> QED BY <2>1, <2>2
<1> HIDE DEF m
<1>3. Len(Read(a, n)) = m /\ Read(a, n) \in Seq(Nat)
  BY <1>1, <1>2, BytesAre
<1> QED BY <1>1, <1>2, <1>3

LEMMA ReadIs ==
  ASSUME NEW a \in Nat, NEW n \in Nat
  PROVE  /\ Read(a, n) \in Seq(Nat) /\ Len(Read(a, n)) \in 0 .. n
         /\ Read(a, n) = Bytes(a, Len(Read(a, n)))
         /\ readable = Pages /\ a + n <= Top => Len(Read(a, n)) = n
<1> DEFINE m == Len(Read(a, n))
<1>1. m \in 0 .. n /\ (m < n => ~CanRead(a + m))
  BY ReadEnds
<1> HIDE DEF m
<1>2. ASSUME readable = Pages, a + n <= Top, m < n PROVE CanRead(a + m)
  <2>1. a + m \in Nat /\ a + m < Top /\ a + m <= Top /\ Top \in Nat /\ PageSize \in Nat \ {0}
    BY <1>1, <1>2, Sizes
  <2>2. (a + m) \div PageSize \in Nat /\ Top \div PageSize \in Nat
        /\ (a + m) \div PageSize <= Top \div PageSize
    BY <2>1, DivIs, DivMonotone
  <2> QED BY <1>2, <2>1, <2>2 DEF CanRead, Pages
<1>3. readable = Pages /\ a + n <= Top => m = n
  BY <1>1, <1>2
<1> QED BY <1>3, ReadEnds DEF m

-----------------------------------------------------------------------------
(* How many of the reads from place a to place b are of a kind.              *)
Of(q, k, a, b) == {i \in a .. b : q[i].kind = k}
Number(q, k, a, b) == Cardinality(Of(q, k, a, b))

LEMMA NumberType ==
  ASSUME NEW q, NEW k, NEW a \in Nat, NEW b \in Nat
  PROVE  /\ IsFiniteSet(Of(q, k, a, b)) /\ Number(q, k, a, b) \in Nat
         /\ a > b => Number(q, k, a, b) = 0
         /\ \A i \in a .. b : q[i].kind = k => Number(q, k, a, b) > 0
<1>1. IsFiniteSet(a .. b) /\ Of(q, k, a, b) \in SUBSET (a .. b)
  BY FS_Interval DEF Of
<1>2. IsFiniteSet(Of(q, k, a, b))
  BY <1>1, FS_Subset
<1>3. Number(q, k, a, b) \in Nat
  BY <1>2, FS_CardinalityType DEF Number
<1>4. a > b => Of(q, k, a, b) = {}
  BY DEF Of
<1>5. Number(q, k, a, b) = 0 <=> Of(q, k, a, b) = {}
  BY <1>2, FS_EmptySet DEF Number
<1>6. \A i \in a .. b : q[i].kind = k => Of(q, k, a, b) # {}
  BY DEF Of
<1> QED BY <1>2, <1>3, <1>4, <1>5, <1>6

LEMMA NumberAlike ==
  ASSUME NEW q, NEW p, NEW k, NEW a \in Nat, NEW b \in Nat, \A i \in a .. b : q[i] = p[i]
  PROVE  Number(q, k, a, b) = Number(p, k, a, b)
<1>1. Of(q, k, a, b) = Of(p, k, a, b)
  BY DEF Of
<1> QED BY <1>1 DEF Number

LEMMA NumberLast ==
  ASSUME NEW q, NEW k, NEW a \in Nat, NEW b \in Nat, a <= b + 1
  PROVE  Number(q, k, a, b + 1) = Number(q, k, a, b) + (IF q[b + 1].kind = k THEN 1 ELSE 0)
<1>1. IsFiniteSet(Of(q, k, a, b)) /\ Number(q, k, a, b) \in Nat /\ b + 1 \notin Of(q, k, a, b)
  <2>1. b + 1 \notin Of(q, k, a, b)
    BY DEF Of
  <2> QED BY <2>1, NumberType
<1>2. CASE q[b + 1].kind = k
  <2>1. Of(q, k, a, b + 1) = Of(q, k, a, b) \cup {b + 1}
    BY <1>2 DEF Of
  <2> QED BY <1>1, <1>2, <2>1, FS_AddElement DEF Number
<1>3. CASE q[b + 1].kind # k
  <2>1. Of(q, k, a, b + 1) = Of(q, k, a, b)
    BY <1>3 DEF Of
  <2> QED BY <1>1, <1>3, <2>1 DEF Number
<1> QED BY <1>2, <1>3

LEMMA NumberFirst ==
  ASSUME NEW q, NEW k, NEW a \in Nat, NEW b \in Nat, NEW c \in Nat, c = a + 1, a <= b
  PROVE  Number(q, k, a, b) = Number(q, k, c, b) + (IF q[a].kind = k THEN 1 ELSE 0)
<1>1. IsFiniteSet(Of(q, k, c, b)) /\ Number(q, k, c, b) \in Nat /\ a \notin Of(q, k, c, b)
  <2>1. a \notin Of(q, k, c, b)
    BY DEF Of
  <2> QED BY <2>1, NumberType
<1>2. CASE q[a].kind = k
  <2>1. Of(q, k, a, b) = Of(q, k, c, b) \cup {a}
    BY <1>2 DEF Of
  <2> QED BY <1>1, <1>2, <2>1, FS_AddElement DEF Number
<1>3. CASE q[a].kind # k
  <2>1. Of(q, k, a, b) = Of(q, k, c, b)
    BY <1>3 DEF Of
  <2> QED BY <1>1, <1>3, <2>1 DEF Number
<1> QED BY <1>2, <1>3

LEMMA NumberParts ==
  ASSUME NEW q, NEW k, NEW n \in Nat, NEW d \in 0 .. n
  PROVE  Number(q, k, 1, n) = Number(q, k, 1, d) + Number(q, k, d + 1, n)
<1> DEFINE S == Of(q, k, 1, d)
           T == Of(q, k, d + 1, n)
<1>1. /\ IsFiniteSet(S) /\ IsFiniteSet(T)
      /\ Number(q, k, 1, d) \in Nat /\ Number(q, k, d + 1, n) \in Nat
  BY NumberType
<1>2. Of(q, k, 1, n) = S \cup T /\ S \cap T = {}
  BY DEF Of
<1>3. Cardinality(S \cup T) = Cardinality(S) + Cardinality(T) - Cardinality(S \cap T)
  <2> HIDE DEF S, T
  <2> QED BY <1>1, FS_Union
<1> HIDE DEF S, T
<1>4. Cardinality(S \cap T) = 0
  BY <1>2, FS_EmptySet
<1>5. Number(q, k, 1, d) = Cardinality(S) /\ Number(q, k, d + 1, n) = Cardinality(T)
  BY DEF Number, S, T
<1>6. Number(q, k, 1, n) = Cardinality(S \cup T)
  BY <1>2 DEF Number
<1> QED BY <1>1, <1>3, <1>4, <1>5, <1>6

(* The places of the others when the first read is answered. *)
LEMMA NumberTail ==
  ASSUME NEW U, NEW q \in Seq(U), q # <<>>, NEW k, NEW a \in Nat \ {0}, NEW b \in Nat, b < Len(q)
  PROVE  Number(Tail(q), k, a, b) = Number(q, k, a + 1, b + 1)
<1> DEFINE S == Of(Tail(q), k, a, b)
           T == Of(q, k, a + 1, b + 1)
           f == [i \in S |-> i + 1]
<1>1. Len(q) \in Nat /\ \A i \in 1 .. Len(q) - 1 : Tail(q)[i] = q[i + 1]
  OBVIOUS
<1>2. IsFiniteSet(S)
  BY NumberType
<1>3. S \subseteq Nat /\ f \in [S -> T]
  BY <1>1 DEF Of
<1>4. \A i, j \in S : f[i] = f[j] => i = j
  BY <1>3
<1>5. \A j \in T : \E i \in S : f[i] = j
  <2>1. ASSUME NEW j \in T PROVE j - 1 \in S /\ f[j - 1] = j
    BY <1>1 DEF Of
  <2> QED BY <2>1
<1> HIDE DEF S, T, f
<1>6. f \in Injection(S, T)
  BY <1>3, <1>4 DEF Injection, IsInjective
<1>7. f \in Surjection(S, T)
  BY <1>3, <1>5 DEF Surjection
<1>8. f \in Bijection(S, T)
  BY <1>6, <1>7 DEF Bijection
<1>9. Cardinality(T) = Cardinality(S)
  BY <1>2, <1>8, FS_Bijection DEF ExistsBijection
<1> QED BY <1>9 DEF Number, S, T

(* What is left of the reads, and of their numbers, when the first is taken. *)
LEMMA NumberTaken ==
  ASSUME NEW U, NEW q \in Seq(U), q # <<>>, NEW k
  PROVE  /\ Tail(q) \in Seq(U) /\ Len(Tail(q)) = Len(q) - 1 /\ Len(q) \in Nat \ {0} /\ Head(q) = q[1]
         /\ Number(q, k, 1, Len(q))
              = Number(Tail(q), k, 1, Len(q) - 1) + (IF q[1].kind = k THEN 1 ELSE 0)
         /\ \A d \in 1 .. Len(q) :
              /\ Number(q, k, 1, d) = Number(Tail(q), k, 1, d - 1) + (IF q[1].kind = k THEN 1 ELSE 0)
              /\ Number(q, k, d + 1, Len(q)) = Number(Tail(q), k, d, Len(q) - 1)
<1>1. Tail(q) \in Seq(U) /\ Len(Tail(q)) = Len(q) - 1 /\ Len(q) \in Nat \ {0} /\ Head(q) = q[1]
  OBVIOUS
<1>2. ASSUME NEW d \in 1 .. Len(q)
      PROVE  Number(q, k, 1, d) = Number(Tail(q), k, 1, d - 1) + (IF q[1].kind = k THEN 1 ELSE 0)
  <2>1. d - 1 \in Nat /\ d - 1 < Len(q) /\ 1 + 1 = 2 /\ (d - 1) + 1 = d
    BY <1>1
  <2>2. Number(Tail(q), k, 1, d - 1) = Number(q, k, 2, d)
    BY <2>1, NumberTail
  <2>3. Number(q, k, 1, d) = Number(q, k, 2, d) + (IF q[1].kind = k THEN 1 ELSE 0)
    <3> DEFINE a == 1
               c == 2
    <3>1. a \in Nat /\ d \in Nat /\ a <= d /\ c \in Nat /\ c = a + 1
      BY <1>1
    <3> HIDE DEF a, c
    <3>2. Number(q, k, a, d) = Number(q, k, c, d) + (IF q[a].kind = k THEN 1 ELSE 0)
      BY <3>1, NumberFirst
    <3> QED BY <3>2 DEF a, c
  <2> QED BY <2>1, <2>2, <2>3
<1>3. ASSUME NEW d \in 1 .. Len(q)
      PROVE  Number(q, k, d + 1, Len(q)) = Number(Tail(q), k, d, Len(q) - 1)
  <2>1. Len(q) - 1 \in Nat /\ Len(q) - 1 < Len(q) /\ (Len(q) - 1) + 1 = Len(q) /\ d \in Nat \ {0}
    BY <1>1
  <2>2. Number(Tail(q), k, d, Len(q) - 1) = Number(q, k, d + 1, (Len(q) - 1) + 1)
    BY <2>1, NumberTail
  <2> QED BY <2>1, <2>2
<1>4. Len(q) \in 1 .. Len(q)
  BY <1>1
<1> QED BY <1>1, <1>2, <1>3, <1>4

(* A read is added behind the others. *)
LEMMA NumberAdded ==
  ASSUME NEW U, NEW q \in Seq(U), NEW r \in U, NEW k
  PROVE  /\ Append(q, r) \in Seq(U) /\ Len(Append(q, r)) = Len(q) + 1 /\ Len(q) \in Nat
         /\ Append(q, r)[Len(q) + 1] = r /\ Append(q, r) # <<>>
         /\ \A i \in 1 .. Len(q) : Append(q, r)[i] = q[i]
         /\ \A d \in 0 .. Len(q) :
              /\ Number(Append(q, r), k, 1, d) = Number(q, k, 1, d)
              /\ Number(Append(q, r), k, d + 1, Len(q) + 1)
                   = Number(q, k, d + 1, Len(q)) + (IF r.kind = k THEN 1 ELSE 0)
<1> DEFINE p == Append(q, r)
<1>1. /\ p \in Seq(U) /\ Len(p) = Len(q) + 1 /\ Len(q) \in Nat /\ p[Len(q) + 1] = r
      /\ \A i \in 1 .. Len(q) : p[i] = q[i]
  OBVIOUS
<1>2. p # <<>>
  BY <1>1
<1> HIDE DEF p
<1>3. ASSUME NEW d \in 0 .. Len(q) PROVE Number(p, k, 1, d) = Number(q, k, 1, d)
  <2>1. d \in Nat /\ \A i \in 1 .. d : p[i] = q[i]
    BY <1>1
  <2> QED BY <2>1, NumberAlike
<1>4. ASSUME NEW d \in 0 .. Len(q)
      PROVE  Number(p, k, d + 1, Len(q) + 1) = Number(q, k, d + 1, Len(q)) + (IF r.kind = k THEN 1 ELSE 0)
  <2>1. d + 1 \in Nat /\ d + 1 <= Len(q) + 1 /\ \A i \in d + 1 .. Len(q) : p[i] = q[i]
    BY <1>1
  <2>2. Number(p, k, d + 1, Len(q)) = Number(q, k, d + 1, Len(q))
    BY <1>1, <2>1, NumberAlike
  <2>3. Number(p, k, d + 1, Len(q) + 1) = Number(p, k, d + 1, Len(q)) + (IF p[Len(q) + 1].kind = k THEN 1 ELSE 0)
    BY <1>1, <2>1, NumberLast
  <2> QED BY <1>1, <2>2, <2>3
<1> QED BY <1>1, <1>2, <1>3, <1>4 DEF p

-----------------------------------------------------------------------------
(* What falls with each answer to a read of a kind, behind the first d reads, *)
(* by the size of the read.                                                   *)
Requests == [kind : {"reset", "begin", "end"}, from : Nat, size : Nat \ {0}]

Falls(q, d, k, e) ==
  /\ e \in [0 .. Len(q) -> Nat]
  /\ \A i, j \in 0 .. Len(q) : i <= j => e[j] <= e[i]
  /\ \A i \in 1 .. Len(q) :
       IF i > d /\ q[i].kind = k THEN e[i] + q[i].size = e[i - 1] ELSE e[i] = e[i - 1]

(* Nothing falls; the first read is answered. *)
LEMMA FallsNot ==
  ASSUME NEW q \in Seq(Requests), NEW k, NEW c \in Nat
  PROVE  /\ Falls(q, Len(q), k, [i \in 0 .. Len(q) |-> c])
         /\ \A i \in 0 .. Len(q) : [j \in 0 .. Len(q) |-> c][i] = c
<1>1. Len(q) \in Nat
  OBVIOUS
<1> QED BY <1>1 DEF Falls

LEMMA FallsTaken ==
  ASSUME NEW q \in Seq(Requests), q # <<>>, NEW d \in 0 .. Len(q), NEW k, NEW e, Falls(q, d, k, e)
  PROVE  \E f : /\ Falls(Tail(q), IF d = 0 THEN 0 ELSE d - 1, k, f)
                /\ \A i \in 0 .. Len(q) - 1 : f[i] = e[i + 1]
                /\ e[0] \in Nat /\ e[1] \in Nat
                /\ IF d = 0 /\ q[1].kind = k THEN e[1] + q[1].size = e[0] ELSE e[1] = e[0]
<1> DEFINE f == [i \in 0 .. Len(q) - 1 |-> e[i + 1]]
           p == Tail(q)
           g == IF d = 0 THEN 0 ELSE d - 1
<1>1. /\ Len(q) \in Nat /\ Len(q) > 0 /\ Len(p) = Len(q) - 1
      /\ \A i \in 1 .. Len(q) - 1 : p[i] = q[i + 1]
  OBVIOUS
<1>2. f \in [0 .. Len(p) -> Nat] /\ \A i \in 0 .. Len(p) : f[i] = e[i + 1]
  BY <1>1 DEF Falls
<1> HIDE DEF f, p
<1>3. \A i, j \in 0 .. Len(p) : i <= j => f[j] <= f[i]
  BY <1>1, <1>2 DEF Falls
<1>4. ASSUME NEW i \in 1 .. Len(p)
      PROVE  IF i > g /\ p[i].kind = k THEN f[i] + p[i].size = f[i - 1] ELSE f[i] = f[i - 1]
  <2>1. i + 1 \in 1 .. Len(q) /\ i \in 0 .. Len(p) /\ i - 1 \in 0 .. Len(p) /\ (i - 1) + 1 = i /\ (i + 1) - 1 = i
    BY <1>1
  <2>2. p[i] = q[i + 1] /\ f[i] = e[i + 1] /\ f[i - 1] = e[i]
    BY <1>1, <1>2, <2>1
  <2>3. i > g <=> i + 1 > d
    OBVIOUS
  <2>4. IF i + 1 > d /\ q[i + 1].kind = k THEN e[i + 1] + q[i + 1].size = e[i] ELSE e[i + 1] = e[i]
    BY <2>1 DEF Falls
  <2> QED BY <2>2, <2>3, <2>4
<1>5. Falls(p, g, k, f)
  BY <1>2, <1>3, <1>4 DEF Falls
<1>6. /\ e[0] \in Nat /\ e[1] \in Nat
      /\ IF d = 0 /\ q[1].kind = k THEN e[1] + q[1].size = e[0] ELSE e[1] = e[0]
  <2>1. 1 \in 1 .. Len(q) /\ 0 \in 0 .. Len(q) /\ 1 \in 0 .. Len(q) /\ 1 - 1 = 0 /\ (1 > d <=> d = 0)
    BY <1>1
  <2> QED BY <2>1 DEF Falls
<1>7. \A i \in 0 .. Len(q) - 1 : f[i] = e[i + 1]
  BY <1>1, <1>2
<1>8. \E h : /\ Falls(p, g, k, h) /\ \A i \in 0 .. Len(q) - 1 : h[i] = e[i + 1]
  BY <1>5, <1>7
<1> QED BY <1>6, <1>8 DEF p

(* A read is added: what it will take is known at the end, or at once. *)
Grows(q, k, e, r, c, z) ==
  /\ c \in Nat /\ z \in Nat
  /\ IF r.kind = k THEN z + r.size = e[Len(q)] + c ELSE z = e[Len(q)] + c

LEMMA FallsAdded ==
  ASSUME NEW q \in Seq(Requests), NEW d \in 0 .. Len(q), NEW k, NEW e, Falls(q, d, k, e),
         NEW r \in Requests, NEW c, NEW z, Grows(q, k, e, r, c, z)
  PROVE  \E f : /\ Falls(Append(q, r), d, k, f)
                /\ f[Len(q) + 1] = z /\ \A i \in 0 .. Len(q) : f[i] = e[i] + c
<1>1. /\ c \in Nat /\ z \in Nat
      /\ IF r.kind = k THEN z + r.size = e[Len(q)] + c ELSE z = e[Len(q)] + c
  BY DEF Grows
<1> DEFINE f == [i \in 0 .. Len(q) + 1 |-> IF i = Len(q) + 1 THEN z ELSE e[i] + c]
           p == Append(q, r)
<1>2. /\ Len(q) \in Nat /\ Len(p) = Len(q) + 1 /\ p[Len(q) + 1] = r
      /\ \A i \in 1 .. Len(q) : p[i] = q[i]
  OBVIOUS
<1>3. /\ f \in [0 .. Len(p) -> Nat]
      /\ f[Len(q) + 1] = z /\ \A i \in 0 .. Len(q) : f[i] = e[i] + c
  BY <1>1, <1>2 DEF Falls
<1> HIDE DEF f, p
<1>4. r.size \in Nat /\ e[Len(q)] \in Nat /\ z <= e[Len(q)] + c /\ \A i \in 0 .. Len(q) : e[i] \in Nat
  <2>1. \A i \in 0 .. Len(q) : e[i] \in Nat
    BY DEF Falls
  <2>2. r.size \in Nat
    BY DEF Requests
  <2>3. Len(q) \in 0 .. Len(q)
    BY <1>2
  <2>4. e[Len(q)] \in Nat
    BY <2>1, <2>3
  <2> QED BY <1>1, <2>1, <2>2, <2>4
<1>5. ASSUME NEW i \in 0 .. Len(p), NEW j \in 0 .. Len(p), i <= j PROVE f[j] <= f[i]
  <2>1. CASE j <= Len(q)
    <3>1. i \in 0 .. Len(q) /\ j \in 0 .. Len(q) /\ e[j] <= e[i]
      BY <1>2, <1>5, <2>1 DEF Falls
    <3> QED BY <1>1, <1>3, <1>4, <3>1
  <2>2. CASE j = Len(q) + 1 /\ i <= Len(q)
    <3>1. i \in 0 .. Len(q) /\ Len(q) \in 0 .. Len(q) /\ e[Len(q)] <= e[i]
      BY <1>2, <2>2 DEF Falls
    <3>2. e[i] \in Nat /\ f[i] = e[i] + c /\ f[j] = z
      BY <1>3, <1>4, <2>2, <3>1
    <3> QED BY <1>1, <1>4, <3>1, <3>2
  <2>3. CASE j = Len(q) + 1 /\ i = Len(q) + 1
    BY <1>1, <1>3, <2>3
  <2> QED BY <1>2, <1>5, <2>1, <2>2, <2>3
<1>6. ASSUME NEW i \in 1 .. Len(p)
      PROVE  IF i > d /\ p[i].kind = k THEN f[i] + p[i].size = f[i - 1] ELSE f[i] = f[i - 1]
  <2>1. CASE i <= Len(q)
    <3>1. i \in 1 .. Len(q) /\ i \in 0 .. Len(q) /\ i - 1 \in 0 .. Len(q)
      BY <1>2, <2>1
    <3>2. IF i > d /\ q[i].kind = k THEN e[i] + q[i].size = e[i - 1] ELSE e[i] = e[i - 1]
      BY <3>1 DEF Falls
    <3>3. q[i] \in Requests
      BY <3>1
    <3>4. q[i].size \in Nat
      BY <3>3 DEF Requests
    <3>5. e[i] \in Nat /\ e[i - 1] \in Nat /\ f[i] = e[i] + c /\ f[i - 1] = e[i - 1] + c /\ p[i] = q[i]
      BY <1>2, <1>3, <1>4, <3>1
    <3> DEFINE x == e[i]
               y == e[i - 1]
               n == q[i].size
    <3>6. x \in Nat /\ y \in Nat /\ n \in Nat /\ c \in Nat /\ f[i] = x + c /\ f[i - 1] = y + c /\ p[i].size = n /\ p[i].kind = q[i].kind
      BY <1>1, <3>4, <3>5
    <3>7. IF i > d /\ q[i].kind = k THEN x + n = y ELSE x = y
      BY <3>2
    <3> HIDE DEF x, y, n
    <3>8. CASE i > d /\ q[i].kind = k
      <4>1. x + n = y
        BY <3>7, <3>8
      <4>2. f[i] + p[i].size = f[i - 1]
        BY <3>6, <4>1
      <4> QED BY <3>6, <3>8, <4>2
    <3>9. CASE ~(i > d /\ q[i].kind = k)
      <4>1. f[i] = f[i - 1]
        BY <3>6, <3>7, <3>9
      <4> QED BY <3>6, <3>9, <4>1
    <3> QED BY <3>8, <3>9
  <2>2. CASE i = Len(q) + 1
    BY <1>1, <1>2, <1>3, <1>4, <2>2
  <2> QED BY <1>2, <2>1, <2>2
<1>7. Falls(p, d, k, f)
  BY <1>3, <1>5, <1>6 DEF Falls
<1> QED BY <1>3, <1>7 DEF p

-----------------------------------------------------------------------------
(***************************************************************************)
(* The window between two steps. What is asked for lies in memory, and the *)
(* bytes wanted at its end have room behind it.                            *)
(***************************************************************************)
Requested ==
  /\ start \in 0 .. Top /\ data \in Seq(Nat) /\ reads \in Seq(Requests)
  /\ counts \in [reset : Nat, begin : Nat, end : Nat, skipBegin : Nat, skipEnd : Nat]
  /\ sizes \in [begin : Nat, end : Nat]
  /\ start + Len(data) + sizes.end <= Top
  /\ \A i \in 1 .. Len(reads) :
       /\ reads[i].from + reads[i].size <= Top
       /\ reads[i].kind = "end" => reads[i].size <= 2 * Row
       /\ reads[i].kind = "reset" /\ "lowEnd" \notin mishaps => reads[i].from >= 2 * Row
  /\ reads # <<>> => "unreadable" \in mishaps \/ readable = Pages

\* The first d reads are moves and what they have made obsolete; the others
\* extend the window as it is.
Divided(d) ==
  /\ counts.reset = Number(reads, "reset", 1, Len(reads))
  /\ counts.skipBegin = Number(reads, "begin", 1, d)
  /\ counts.skipEnd = Number(reads, "end", 1, d)
  /\ counts.begin = Number(reads, "begin", d + 1, Len(reads))
  /\ counts.end = Number(reads, "end", d + 1, Len(reads))
  /\ \A i \in d + 1 .. Len(reads) : reads[i].kind # "reset"
  /\ counts.reset > 0 =>
       /\ d = Len(reads) /\ sizes.begin = 0 /\ sizes.end = 0
       /\ "again" \notin mishaps => text = <<>>

\* e is where the window begins after each answer. Away from address zero it
\* begins a row or two earlier, and stays away from it.
Begins(d, e) ==
  /\ Falls(reads, d, "begin", e)
  /\ e[0] = start /\ e[Len(reads)] = start - sizes.begin
  /\ \A i \in d + 1 .. Len(reads) : reads[i].kind = "begin" => reads[i].from = e[i]
  /\ "lowEnd" \notin mishaps =>
       /\ \A i \in 0 .. Len(reads) : e[i] - e[Len(reads)] \in {0, Row, 2 * Row}
       /\ e[Len(reads)] >= 2 * Row \/ (reads = <<>> /\ start = Top /\ Top < 2 * Row)

\* s is what is under way for its end after each answer. Unless the window is
\* extended ahead of the answers there is one read at most, from its end on.
Ends(d, s) ==
  /\ Falls(reads, d, "end", s)
  /\ s[0] = sizes.end /\ s[Len(reads)] = 0
  /\ "ahead" \notin mishaps =>
       \A i \in d + 1 .. Len(reads) : reads[i].kind = "end" =>
         /\ reads[i].from = start + Len(data) /\ reads[i].size = sizes.end
         /\ \A j \in d + 1 .. Len(reads) : reads[j].kind = "end" => i = j

BeginKnown(d) == \E e \in [0 .. Len(reads) -> Nat] : Begins(d, e)
EndKnown(d) == \E s \in [0 .. Len(reads) -> Nat] : Ends(d, s)
Going == Requested /\ \E d \in 0 .. Len(reads) : Divided(d) /\ BeginKnown(d) /\ EndKnown(d)

ShowsMemory ==
  /\ "ahead" \notin mishaps => data = Bytes(start, Len(data))
  /\ "again" \notin mishaps /\ broken # "partialRow" => text = Rows(data)
Excused ==
  /\ broken \in {"none", "short", "lowEnd", "partialRow"}
  /\ broken = "short" => "unreadable" \in mishaps
  /\ broken = "lowEnd" => "lowEnd" \in mishaps
  /\ broken = "partialRow" => mishaps \cap {"lowEnd", "again"} # {}

WindowInv == ShowsMemory /\ Excused /\ (broken = "none" => Going)

(* The window is empty as the program starts. *)
LEMMA InitWindow == Init => WindowInv
<1> SUFFICES ASSUME Init PROVE WindowInv
  OBVIOUS
<1>1. /\ start = Top /\ data = <<>> /\ text = <<>> /\ reads = <<>> /\ broken = "none"
      /\ counts = [reset |-> 0, begin |-> 0, end |-> 0, skipBegin |-> 0, skipEnd |-> 0]
      /\ sizes = [begin |-> 0, end |-> 0]
  BY DEF Init
<1>2. Top \in Nat /\ Row \in Nat /\ Len(data) = 0 /\ Len(reads) = 0 /\ data \in Seq(Nat) /\ reads \in Seq(Requests)
  BY <1>1, Sizes
<1>3. Requested
  BY <1>1, <1>2 DEF Requested
<1>4. Divided(0)
  <2>1. \A k : Number(reads, k, 1, 0) = 0
    BY NumberType
  <2> QED BY <1>1, <1>2, <2>1 DEF Divided
<1> DEFINE e == [i \in 0 .. 0 |-> Top]
           s == [i \in 0 .. 0 |-> 0]
<1>5. Begins(0, e)
  <2>1. e \in [0 .. 0 -> Nat] /\ e[0] = Top /\ Top - 0 = Top /\ Top - Top = 0
    BY <1>2
  <2> HIDE DEF e
  <2> QED BY <1>1, <1>2, <2>1 DEF Begins, Falls
<1>6. Ends(0, s)
  <2>1. s \in [0 .. 0 -> Nat] /\ s[0] = 0
    OBVIOUS
  <2> HIDE DEF s
  <2> QED BY <1>1, <1>2, <2>1 DEF Ends, Falls
<1>7. e \in [0 .. Len(reads) -> Nat] /\ s \in [0 .. Len(reads) -> Nat]
  BY <1>2
<1> HIDE DEF e, s
<1>8. Going
  BY <1>2, <1>3, <1>4, <1>5, <1>6, <1>7 DEF Going, BeginKnown, EndKnown
<1>9. ShowsMemory
  <2>1. Bytes(start, 0) = <<>>
    BY DEF Bytes
  <2>2. Rows(data) = <<>>
    BY <1>1, <1>2, RowsAre
  <2> QED BY <1>1, <1>2, <2>1, <2>2 DEF ShowsMemory
<1> QED BY <1>1, <1>8, <1>9 DEF WindowInv, Excused

(* Nothing that is under way extends the window. *)
LEMMA AllObsolete ==
  ASSUME Requested', sizes'.begin = 0, sizes'.end = 0,
         ("lowEnd" \notin mishaps => start >= 2 * Row \/ (reads = <<>> /\ start = Top /\ Top < 2 * Row))'
  PROVE  BeginKnown(Len(reads))' /\ EndKnown(Len(reads))'
<1>1. reads' \in Seq(Requests) /\ Len(reads') \in Nat /\ start' \in Nat
  <2>1. start' \in 0 .. Top /\ reads' \in Seq(Requests)
    BY DEF Requested
  <2>2. Len(reads') \in Nat
    BY <2>1
  <2>3. start' \in Nat
    BY <2>1, Sizes
  <2> QED BY <2>1, <2>2, <2>3
<1>2. PICK n \in Nat : n = Len(reads')
  BY <1>1
<1>3. PICK a \in Nat : a = start'
  BY <1>1
<1> DEFINE e == [i \in 0 .. n |-> a]
           s == [i \in 0 .. n |-> 0]
<1>4. /\ e \in [0 .. n -> Nat] /\ Falls(reads', n, "begin", e) /\ \A i \in 0 .. n : e[i] = a
      /\ s \in [0 .. n -> Nat] /\ Falls(reads', n, "end", s) /\ \A i \in 0 .. n : s[i] = 0
  <2>1. \A c \in Nat : [i \in 0 .. n |-> c] \in [0 .. n -> Nat]
    OBVIOUS
  <2> QED BY <1>1, <1>2, <1>3, <2>1, FallsNot
<1> HIDE DEF e, s
<1>5. n \in 0 .. n /\ 0 \in 0 .. n /\ ~(\E i \in n + 1 .. n : TRUE) /\ a - 0 = a /\ a - a = 0
  BY <1>1
<1>6. Begins(n, e)'
  BY <1>2, <1>3, <1>4, <1>5 DEF Begins
<1>7. Ends(n, s)'
  BY <1>2, <1>4, <1>5 DEF Ends
<1> QED BY <1>2, <1>4, <1>6, <1>7 DEF BeginKnown, EndKnown

(* What is asked for are whole rows. *)
LEMMA Multiples ==
  ASSUME NEW lines \in Lines
  PROVE  lines * Row \in Nat /\ lines * Row \in {0, Row, 2 * Row} /\ Row \in Nat \ {0}
<1>1. Row \in Nat \ {0} /\ lines \in {0, 1, 2}
  BY Sizes DEF Lines
<1>2. 0 * Row = 0 /\ 1 * Row = Row /\ 2 * Row \in Nat
  BY <1>1
<1> QED BY <1>1, <1>2

(* The window is moved: what is under way becomes obsolete. *)
LEMMA MoveStep == Going /\ MoveWindow => Going'
<1> SUFFICES ASSUME Going, MoveWindow PROVE Going'
  OBVIOUS
<1>1. /\ "again" \in mishaps \/ text = <<>>
      /\ "unreadable" \in mishaps \/ readable = Pages
      /\ \E a \in Moves, lines \in Lines : High(a) /\ Reset(a, lines)
  BY DEF MoveWindow, Window
<1>2. PICK a \in Moves, lines \in Lines : High(a) /\ Reset(a, lines)
  BY <1>1
<1>3. PICK d \in 0 .. Len(reads) : Divided(d) /\ BeginKnown(d) /\ EndKnown(d)
  BY DEF Going
<1> DEFINE size == Lesser(lines * Row, Top - a)
           r == [kind |-> "reset", from |-> a, size |-> size]
<1>4. /\ a \in Nat /\ a < Top /\ size \in Nat /\ a + size <= Top /\ Top \in Nat
      /\ "lowEnd" \notin mishaps => a >= 2 * Row
  <2>1. a \in Nat /\ a < Top /\ Top \in Nat
    BY Sizes DEF Moves, Addresses
  <2>2. lines * Row \in Nat
    BY Multiples
  <2> QED BY <1>2, <2>1, <2>2 DEF Lesser, High
<1>5. /\ counts' = [reset |-> counts.reset + (IF size = 0 THEN 0 ELSE 1), begin |-> 0, end |-> 0,
                    skipBegin |-> counts.skipBegin + counts.begin,
                    skipEnd |-> counts.skipEnd + counts.end]
      /\ sizes' = [begin |-> 0, end |-> 0]
      /\ IF size = 0 THEN UNCHANGED reads ELSE reads' = Append(reads, r)
      /\ UNCHANGED <<start, data, text, readable, mishaps>>
  BY <1>2 DEF Reset, Ask, Unchanging, memory
<1> HIDE DEF size
<1>6. Requested
  BY DEF Going
<1>7. /\ reads \in Seq(Requests) /\ Len(reads) \in Nat /\ counts.reset \in Nat
      /\ counts.begin \in Nat /\ counts.end \in Nat /\ counts.skipBegin \in Nat /\ counts.skipEnd \in Nat
      /\ start \in Nat /\ data \in Seq(Nat) /\ Len(data) \in Nat /\ sizes.end \in Nat /\ start + Len(data) <= Top
  BY <1>4, <1>6 DEF Requested
<1>8. counts' \in [reset : Nat, begin : Nat, end : Nat, skipBegin : Nat, skipEnd : Nat]
  <2> DEFINE u == counts.reset + (IF size = 0 THEN 0 ELSE 1)
             v == counts.skipBegin + counts.begin
             w == counts.skipEnd + counts.end
  <2>1. u \in Nat
    BY <1>7
  <2>2. v \in Nat
    BY <1>7
  <2>3. w \in Nat
    BY <1>7
  <2>4. counts' = [reset |-> u, begin |-> 0, end |-> 0, skipBegin |-> v, skipEnd |-> w]
    BY <1>5
  <2> HIDE DEF u, v, w
  <2> QED BY <2>1, <2>2, <2>3, <2>4
<1>9. sizes' \in [begin : Nat, end : Nat] /\ sizes'.begin = 0 /\ sizes'.end = 0
  BY <1>5
<1>10. "lowEnd" \notin mishaps' => start' >= 2 * Row
  <2>1. PICK e \in [0 .. Len(reads) -> Nat] : Begins(d, e)
    BY <1>3 DEF BeginKnown
  <2>2. /\ 0 \in 0 .. Len(reads) /\ Len(reads) \in 0 .. Len(reads) /\ e[0] = start
        /\ e[Len(reads)] <= e[0] /\ e[Len(reads)] \in Nat
    BY <1>7, <2>1 DEF Begins, Falls
  <2>3. "lowEnd" \notin mishaps => e[Len(reads)] >= 2 * Row \/ Top < 2 * Row
    BY <2>1 DEF Begins
  <2>4. 2 * Row \in Nat
    BY Sizes
  <2> QED BY <1>4, <1>5, <1>7, <2>2, <2>3, <2>4
<1>11. /\ Number(reads, "begin", 1, Len(reads)) = counts'.skipBegin
       /\ Number(reads, "end", 1, Len(reads)) = counts'.skipEnd
       /\ Number(reads, "reset", 1, Len(reads)) = counts.reset
  <2>1. /\ counts.reset = Number(reads, "reset", 1, Len(reads))
        /\ counts.skipBegin = Number(reads, "begin", 1, d)
        /\ counts.skipEnd = Number(reads, "end", 1, d)
        /\ counts.begin = Number(reads, "begin", d + 1, Len(reads))
        /\ counts.end = Number(reads, "end", d + 1, Len(reads))
    BY <1>3 DEF Divided
  <2>2. \A k : Number(reads, k, 1, Len(reads)) = Number(reads, k, 1, d) + Number(reads, k, d + 1, Len(reads))
    BY <1>7, NumberParts
  <2>3. counts'.skipBegin = counts.skipBegin + counts.begin /\ counts'.skipEnd = counts.skipEnd + counts.end
    BY <1>5
  <2> QED BY <2>1, <2>2, <2>3
<1>12. CASE size = 0
  <2>1. reads' = reads /\ counts'.reset = counts.reset /\ counts'.begin = 0 /\ counts'.end = 0
    BY <1>5, <1>7, <1>12
  <2>2. Requested'
    BY <1>5, <1>6, <1>7, <1>8, <1>9, <2>1 DEF Requested
  <2>3. Divided(Len(reads))'
    <3>1. Len(reads) + 1 \in Nat /\ Len(reads) + 1 > Len(reads)
      BY <1>7
    <3>2. \A k : Number(reads, k, Len(reads) + 1, Len(reads)) = 0
      BY <1>7, <3>1, NumberType
    <3>3. Len(reads) + 1 .. Len(reads) = {}
      BY <1>7
    <3> QED BY <1>1, <1>5, <1>9, <1>11, <2>1, <3>2, <3>3 DEF Divided
  <2>4. BeginKnown(Len(reads))' /\ EndKnown(Len(reads))'
    BY <1>9, <1>10, <2>2, AllObsolete
  <2>5. Len(reads)' \in 0 .. Len(reads)'
    BY <1>7, <2>1
  <2> QED BY <2>2, <2>3, <2>4, <2>5 DEF Going
<1>13. CASE size # 0
  <2>1. /\ r \in Requests /\ reads' = Append(reads, r) /\ counts'.reset = counts.reset + 1
        /\ counts'.begin = 0 /\ counts'.end = 0
    BY <1>4, <1>5, <1>7, <1>13 DEF Requests
  <2>2. r.kind = "reset" /\ r.from = a /\ r.size = size
    OBVIOUS
  <2> HIDE DEF r
  <2>3. /\ reads' \in Seq(Requests) /\ Len(reads') = Len(reads) + 1 /\ reads'[Len(reads) + 1] = r
        /\ \A i \in 1 .. Len(reads) : reads'[i] = reads[i]
        /\ \A k : \A j \in 0 .. Len(reads) :
              /\ Number(reads', k, 1, j) = Number(reads, k, 1, j)
              /\ Number(reads', k, j + 1, Len(reads) + 1)
                   = Number(reads, k, j + 1, Len(reads)) + (IF r.kind = k THEN 1 ELSE 0)
    BY <1>7, <2>1, NumberAdded
  <2>4. Requested'
    <3>1. ASSUME NEW i \in 1 .. Len(reads')
          PROVE  /\ reads'[i].from + reads'[i].size <= Top
                 /\ reads'[i].kind = "end" => reads'[i].size <= 2 * Row
                 /\ reads'[i].kind = "reset" /\ "lowEnd" \notin mishaps => reads'[i].from >= 2 * Row
      <4>1. CASE i = Len(reads) + 1
        BY <1>4, <2>2, <2>3, <4>1
      <4>2. CASE i # Len(reads) + 1
        <5>1. i \in 1 .. Len(reads) /\ reads'[i] = reads[i]
          BY <1>7, <2>3, <4>2
        <5> QED BY <1>6, <5>1 DEF Requested
      <4> QED BY <4>1, <4>2
    <3>2. start' \in 0 .. Top /\ data' \in Seq(Nat) /\ start' + Len(data') + sizes'.end <= Top
      BY <1>4, <1>5, <1>7, <1>9
    <3> QED BY <1>1, <1>5, <1>8, <1>9, <2>3, <3>1, <3>2 DEF Requested
  <2>5. Divided(Len(reads))'
    <3> DEFINE n == Len(reads) + 1
    <3>1. n \in Nat /\ n + 1 \in Nat /\ n + 1 > n /\ n + 1 .. n = {} /\ Len(reads') = n
      BY <1>7, <2>3
    <3>2. \A k : Number(reads', k, n + 1, n) = 0
      BY <3>1, NumberType
    <3>3. \A k : Number(reads', k, 1, n) = Number(reads, k, 1, Len(reads)) + (IF r.kind = k THEN 1 ELSE 0)
      <4> DEFINE z == 0
                 o == 1
      <4>1. z \in 0 .. Len(reads) /\ z + 1 = o
        BY <1>7
      <4> HIDE DEF z, o
      <4>2. \A k : Number(reads', k, z + 1, Len(reads) + 1)
                     = Number(reads, k, z + 1, Len(reads)) + (IF r.kind = k THEN 1 ELSE 0)
        BY <2>3, <4>1
      <4>3. \A k : Number(reads', k, o, Len(reads) + 1)
                     = Number(reads, k, o, Len(reads)) + (IF r.kind = k THEN 1 ELSE 0)
        BY <4>1, <4>2
      <4> QED BY <4>3 DEF o
    <3>4. \A k : Number(reads, k, 1, Len(reads)) \in Nat
      BY <1>7, NumberType
    <3>5. /\ Number(reads', "reset", 1, n) = counts'.reset
          /\ Number(reads', "begin", 1, n) = counts'.skipBegin
          /\ Number(reads', "end", 1, n) = counts'.skipEnd
      BY <1>11, <2>1, <2>2, <3>3, <3>4
    <3> QED BY <1>1, <1>5, <1>9, <2>1, <3>1, <3>2, <3>5 DEF Divided
  <2>6. BeginKnown(Len(reads))' /\ EndKnown(Len(reads))'
    BY <1>9, <1>10, <2>4, AllObsolete
  <2>7. Len(reads)' \in 0 .. Len(reads)'
    BY <1>7, <2>3
  <2> QED BY <2>4, <2>5, <2>6, <2>7 DEF Going
<1> QED BY <1>12, <1>13

-----------------------------------------------------------------------------
(* The window is extended: a read is added that nothing makes obsolete.      *)
LEMMA ReadAdded ==
  ASSUME Requested, NEW d \in 0 .. Len(reads), Divided(d),
         NEW r \in Requests, r.kind # "reset", r.from + r.size <= Top,
         r.kind = "end" => r.size <= 2 * Row,
         reads' = Append(reads, r), UNCHANGED <<start, data, text, memory>>,
         "unreadable" \in mishaps \/ readable = Pages,
         counts.reset = 0,
         \/ r.kind = "begin" /\ counts' = [counts EXCEPT !.begin = @ + 1]
         \/ r.kind = "end" /\ counts' = [counts EXCEPT !.end = @ + 1],
         sizes' \in [begin : Nat, end : Nat], start + Len(data) + sizes'.end <= Top
  PROVE  /\ Requested' /\ Divided(d)' /\ d \in 0 .. Len(reads')
         /\ Len(reads') = Len(reads) + 1 /\ Len(reads) \in Nat
         /\ reads'[Len(reads) + 1] = r
         /\ \A i \in 1 .. Len(reads) : reads'[i] = reads[i]
<1>1. /\ start \in 0 .. Top /\ data \in Seq(Nat) /\ reads \in Seq(Requests)
      /\ counts \in [reset : Nat, begin : Nat, end : Nat, skipBegin : Nat, skipEnd : Nat]
  BY DEF Requested
<1>2. /\ reads' \in Seq(Requests) /\ Len(reads') = Len(reads) + 1 /\ Len(reads) \in Nat
      /\ reads'[Len(reads) + 1] = r /\ reads' # <<>> /\ \A i \in 1 .. Len(reads) : reads'[i] = reads[i]
      /\ \A k : \A j \in 0 .. Len(reads) :
            /\ Number(reads', k, 1, j) = Number(reads, k, 1, j)
            /\ Number(reads', k, j + 1, Len(reads) + 1)
                 = Number(reads, k, j + 1, Len(reads)) + (IF r.kind = k THEN 1 ELSE 0)
  <2> DEFINE S == Requests
             p == Append(reads, r)
  <2>1. reads \in Seq(S) /\ r \in S
    BY <1>1
  <2> HIDE DEF S
  <2>2. /\ p \in Seq(S) /\ Len(p) = Len(reads) + 1 /\ Len(reads) \in Nat
        /\ p[Len(reads) + 1] = r /\ p # <<>> /\ \A i \in 1 .. Len(reads) : p[i] = reads[i]
    BY <2>1, NumberAdded
  <2>3. ASSUME NEW k
        PROVE  \A j \in 0 .. Len(reads) :
                 /\ Number(p, k, 1, j) = Number(reads, k, 1, j)
                 /\ Number(p, k, j + 1, Len(reads) + 1)
                      = Number(reads, k, j + 1, Len(reads)) + (IF r.kind = k THEN 1 ELSE 0)
    BY <2>1, NumberAdded
  <2>4. reads' = p
    OBVIOUS
  <2> HIDE DEF p
  <2> QED BY <2>2, <2>3, <2>4 DEF S
<1>3. r.kind \in {"begin", "end"}
  BY DEF Requests
<1>4. /\ counts' \in [reset : Nat, begin : Nat, end : Nat, skipBegin : Nat, skipEnd : Nat]
      /\ counts'.reset = 0 /\ counts'.skipBegin = counts.skipBegin /\ counts'.skipEnd = counts.skipEnd
      /\ counts'.begin = counts.begin + (IF r.kind = "begin" THEN 1 ELSE 0)
      /\ counts'.end = counts.end + (IF r.kind = "end" THEN 1 ELSE 0)
  <2>1. CASE r.kind = "begin" /\ counts' = [counts EXCEPT !.begin = @ + 1]
    <3>1. counts.begin + 1 \in Nat
      BY <1>1
    <3>2. counts' \in [reset : Nat, begin : Nat, end : Nat, skipBegin : Nat, skipEnd : Nat]
      BY <1>1, <2>1, <3>1
    <3>3. /\ counts'.reset = counts.reset /\ counts'.skipBegin = counts.skipBegin
          /\ counts'.skipEnd = counts.skipEnd /\ counts'.begin = counts.begin + 1
          /\ counts'.end = counts.end
      BY <1>1, <2>1
    <3>4. counts.end \in Nat /\ counts.end + 0 = counts.end
      BY <1>1
    <3> QED BY <2>1, <3>2, <3>3, <3>4
  <2>2. CASE r.kind = "end" /\ counts' = [counts EXCEPT !.end = @ + 1]
    <3>1. counts.end + 1 \in Nat
      BY <1>1
    <3>2. counts' \in [reset : Nat, begin : Nat, end : Nat, skipBegin : Nat, skipEnd : Nat]
      BY <1>1, <2>2, <3>1
    <3>3. /\ counts'.reset = counts.reset /\ counts'.skipBegin = counts.skipBegin
          /\ counts'.skipEnd = counts.skipEnd /\ counts'.end = counts.end + 1
          /\ counts'.begin = counts.begin
      BY <1>1, <2>2
    <3>4. counts.begin \in Nat /\ counts.begin + 0 = counts.begin
      BY <1>1
    <3> QED BY <2>2, <3>2, <3>3, <3>4
  <2> QED BY <2>1, <2>2
<1>5. Requested'
  <2>1. ASSUME NEW i \in 1 .. Len(reads')
        PROVE  /\ reads'[i].from + reads'[i].size <= Top
               /\ reads'[i].kind = "end" => reads'[i].size <= 2 * Row
               /\ reads'[i].kind = "reset" /\ "lowEnd" \notin mishaps => reads'[i].from >= 2 * Row
    <3>1. CASE i = Len(reads) + 1
      BY <1>2, <3>1
    <3>2. CASE i # Len(reads) + 1
      <4>1. i \in 1 .. Len(reads) /\ reads'[i] = reads[i]
        BY <1>2, <3>2
      <4> QED BY <4>1 DEF Requested
    <3> QED BY <3>1, <3>2
  <2>2. mishaps' = mishaps /\ readable' = readable
    BY DEF memory
  <2> QED BY <1>1, <1>2, <1>4, <2>1, <2>2 DEF Requested
<1>6. Divided(d)'
  <2>1. /\ counts.reset = Number(reads, "reset", 1, Len(reads))
        /\ counts.skipBegin = Number(reads, "begin", 1, d)
        /\ counts.skipEnd = Number(reads, "end", 1, d)
        /\ counts.begin = Number(reads, "begin", d + 1, Len(reads))
        /\ counts.end = Number(reads, "end", d + 1, Len(reads))
        /\ \A i \in d + 1 .. Len(reads) : reads[i].kind # "reset"
    BY DEF Divided
  <2>2. Number(reads', "reset", 1, Len(reads) + 1) = counts'.reset
    <3> DEFINE z == 0
               o == 1
    <3>1. z \in 0 .. Len(reads) /\ z + 1 = o
      BY <1>2
    <3> HIDE DEF z, o
    <3>2. Number(reads', "reset", z + 1, Len(reads) + 1)
            = Number(reads, "reset", z + 1, Len(reads)) + (IF r.kind = "reset" THEN 1 ELSE 0)
      BY <1>2, <3>1
    <3>3. Number(reads', "reset", o, Len(reads) + 1)
            = Number(reads, "reset", o, Len(reads)) + (IF r.kind = "reset" THEN 1 ELSE 0)
      BY <3>1, <3>2
    <3> QED BY <1>4, <2>1, <3>3 DEF o
  <2>3. /\ counts'.skipBegin = Number(reads', "begin", 1, d)
        /\ counts'.skipEnd = Number(reads', "end", 1, d)
        /\ counts'.begin = Number(reads', "begin", d + 1, Len(reads) + 1)
        /\ counts'.end = Number(reads', "end", d + 1, Len(reads) + 1)
    BY <1>2, <1>4, <2>1
  <2>4. \A i \in d + 1 .. Len(reads') : reads'[i].kind # "reset"
    <3>1. ASSUME NEW i \in d + 1 .. Len(reads') PROVE reads'[i].kind # "reset"
      <4>1. i = Len(reads) + 1 \/ (i \in 1 .. Len(reads) /\ i \in d + 1 .. Len(reads))
        BY <1>2
      <4> QED BY <1>2, <2>1, <4>1
    <3> QED BY <3>1
  <2> QED BY <1>2, <1>4, <2>2, <2>3, <2>4 DEF Divided
<1> QED BY <1>2, <1>5, <1>6

(* Rows are asked for before the window, or behind it. *)
LEMMA BeforeStep == Going /\ ExtendBefore => Going'
<1> SUFFICES ASSUME Going, ExtendBefore PROVE Going'
  OBVIOUS
<1>1. PICK lines \in Lines : High(start - lines * Row) /\ FetchBegin(lines)
  BY DEF ExtendBefore
<1>2. "unreadable" \in mishaps \/ readable = Pages
  BY DEF ExtendBefore, Window
<1>3. PICK d \in 0 .. Len(reads) : Divided(d) /\ BeginKnown(d) /\ EndKnown(d)
  BY DEF Going
<1>4. Requested
  BY DEF Going
<1>5. lines * Row \in Nat /\ lines * Row \in {0, Row, 2 * Row} /\ Row \in Nat \ {0}
  BY Multiples
<1>6. /\ start \in 0 .. Top /\ reads \in Seq(Requests) /\ Top \in Nat /\ data \in Seq(Nat) /\ Len(data) \in Nat
      /\ sizes \in [begin : Nat, end : Nat] /\ start + Len(data) + sizes.end <= Top
  BY <1>4, Sizes DEF Requested
<1> DEFINE wanted == Lesser(lines * Row, start)
           r == [kind |-> "begin", from |-> start - wanted, size |-> wanted - sizes.begin]
<1>7. /\ counts.reset = 0 /\ wanted > sizes.begin
      /\ counts' = [counts EXCEPT !.begin = @ + 1]
      /\ sizes' = [sizes EXCEPT !.begin = wanted]
      /\ reads' = Append(reads, r)
      /\ UNCHANGED <<start, data, text, memory>>
  BY <1>1 DEF FetchBegin, Ask, Unchanging
<1>8. wanted \in Nat /\ wanted <= start /\ (start >= lines * Row => wanted = lines * Row) /\ start \in Nat
  BY <1>5, <1>6 DEF Lesser
<1> HIDE DEF wanted
<1>9. /\ r \in Requests /\ r.kind = "begin" /\ r.from = start - wanted /\ r.size = wanted - sizes.begin
      /\ r.from + r.size <= Top
  BY <1>6, <1>7, <1>8 DEF Requests
<1> HIDE DEF r
<1>10. sizes' \in [begin : Nat, end : Nat] /\ sizes'.begin = wanted /\ sizes'.end = sizes.end
  BY <1>6, <1>7, <1>8
<1>11. /\ Requested' /\ Divided(d)' /\ d \in 0 .. Len(reads')
       /\ Len(reads') = Len(reads) + 1 /\ Len(reads) \in Nat /\ reads'[Len(reads) + 1] = r
       /\ \A i \in 1 .. Len(reads) : reads'[i] = reads[i]
  BY <1>2, <1>3, <1>4, <1>6, <1>7, <1>9, <1>10, ReadAdded
<1>12. BeginKnown(d)'
  <2>1. PICK e \in [0 .. Len(reads) -> Nat] : Begins(d, e)
    BY <1>3 DEF BeginKnown
  <2> DEFINE z == start - wanted
             c == 0
  <2>2. /\ Falls(reads, d, "begin", e) /\ e[0] = start /\ e[Len(reads)] = start - sizes.begin
        /\ \A i \in d + 1 .. Len(reads) : reads[i].kind = "begin" => reads[i].from = e[i]
        /\ \A i \in 0 .. Len(reads) : e[i] \in Nat
    BY <2>1 DEF Begins
  <2>3. z \in Nat /\ c \in Nat /\ z + r.size = e[Len(reads)] + c
    BY <1>6, <1>7, <1>8, <1>9, <2>2
  <2>4. Grows(reads, "begin", e, r, c, z)
    BY <1>9, <2>3 DEF Grows
  <2> HIDE DEF z, c
  <2>5. PICK f : Falls(reads', d, "begin", f) /\ f[Len(reads) + 1] = z /\ \A i \in 0 .. Len(reads) : f[i] = e[i] + 0
    <3>1. reads \in Seq(Requests) /\ r \in Requests /\ Falls(reads, d, "begin", e) /\ d \in 0 .. Len(reads)
      BY <1>6, <1>9, <2>2
    <3>2. \E g : Falls(Append(reads, r), d, "begin", g) /\ g[Len(reads) + 1] = z /\ \A i \in 0 .. Len(reads) : g[i] = e[i] + c
      BY <3>1, <2>4, FallsAdded
    <3> QED BY <1>7, <3>2 DEF c
  <2>6. f \in [0 .. Len(reads') -> Nat]
    BY <2>5 DEF Falls
  <2>7. f[0] = start /\ f[Len(reads')] = start' - sizes'.begin
    <3>1. 0 \in 0 .. Len(reads) /\ f[0] = start + 0
      BY <1>11, <2>2, <2>5
    <3>2. f[Len(reads')] = z /\ start' = start
      BY <1>7, <1>11, <2>5
    <3> QED BY <1>8, <1>10, <3>1, <3>2 DEF z
  <2>8. ASSUME NEW i \in d + 1 .. Len(reads'), reads'[i].kind = "begin" PROVE reads'[i].from = f[i]
    <3>1. CASE i = Len(reads) + 1
      BY <1>9, <1>11, <2>5, <3>1 DEF z
    <3>2. CASE i # Len(reads) + 1
      <4>1. i \in 1 .. Len(reads) /\ i \in d + 1 .. Len(reads) /\ i \in 0 .. Len(reads)
        BY <1>11, <3>2
      <4>2. reads'[i] = reads[i] /\ f[i] = e[i] + 0 /\ e[i] \in Nat /\ reads[i].from = e[i]
        BY <1>11, <2>2, <2>5, <2>8, <4>1
      <4> QED BY <4>2
    <3> QED BY <3>1, <3>2
  <2>9. ASSUME "lowEnd" \notin mishaps
        PROVE  z >= 2 * Row /\ \A i \in 0 .. Len(reads') : f[i] - z \in {0, Row, 2 * Row}
    <3>1. start - lines * Row >= 2 * Row
      BY <1>1, <2>9 DEF High
    <3>2. wanted = lines * Row /\ z = start - lines * Row /\ 2 * Row \in Nat
      BY <1>5, <1>8, <3>1 DEF z
    <3>3. \A i \in 0 .. Len(reads) : e[i] - e[Len(reads)] \in {0, Row, 2 * Row}
      BY <2>1, <2>9 DEF Begins
    <3>4. ASSUME NEW i \in 0 .. Len(reads') PROVE f[i] - z \in {0, Row, 2 * Row}
      <4>1. CASE i = Len(reads) + 1
        BY <2>3, <2>5, <4>1
      <4>2. CASE i # Len(reads) + 1
        <5>1. i \in 0 .. Len(reads) /\ 0 \in 0 .. Len(reads) /\ Len(reads) \in 0 .. Len(reads) /\ 0 <= i
          BY <1>11, <4>2
        <5>2. e[i] - e[Len(reads)] \in {0, Row, 2 * Row} /\ e[0] - e[Len(reads)] \in {0, Row, 2 * Row}
          BY <3>3, <5>1
        <5>3. e[i] <= e[0] /\ e[i] \in Nat /\ f[i] = e[i] + 0 /\ e[Len(reads)] <= e[i]
          BY <2>2, <2>5, <5>1 DEF Falls
        <5>4. sizes.begin \in {0, Row, 2 * Row} /\ lines * Row > sizes.begin
          BY <1>6, <1>7, <1>8, <2>2, <3>2, <5>2
        <5>5. e[i] - (start - sizes.begin) \in {0, Row, 2 * Row} /\ e[i] <= start
          BY <2>2, <5>2, <5>3
        <5>6. e[i] - (start - lines * Row) \in {0, Row, 2 * Row}
          <6> DEFINE w == lines * Row
                     S == 2 * Row
                     b == sizes.begin
                     x == e[i]
          <6>1. w \in {0, Row, S} /\ b \in {0, Row, S} /\ w > b /\ x - (start - b) \in {0, Row, S}
            BY <1>5, <5>4, <5>5
          <6>2. Row \in Nat \ {0} /\ S = Row + Row /\ x \in Nat /\ start \in Nat /\ x <= start
            BY <1>5, <1>8, <5>3, <5>5
          <6> HIDE DEF w, S, b, x
          <6>3. x - (start - w) \in {0, Row, S}
            BY <6>1, <6>2
          <6> QED BY <6>3 DEF w, S, x
        <5> QED BY <3>2, <5>3, <5>6
      <4> QED BY <4>1, <4>2
    <3> QED BY <3>1, <3>2, <3>4
  <2>10. mishaps' = mishaps
    BY <1>7 DEF memory
  <2>11. Begins(d, f)'
    <3>1. f[0] = start' /\ f[Len(reads')] = z
      BY <1>7, <1>11, <2>5, <2>7
    <3> QED BY <2>5, <2>7, <2>8, <2>9, <2>10, <3>1 DEF Begins
  <2> QED BY <2>6, <2>11 DEF BeginKnown
<1>13. EndKnown(d)'
  <2>1. PICK s \in [0 .. Len(reads) -> Nat] : Ends(d, s)
    BY <1>3 DEF EndKnown
  <2> DEFINE z == s[Len(reads)]
             c == 0
  <2>2. /\ Falls(reads, d, "end", s) /\ s[0] = sizes.end /\ s[Len(reads)] = 0
        /\ \A i \in 0 .. Len(reads) : s[i] \in Nat
    BY <2>1 DEF Ends
  <2>3. z \in Nat /\ c \in Nat /\ z = s[Len(reads)] + c /\ r.kind # "end" /\ z = 0
    BY <1>9, <2>2
  <2>4. Grows(reads, "end", s, r, c, z)
    BY <2>3 DEF Grows
  <2> HIDE DEF z, c
  <2>5. PICK f : Falls(reads', d, "end", f) /\ f[Len(reads) + 1] = z /\ \A i \in 0 .. Len(reads) : f[i] = s[i] + 0
    <3>1. reads \in Seq(Requests) /\ r \in Requests /\ Falls(reads, d, "end", s) /\ d \in 0 .. Len(reads)
      BY <1>6, <1>9, <2>2
    <3>2. \E g : Falls(Append(reads, r), d, "end", g) /\ g[Len(reads) + 1] = z /\ \A i \in 0 .. Len(reads) : g[i] = s[i] + c
      BY <3>1, <2>4, FallsAdded
    <3> QED BY <1>7, <3>2 DEF c
  <2>6. f \in [0 .. Len(reads') -> Nat]
    BY <2>5 DEF Falls
  <2>7. f[0] = sizes'.end /\ f[Len(reads')] = 0
    BY <1>6, <1>10, <1>11, <2>2, <2>3, <2>5
  <2>8. ASSUME NEW i \in d + 1 .. Len(reads'), reads'[i].kind = "end"
        PROVE  i \in d + 1 .. Len(reads) /\ reads'[i] = reads[i]
    BY <1>9, <1>11, <2>8
  <2>9. mishaps' = mishaps
    BY <1>7 DEF memory
  <2>10. "ahead" \notin mishaps =>
          \A i \in d + 1 .. Len(reads') : reads'[i].kind = "end" =>
            /\ reads'[i].from = start' + Len(data') /\ reads'[i].size = sizes'.end
            /\ \A j \in d + 1 .. Len(reads') : reads'[j].kind = "end" => i = j
    BY <1>7, <1>10, <2>1, <2>8 DEF Ends
  <2>11. Ends(d, f)'
    BY <2>5, <2>7, <2>9, <2>10 DEF Ends
  <2> QED BY <2>6, <2>11 DEF EndKnown
<1> QED BY <1>11, <1>12, <1>13 DEF Going

LEMMA AfterStep == Going /\ ExtendAfter => Going'
<1> SUFFICES ASSUME Going, ExtendAfter PROVE Going'
  OBVIOUS
<1>1. PICK lines \in Lines : FetchEnd(lines)
  BY DEF ExtendAfter
<1>2. ("unreadable" \in mishaps \/ readable = Pages) /\ ("ahead" \in mishaps \/ sizes.end = 0)
  BY DEF ExtendAfter, Window
<1>3. PICK d \in 0 .. Len(reads) : Divided(d) /\ BeginKnown(d) /\ EndKnown(d)
  BY DEF Going
<1>4. Requested
  BY DEF Going
<1>5. lines * Row \in Nat /\ lines * Row <= 2 * Row /\ 2 * Row \in Nat
  <2> DEFINE w == lines * Row
  <2>1. w \in {0, Row, 2 * Row} /\ Row \in Nat \ {0}
    BY Multiples
  <2> HIDE DEF w
  <2>2. w \in Nat /\ w <= 2 * Row /\ 2 * Row \in Nat
    BY <2>1
  <2> QED BY <2>2 DEF w
<1>6. /\ start \in 0 .. Top /\ reads \in Seq(Requests) /\ Top \in Nat /\ data \in Seq(Nat) /\ Len(data) \in Nat
      /\ sizes \in [begin : Nat, end : Nat] /\ start + Len(data) + sizes.end <= Top
  BY <1>4, Sizes DEF Requested
<1> DEFINE end == start + Len(data)
           wanted == Lesser(lines * Row, Top - end)
           r == [kind |-> "end", from |-> end, size |-> wanted - sizes.end]
<1>7. /\ counts.reset = 0 /\ wanted > sizes.end
      /\ counts' = [counts EXCEPT !.end = @ + 1]
      /\ sizes' = [sizes EXCEPT !.end = wanted]
      /\ reads' = Append(reads, r)
      /\ UNCHANGED <<start, data, text, memory>>
  BY <1>1 DEF FetchEnd, Ask, Unchanging
<1>8. end \in Nat /\ end <= Top
  BY <1>6
<1>9. wanted \in Nat /\ wanted <= 2 * Row /\ end + wanted <= Top
  <2> DEFINE w == lines * Row
             v == Top - end
  <2>1. w \in Nat /\ w <= 2 * Row /\ 2 * Row \in Nat /\ v \in Nat /\ end + v = Top
    BY <1>5, <1>6, <1>8
  <2>2. Lesser(w, v) \in Nat /\ Lesser(w, v) <= w /\ Lesser(w, v) <= v
    <3> HIDE DEF w, v
    <3> QED BY <2>1 DEF Lesser
  <2>3. wanted = Lesser(w, v)
    OBVIOUS
  <2> HIDE DEF w, v, wanted
  <2>4. wanted \in Nat /\ wanted <= w /\ wanted <= v
    BY <2>2, <2>3
  <2> HIDE DEF end
  <2> QED BY <1>6, <1>8, <2>1, <2>4
<1> HIDE DEF wanted
<1>10. /\ r \in Requests /\ r.kind = "end" /\ r.from = end /\ r.size = wanted - sizes.end
       /\ r.from + r.size <= Top /\ r.size <= 2 * Row
  <2>1. wanted - sizes.end \in Nat \ {0} /\ wanted - sizes.end <= wanted
    BY <1>6, <1>7, <1>9
  <2>2. r \in Requests
    BY <1>8, <2>1 DEF Requests
  <2> HIDE DEF end
  <2> QED BY <1>5, <1>6, <1>8, <1>9, <2>1, <2>2
<1> HIDE DEF r
<1>11. sizes' \in [begin : Nat, end : Nat] /\ sizes'.end = wanted /\ sizes'.begin = sizes.begin
  BY <1>6, <1>7, <1>9
<1>12. /\ Requested' /\ Divided(d)' /\ d \in 0 .. Len(reads')
       /\ Len(reads') = Len(reads) + 1 /\ Len(reads) \in Nat /\ reads'[Len(reads) + 1] = r
       /\ \A i \in 1 .. Len(reads) : reads'[i] = reads[i]
  BY <1>2, <1>3, <1>4, <1>7, <1>9, <1>10, <1>11, ReadAdded
<1>13. mishaps' = mishaps
  BY <1>7 DEF memory
<1>14. BeginKnown(d)'
  <2>1. PICK e \in [0 .. Len(reads) -> Nat] : Begins(d, e)
    BY <1>3 DEF BeginKnown
  <2> DEFINE z == e[Len(reads)]
             c == 0
  <2>2. /\ Falls(reads, d, "begin", e) /\ e[0] = start /\ e[Len(reads)] = start - sizes.begin
        /\ \A i \in d + 1 .. Len(reads) : reads[i].kind = "begin" => reads[i].from = e[i]
        /\ \A i \in 0 .. Len(reads) : e[i] \in Nat
    BY <2>1 DEF Begins
  <2>3. z \in Nat /\ c \in Nat /\ z = e[Len(reads)] + c /\ z = start - sizes.begin /\ z = e[Len(reads)]
    BY <1>12, <2>2
  <2>4. Grows(reads, "begin", e, r, c, z)
    BY <1>10, <2>3 DEF Grows
  <2> HIDE DEF z, c
  <2>5. PICK f : Falls(reads', d, "begin", f) /\ f[Len(reads) + 1] = z /\ \A i \in 0 .. Len(reads) : f[i] = e[i] + 0
    <3>1. reads \in Seq(Requests) /\ r \in Requests /\ Falls(reads, d, "begin", e)
      BY <1>6, <1>10, <2>2
    <3>2. \E g : Falls(Append(reads, r), d, "begin", g) /\ g[Len(reads) + 1] = z /\ \A i \in 0 .. Len(reads) : g[i] = e[i] + c
      BY <3>1, <2>4, FallsAdded
    <3> QED BY <1>7, <3>2 DEF c
  <2>6. f \in [0 .. Len(reads') -> Nat] /\ f[0] = start' /\ f[Len(reads')] = start' - sizes'.begin /\ f[Len(reads')] = z
    <3>1. 0 \in 0 .. Len(reads) /\ f[0] = start + 0
      BY <1>12, <2>2, <2>5
    <3>2. f[Len(reads')] = z /\ start' = start
      BY <1>7, <1>12, <2>5
    <3>3. f \in [0 .. Len(reads') -> Nat]
      BY <2>5 DEF Falls
    <3> QED BY <1>6, <1>11, <2>3, <3>1, <3>2, <3>3
  <2>7. ASSUME NEW i \in d + 1 .. Len(reads'), reads'[i].kind = "begin" PROVE reads'[i].from = f[i]
    <3>1. i \in 1 .. Len(reads) /\ i \in d + 1 .. Len(reads) /\ i \in 0 .. Len(reads)
      BY <1>10, <1>12, <2>7
    <3>2. reads'[i] = reads[i] /\ f[i] = e[i] + 0 /\ e[i] \in Nat /\ reads[i].from = e[i]
      BY <1>12, <2>2, <2>5, <2>7, <3>1
    <3> QED BY <3>2
  <2>8. ASSUME "lowEnd" \notin mishaps
        PROVE  z >= 2 * Row /\ \A i \in 0 .. Len(reads') : f[i] - z \in {0, Row, 2 * Row}
    <3>1. ~(start = Top)
      BY <1>6, <1>7, <1>9
    <3>2. z >= 2 * Row /\ \A i \in 0 .. Len(reads) : e[i] - z \in {0, Row, 2 * Row}
      BY <2>1, <2>3, <2>8, <3>1 DEF Begins
    <3>3. ASSUME NEW i \in 0 .. Len(reads') PROVE f[i] - z \in {0, Row, 2 * Row}
      <4>1. CASE i = Len(reads) + 1
        BY <2>3, <2>5, <4>1
      <4>2. CASE i # Len(reads) + 1
        <5>1. i \in 0 .. Len(reads)
          BY <1>12, <4>2
        <5>2. f[i] = e[i]
          BY <2>2, <2>5, <5>1
        <5> QED BY <3>2, <5>1, <5>2
      <4> QED BY <4>1, <4>2
    <3> QED BY <3>2, <3>3
  <2>9. Begins(d, f)'
    BY <1>13, <2>5, <2>6, <2>7, <2>8 DEF Begins
  <2> QED BY <2>6, <2>9 DEF BeginKnown
<1>15. EndKnown(d)'
  <2>1. PICK s \in [0 .. Len(reads) -> Nat] : Ends(d, s)
    BY <1>3 DEF EndKnown
  <2> DEFINE z == 0
             c == wanted - sizes.end
  <2>2. /\ Falls(reads, d, "end", s) /\ s[0] = sizes.end /\ s[Len(reads)] = 0
        /\ \A i \in 0 .. Len(reads) : s[i] \in Nat
    BY <2>1 DEF Ends
  <2>3. z \in Nat /\ c \in Nat /\ z + r.size = s[Len(reads)] + c /\ z = 0
    BY <1>6, <1>7, <1>9, <1>10, <2>2
  <2>4. Grows(reads, "end", s, r, c, z)
    BY <1>10, <2>3 DEF Grows
  <2> HIDE DEF z, c
  <2>5. PICK f : Falls(reads', d, "end", f) /\ f[Len(reads) + 1] = z /\ \A i \in 0 .. Len(reads) : f[i] = s[i] + c
    <3>1. reads \in Seq(Requests) /\ r \in Requests /\ Falls(reads, d, "end", s)
      BY <1>6, <1>10, <2>2
    <3>2. \E g : Falls(Append(reads, r), d, "end", g) /\ g[Len(reads) + 1] = z /\ \A i \in 0 .. Len(reads) : g[i] = s[i] + c
      BY <3>1, <2>4, FallsAdded
    <3> QED BY <1>7, <3>2
  <2>6. f \in [0 .. Len(reads') -> Nat] /\ f[0] = sizes'.end /\ f[Len(reads')] = 0
    <3>1. 0 \in 0 .. Len(reads) /\ f[0] = sizes.end + c
      BY <1>12, <2>2, <2>5
    <3>2. f[Len(reads')] = 0
      BY <1>12, <2>3, <2>5
    <3>3. f \in [0 .. Len(reads') -> Nat]
      BY <2>5 DEF Falls
    <3>4. sizes.end + c = wanted
      BY <1>6, <1>9 DEF c
    <3> QED BY <1>11, <3>1, <3>2, <3>3, <3>4
  <2>7. ASSUME "ahead" \notin mishaps, NEW i \in d + 1 .. Len(reads'), reads'[i].kind = "end"
        PROVE  i = Len(reads) + 1
    <3>1. SUFFICES ASSUME i # Len(reads) + 1 PROVE FALSE
      OBVIOUS
    <3>2. i \in d + 1 .. Len(reads) /\ i \in 1 .. Len(reads) /\ reads'[i] = reads[i]
      BY <1>12, <3>1
    <3>3. reads[i].size = sizes.end
      BY <2>1, <2>7, <3>2 DEF Ends
    <3>4. reads[i] \in Requests
      BY <1>6, <3>2
    <3> QED BY <1>2, <2>7, <3>3, <3>4 DEF Requests
  <2>8. "ahead" \notin mishaps =>
          \A i \in d + 1 .. Len(reads') : reads'[i].kind = "end" =>
            /\ reads'[i].from = start' + Len(data') /\ reads'[i].size = sizes'.end
            /\ \A j \in d + 1 .. Len(reads') : reads'[j].kind = "end" => i = j
    <3>1. start' = start /\ data' = data
      BY <1>7
    <3>2. "ahead" \notin mishaps => r.from = start' + Len(data') /\ r.size = sizes'.end
      BY <1>2, <1>9, <1>10, <1>11, <3>1
    <3> QED BY <1>12, <2>7, <3>2
  <2>9. Ends(d, f)'
    BY <1>13, <2>5, <2>6, <2>8 DEF Ends
  <2> QED BY <2>6, <2>9 DEF EndKnown
<1> QED BY <1>12, <1>14, <1>15 DEF Going

-----------------------------------------------------------------------------
(* The first of the reads is answered. *)
LEMMA FirstRead ==
  ASSUME Requested, reads # <<>>, reads' = Tail(reads)
  PROVE  /\ reads \in Seq(Requests) /\ reads[1] \in Requests /\ Head(reads) = reads[1]
         /\ reads' \in Seq(Requests) /\ Len(reads) \in Nat \ {0} /\ Len(reads') = Len(reads) - 1
         /\ \A i \in 1 .. Len(reads') : i + 1 \in 1 .. Len(reads) /\ reads'[i] = reads[i + 1]
         /\ reads[1].from \in Nat /\ reads[1].size \in Nat \ {0} /\ reads[1].kind \in {"reset", "begin", "end"}
         /\ reads[1].from + reads[1].size <= Top
         /\ reads[1].kind = "end" => reads[1].size <= 2 * Row
         /\ reads[1].kind = "reset" /\ "lowEnd" \notin mishaps => reads[1].from >= 2 * Row
<1>1. reads \in Seq(Requests)
  BY DEF Requested
<1>2. /\ Len(reads) \in Nat \ {0} /\ Head(reads) = reads[1] /\ reads' \in Seq(Requests) /\ Len(reads') = Len(reads) - 1
      /\ \A i \in 1 .. Len(reads') : reads'[i] = reads[i + 1]
  BY <1>1
<1>3. 1 \in 1 .. Len(reads) /\ \A i \in 1 .. Len(reads') : i + 1 \in 1 .. Len(reads)
  BY <1>2
<1>4. reads[1] \in Requests
  BY <1>1, <1>3
<1>5. reads[1].from \in Nat /\ reads[1].size \in Nat \ {0} /\ reads[1].kind \in {"reset", "begin", "end"}
  BY <1>4 DEF Requests
<1>6. /\ reads[1].from + reads[1].size <= Top
      /\ reads[1].kind = "end" => reads[1].size <= 2 * Row
      /\ reads[1].kind = "reset" /\ "lowEnd" \notin mishaps => reads[1].from >= 2 * Row
  BY <1>3 DEF Requested
<1> QED BY <1>1, <1>2, <1>3, <1>4, <1>5, <1>6

\* An answer is the memory asked for, cut short in unreadable memory only.
LEMMA FirstBytes ==
  ASSUME Requested, reads # <<>>, reads' = Tail(reads), NEW bytes, bytes = Read(reads[1].from, reads[1].size)
  PROVE  /\ bytes \in Seq(Nat) /\ Len(bytes) \in Nat /\ bytes = Bytes(reads[1].from, Len(bytes))
         /\ Len(bytes) # reads[1].size => "unreadable" \in mishaps
<1>1. /\ reads[1].from \in Nat /\ reads[1].size \in Nat /\ reads[1].from + reads[1].size <= Top
  BY FirstRead
<1>2. /\ bytes \in Seq(Nat) /\ Len(bytes) \in 0 .. reads[1].size /\ bytes = Bytes(reads[1].from, Len(bytes))
      /\ readable = Pages /\ reads[1].from + reads[1].size <= Top => Len(bytes) = reads[1].size
  BY <1>1, ReadIs
<1>3. "unreadable" \in mishaps \/ readable = Pages
  BY DEF Requested
<1> QED BY <1>1, <1>2, <1>3

(* The other reads stay as they were asked for. *)
LEMMA RequestedTaken ==
  ASSUME Requested, reads # <<>>, reads' = Tail(reads), UNCHANGED memory,
         start' \in 0 .. Top, data' \in Seq(Nat),
         counts' \in [reset : Nat, begin : Nat, end : Nat, skipBegin : Nat, skipEnd : Nat],
         sizes' \in [begin : Nat, end : Nat], start' + Len(data') + sizes'.end <= Top
  PROVE  Requested'
<1>1. /\ reads' \in Seq(Requests)
      /\ \A i \in 1 .. Len(reads') : i + 1 \in 1 .. Len(reads) /\ reads'[i] = reads[i + 1]
  BY FirstRead
<1>2. ASSUME NEW i \in 1 .. Len(reads')
      PROVE  /\ reads'[i].from + reads'[i].size <= Top
             /\ reads'[i].kind = "end" => reads'[i].size <= 2 * Row
             /\ reads'[i].kind = "reset" /\ "lowEnd" \notin mishaps => reads'[i].from >= 2 * Row
  BY <1>1 DEF Requested
<1>3. mishaps' = mishaps /\ readable' = readable /\ ("unreadable" \in mishaps \/ readable = Pages)
  BY DEF memory, Requested
<1> QED BY <1>1, <1>2, <1>3 DEF Requested

LEMMA MemoryKept == UNCHANGED memory => mishaps' = mishaps
BY DEF memory

\* It was obsolete.
LEMMA DividedSkipped ==
  ASSUME Requested, reads # <<>>, reads' = Tail(reads), UNCHANGED memory, NEW d \in 1 .. Len(reads), Divided(d),
         counts'.reset = counts.reset - (IF reads[1].kind = "reset" THEN 1 ELSE 0),
         counts'.skipBegin = counts.skipBegin - (IF reads[1].kind = "begin" THEN 1 ELSE 0),
         counts'.skipEnd = counts.skipEnd - (IF reads[1].kind = "end" THEN 1 ELSE 0),
         counts'.begin = counts.begin, counts'.end = counts.end,
         counts'.reset > 0 => UNCHANGED <<sizes, text>>
  PROVE  Divided(d - 1)' /\ d - 1 \in 0 .. Len(reads')
<1>1. /\ reads \in Seq(Requests) /\ Len(reads) \in Nat \ {0} /\ Len(reads') = Len(reads) - 1
      /\ \A i \in 1 .. Len(reads') : i + 1 \in 1 .. Len(reads) /\ reads'[i] = reads[i + 1]
  BY FirstRead
<1>2. counts \in [reset : Nat, begin : Nat, end : Nat, skipBegin : Nat, skipEnd : Nat]
  BY DEF Requested
<1>3. /\ counts.reset = Number(reads, "reset", 1, Len(reads))
      /\ counts.skipBegin = Number(reads, "begin", 1, d)
      /\ counts.skipEnd = Number(reads, "end", 1, d)
      /\ counts.begin = Number(reads, "begin", d + 1, Len(reads))
      /\ counts.end = Number(reads, "end", d + 1, Len(reads))
      /\ \A i \in d + 1 .. Len(reads) : reads[i].kind # "reset"
      /\ counts.reset > 0 =>
           /\ d = Len(reads) /\ sizes.begin = 0 /\ sizes.end = 0
           /\ "again" \notin mishaps => text = <<>>
  BY DEF Divided
<1>4. ASSUME NEW k
      PROVE  /\ Number(reads, k, 1, Len(reads)) = Number(reads', k, 1, Len(reads')) + (IF reads[1].kind = k THEN 1 ELSE 0)
             /\ Number(reads, k, 1, d) = Number(reads', k, 1, d - 1) + (IF reads[1].kind = k THEN 1 ELSE 0)
             /\ Number(reads, k, d + 1, Len(reads)) = Number(reads', k, d, Len(reads'))
             /\ Number(reads', k, 1, Len(reads')) \in Nat /\ Number(reads', k, 1, d - 1) \in Nat
  <2>1. reads' = Tail(reads) /\ Len(reads') \in Nat /\ d - 1 \in Nat
    BY <1>1
  <2>2. Number(reads', k, 1, Len(reads')) \in Nat /\ Number(reads', k, 1, d - 1) \in Nat
    BY <2>1, NumberType
  <2>3. reads \in Seq(Requests) /\ reads # <<>> /\ d \in 1 .. Len(reads)
    BY <1>1
  <2>4. /\ Number(reads, k, 1, Len(reads))
             = Number(Tail(reads), k, 1, Len(reads) - 1) + (IF reads[1].kind = k THEN 1 ELSE 0)
        /\ Number(reads, k, 1, d) = Number(Tail(reads), k, 1, d - 1) + (IF reads[1].kind = k THEN 1 ELSE 0)
        /\ Number(reads, k, d + 1, Len(reads)) = Number(Tail(reads), k, d, Len(reads) - 1)
    BY <2>3, NumberTaken
  <2>5. Len(reads') = Len(reads) - 1
    BY <1>1
  <2> QED BY <2>1, <2>2, <2>4, <2>5
<1>5. d - 1 \in 0 .. Len(reads') /\ (d - 1) + 1 = d
  BY <1>1
<1>6. /\ counts'.reset = Number(reads', "reset", 1, Len(reads'))
      /\ counts'.skipBegin = Number(reads', "begin", 1, d - 1)
      /\ counts'.skipEnd = Number(reads', "end", 1, d - 1)
  <2>1. counts'.reset = Number(reads', "reset", 1, Len(reads'))
    <3>1. /\ counts.reset = Number(reads', "reset", 1, Len(reads')) + (IF reads[1].kind = "reset" THEN 1 ELSE 0)
          /\ Number(reads', "reset", 1, Len(reads')) \in Nat
      BY <1>3, <1>4
    <3> QED BY <3>1
  <2>2. counts'.skipBegin = Number(reads', "begin", 1, d - 1)
    <3>1. /\ counts.skipBegin = Number(reads', "begin", 1, d - 1) + (IF reads[1].kind = "begin" THEN 1 ELSE 0)
          /\ Number(reads', "begin", 1, d - 1) \in Nat
      BY <1>3, <1>4
    <3> QED BY <3>1
  <2>3. counts'.skipEnd = Number(reads', "end", 1, d - 1)
    <3>1. /\ counts.skipEnd = Number(reads', "end", 1, d - 1) + (IF reads[1].kind = "end" THEN 1 ELSE 0)
          /\ Number(reads', "end", 1, d - 1) \in Nat
      BY <1>3, <1>4
    <3> QED BY <3>1
  <2> QED BY <2>1, <2>2, <2>3
<1>7. counts'.begin = Number(reads', "begin", d, Len(reads')) /\ counts'.end = Number(reads', "end", d, Len(reads'))
  BY <1>3, <1>4
<1>8. ASSUME NEW i \in d .. Len(reads') PROVE reads'[i].kind # "reset"
  <2>1. i \in 1 .. Len(reads') /\ i + 1 \in d + 1 .. Len(reads)
    <3>1. d \in Nat \ {0} /\ d <= Len(reads) /\ Len(reads) \in Nat /\ Len(reads') = Len(reads) - 1
      BY <1>1
    <3> DEFINE m == Len(reads)
               m1 == Len(reads')
    <3>2. d \in Nat \ {0} /\ m \in Nat /\ m1 = m - 1 /\ i \in d .. m1
      BY <3>1
    <3> HIDE DEF m, m1
    <3>3. i \in 1 .. m1 /\ i + 1 \in d + 1 .. m
      BY <3>2
    <3> QED BY <3>3 DEF m, m1
  <2>2. reads'[i] = reads[i + 1] /\ reads[i + 1].kind # "reset"
    BY <1>1, <1>3, <2>1, Zenon
  <2> QED BY <2>2
<1>9. mishaps' = mishaps
  BY MemoryKept, Zenon
<1>10. counts'.reset > 0 => /\ d - 1 = Len(reads') /\ sizes'.begin = 0 /\ sizes'.end = 0
                            /\ "again" \notin mishaps => text' = <<>>
  <2>1. counts'.reset > 0 => counts.reset > 0
    BY <1>2
  <2>2. Len(reads') = Len(reads) - 1
    BY <1>1
  <2>3. counts'.reset > 0 => d - 1 = Len(reads')
    BY <1>3, <2>1, <2>2
  <2>4. counts'.reset > 0 => sizes'.begin = 0 /\ sizes'.end = 0 /\ ("again" \notin mishaps => text' = <<>>)
    <3>1. SUFFICES ASSUME counts'.reset > 0
                   PROVE  sizes'.begin = 0 /\ sizes'.end = 0 /\ ("again" \notin mishaps => text' = <<>>)
      OBVIOUS
    <3>2. sizes' = sizes /\ text' = text
      BY <3>1, Zenon
    <3>3. sizes.begin = 0 /\ sizes.end = 0 /\ ("again" \notin mishaps => text = <<>>)
      BY <1>3, <2>1, <3>1, Zenon
    <3> QED BY <3>2, <3>3, Zenon
  <2> QED BY <2>3, <2>4, Zenon
<1> DEFINE f == d - 1
<1>11. f + 1 = d /\ f = d - 1
  BY <1>5
<1> HIDE DEF f
<1>12. Divided(f)'
  BY <1>6, <1>7, <1>8, <1>9, <1>10, <1>11 DEF Divided
<1> QED BY <1>5, <1>12 DEF f

\* It was not, nor are the others.
LEMMA DividedTaken ==
  ASSUME Requested, reads # <<>>, reads' = Tail(reads), Divided(0), counts.reset = 0, reads[1].kind # "reset",
         counts'.reset = 0, counts'.skipBegin = counts.skipBegin, counts'.skipEnd = counts.skipEnd,
         counts'.begin = counts.begin - (IF reads[1].kind = "begin" THEN 1 ELSE 0),
         counts'.end = counts.end - (IF reads[1].kind = "end" THEN 1 ELSE 0)
  PROVE  Divided(0)' /\ counts'.begin \in Nat /\ counts'.end \in Nat
<1>1. /\ reads \in Seq(Requests) /\ Len(reads) \in Nat \ {0} /\ Len(reads') = Len(reads) - 1
      /\ \A i \in 1 .. Len(reads') : i + 1 \in 1 .. Len(reads) /\ reads'[i] = reads[i + 1]
  BY FirstRead
<1> DEFINE z == 0
           o == 1
<1>2. z \in Nat /\ o \in Nat /\ z + 1 = o /\ z = 0 /\ z < o
  OBVIOUS
<1>3. /\ counts.reset = Number(reads, "reset", o, Len(reads))
      /\ counts.skipBegin = Number(reads, "begin", o, z)
      /\ counts.skipEnd = Number(reads, "end", o, z)
      /\ counts.begin = Number(reads, "begin", o, Len(reads))
      /\ counts.end = Number(reads, "end", o, Len(reads))
      /\ \A i \in o .. Len(reads) : reads[i].kind # "reset"
  <2>1. Divided(z)
    OBVIOUS
  <2> HIDE DEF z
  <2>2. /\ counts.skipBegin = Number(reads, "begin", 1, z)
        /\ counts.skipEnd = Number(reads, "end", 1, z)
        /\ counts.begin = Number(reads, "begin", z + 1, Len(reads))
        /\ counts.end = Number(reads, "end", z + 1, Len(reads))
        /\ \A i \in z + 1 .. Len(reads) : reads[i].kind # "reset"
        /\ counts.reset = Number(reads, "reset", 1, Len(reads))
    BY <2>1 DEF Divided
  <2> QED BY <1>2, <2>2
<1>4. ASSUME NEW k
      PROVE  /\ Number(reads, k, o, Len(reads)) = Number(reads', k, o, Len(reads')) + (IF reads[1].kind = k THEN 1 ELSE 0)
             /\ Number(reads', k, o, Len(reads')) \in Nat
             /\ Number(reads, k, o, z) = 0 /\ Number(reads', k, o, z) = 0
  <2>1. reads' = Tail(reads) /\ Len(reads') \in Nat
    BY <1>1
  <2>2. Number(reads, k, 1, Len(reads)) = Number(reads', k, 1, Len(reads')) + (IF reads[1].kind = k THEN 1 ELSE 0)
    BY <1>1, <2>1, NumberTaken
  <2> HIDE DEF z
  <2>3. Number(reads, k, o, Len(reads)) = Number(reads', k, o, Len(reads')) + (IF reads[1].kind = k THEN 1 ELSE 0)
    BY <2>2 DEF o
  <2> HIDE DEF o
  <2>4. Number(reads', k, o, Len(reads')) \in Nat /\ Number(reads, k, o, z) = 0 /\ Number(reads', k, o, z) = 0
    <3>1. o \in Nat /\ z \in Nat /\ z < o
      BY <1>2
    <3>2. Len(reads') \in Nat
      BY <2>1
    <3> QED BY <3>1, <3>2, NumberType, Zenon
  <2> QED BY <2>3, <2>4
<1>5. \A i \in o .. Len(reads') : reads'[i].kind # "reset"
  BY <1>1, <1>3
<1> HIDE DEF z, o
<1>6. Divided(z)'
  <2>1. /\ counts'.reset = Number(reads', "reset", o, Len(reads'))
        /\ counts'.begin = Number(reads', "begin", o, Len(reads'))
        /\ counts'.end = Number(reads', "end", o, Len(reads'))
        /\ counts'.skipBegin = Number(reads', "begin", o, z) /\ counts'.skipEnd = Number(reads', "end", o, z)
    BY <1>3, <1>4
  <2>2. ~(counts'.reset > 0)
    OBVIOUS
  <2>3. o = 1
    BY DEF o
  <2> QED BY <1>2, <1>5, <2>1, <2>2, <2>3 DEF Divided
<1>7. counts'.begin \in Nat /\ counts'.end \in Nat
  BY <1>3, <1>4
<1> QED BY <1>6, <1>7 DEF z

\* Where the window begins after the answers left.
LEMMA BeginTaken ==
  ASSUME Requested, reads # <<>>, reads' = Tail(reads), UNCHANGED memory,
         NEW d \in 0 .. Len(reads), BeginKnown(d), NEW g, g = (IF d = 0 THEN 0 ELSE d - 1),
         start' = IF d = 0 /\ reads[1].kind = "begin" THEN start - reads[1].size ELSE start,
         sizes'.begin = IF d = 0 /\ reads[1].kind = "begin" THEN sizes.begin - reads[1].size ELSE sizes.begin
  PROVE  /\ BeginKnown(g)'
         /\ start' \in Nat /\ start' <= start /\ sizes'.begin \in Nat
         /\ "lowEnd" \notin mishaps => start >= 2 * Row
         /\ d = 0 /\ reads[1].kind = "begin" =>
              /\ reads[1].from = start' /\ start' + reads[1].size = start
              /\ "lowEnd" \notin mishaps => reads[1].size \in {Row, 2 * Row}
<1>1. /\ reads \in Seq(Requests) /\ Len(reads) \in Nat \ {0} /\ Len(reads') = Len(reads) - 1
      /\ \A i \in 1 .. Len(reads') : i + 1 \in 1 .. Len(reads) /\ reads'[i] = reads[i + 1]
      /\ reads[1].size \in Nat \ {0}
  BY FirstRead
<1>2. start \in Nat /\ sizes.begin \in Nat /\ Row \in Nat \ {0} /\ 2 * Row \in Nat
  BY Sizes DEF Requested
<1>3. PICK e \in [0 .. Len(reads) -> Nat] : Begins(d, e)
  BY DEF BeginKnown
<1>4. /\ Falls(reads, d, "begin", e) /\ e[0] = start /\ e[Len(reads)] = start - sizes.begin
      /\ \A i \in d + 1 .. Len(reads) : reads[i].kind = "begin" => reads[i].from = e[i]
      /\ "lowEnd" \notin mishaps =>
           /\ \A i \in 0 .. Len(reads) : e[i] - e[Len(reads)] \in {0, Row, 2 * Row}
           /\ e[Len(reads)] >= 2 * Row
  BY <1>3 DEF Begins
<1>5. PICK f : /\ Falls(Tail(reads), IF d = 0 THEN 0 ELSE d - 1, "begin", f)
               /\ \A i \in 0 .. Len(reads) - 1 : f[i] = e[i + 1]
               /\ e[0] \in Nat /\ e[1] \in Nat
               /\ IF d = 0 /\ reads[1].kind = "begin" THEN e[1] + reads[1].size = e[0] ELSE e[1] = e[0]
  <2>1. reads \in Seq(Requests) /\ reads # <<>> /\ d \in 0 .. Len(reads) /\ Falls(reads, d, "begin", e)
    BY <1>1, <1>4
  <2> QED BY <2>1, FallsTaken
<1>6. Falls(reads', g, "begin", f) /\ f \in [0 .. Len(reads') -> Nat]
  <2>1. Falls(reads', g, "begin", f)
    BY <1>5
  <2> QED BY <2>1 DEF Falls
<1>7. /\ 0 \in 0 .. Len(reads) - 1 /\ Len(reads) - 1 \in 0 .. Len(reads) - 1
      /\ (Len(reads) - 1) + 1 = Len(reads) /\ 0 + 1 = 1
      /\ 0 \in 0 .. Len(reads) /\ 1 \in 0 .. Len(reads) /\ Len(reads) \in 0 .. Len(reads) /\ 1 <= Len(reads)
  BY <1>1
<1>8. f[0] = e[1] /\ f[Len(reads')] = e[Len(reads)]
  BY <1>1, <1>5, <1>7
<1>9. e[1] = start' /\ start' <= start /\ start' \in Nat
  BY <1>1, <1>2, <1>4, <1>5
<1>10. e[Len(reads)] <= e[1] /\ e[1] <= e[0] /\ e[Len(reads)] \in Nat
  BY <1>4, <1>7 DEF Falls
<1>11. sizes'.begin \in Nat /\ e[Len(reads)] = start' - sizes'.begin
  <2> DEFINE l == e[Len(reads)]
  <2>1. /\ l = start - sizes.begin /\ l \in Nat /\ l <= e[1] /\ e[1] = start' /\ e[0] = start
        /\ IF d = 0 /\ reads[1].kind = "begin" THEN e[1] + reads[1].size = e[0] ELSE e[1] = e[0]
    BY <1>4, <1>5, <1>9, <1>10
  <2> HIDE DEF l
  <2>2. CASE d = 0 /\ reads[1].kind = "begin"
    <3>1. start' + reads[1].size = start /\ l <= start'
      BY <2>1, <2>2
    <3>2. sizes'.begin = sizes.begin - reads[1].size
      BY <2>2
    <3> DEFINE x == start
               y == start'
               b == sizes.begin
               c == sizes'.begin
               n == reads[1].size
    <3>3. /\ x \in Nat /\ y \in Nat /\ b \in Nat /\ n \in Nat /\ l \in Nat
          /\ l = x - b /\ y + n = x /\ c = b - n /\ l <= y
      BY <1>1, <1>2, <1>9, <2>1, <3>1, <3>2
    <3> HIDE DEF x, y, b, c, n
    <3>4. c \in Nat /\ l = y - c
      BY <3>3
    <3> QED BY <3>4 DEF l, y, c
  <2>3. CASE ~(d = 0 /\ reads[1].kind = "begin")
    <3>1. start' = start /\ sizes'.begin = sizes.begin
      BY <2>1, <2>3
    <3>2. sizes'.begin \in Nat /\ l = start' - sizes'.begin
      BY <1>2, <2>1, <3>1
    <3> QED BY <3>2 DEF l
  <2> QED BY <2>2, <2>3
<1>12. "lowEnd" \notin mishaps => start >= 2 * Row
  BY <1>2, <1>4, <1>10
<1>13. ASSUME d = 0, reads[1].kind = "begin"
       PROVE  /\ reads[1].from = start' /\ start' + reads[1].size = start
              /\ "lowEnd" \notin mishaps => reads[1].size \in {Row, 2 * Row}
  <2>1. 1 \in d + 1 .. Len(reads)
    BY <1>1, <1>13
  <2>2. reads[1].from = e[1]
    BY <1>4, <1>13, <2>1
  <2>3. start' + reads[1].size = start
    BY <1>4, <1>5, <1>9, <1>13
  <2>4. ASSUME "lowEnd" \notin mishaps PROVE reads[1].size \in {Row, 2 * Row}
    <3> DEFINE S == 2 * Row
               x == e[0]
               y == e[1]
               w == e[Len(reads)]
               n == reads[1].size
    <3>1. x - w \in {0, Row, S} /\ y - w \in {0, Row, S}
      BY <1>4, <1>7, <2>4
    <3>2. y + n = x /\ n \in Nat \ {0} /\ S = Row + Row /\ Row \in Nat \ {0} /\ w \in Nat /\ x \in Nat /\ y \in Nat
      BY <1>1, <1>2, <1>5, <1>10, <1>13
    <3> HIDE DEF S, x, y, w, n
    <3>3. n \in {Row, S}
      BY <3>1, <3>2
    <3> QED BY <3>3 DEF S, n
  <2> QED BY <1>9, <2>2, <2>3, <2>4
<1>14. ASSUME NEW i \in g + 1 .. Len(reads'), reads'[i].kind = "begin" PROVE reads'[i].from = f[i]
  <2>1. g \in Nat /\ i \in 1 .. Len(reads') /\ i + 1 \in d + 1 .. Len(reads) /\ i \in 0 .. Len(reads) - 1
    BY <1>1
  <2>2. reads'[i] = reads[i + 1] /\ f[i] = e[i + 1]
    BY <1>1, <1>5, <2>1
  <2> QED BY <1>4, <1>14, <2>1, <2>2
<1>15. ASSUME "lowEnd" \notin mishaps, NEW i \in 0 .. Len(reads')
       PROVE  f[i] - f[Len(reads')] \in {0, Row, 2 * Row}
  <2>1. i \in 0 .. Len(reads) - 1 /\ i + 1 \in 0 .. Len(reads)
    BY <1>1
  <2>2. f[i] = e[i + 1] /\ e[i + 1] - e[Len(reads)] \in {0, Row, 2 * Row}
    BY <1>4, <1>5, <1>15, <2>1
  <2> QED BY <1>8, <2>2
<1>16. mishaps' = mishaps
  BY DEF memory
<1>17. PICK h : h = g
  OBVIOUS
<1>18. Begins(h, f)'
  BY <1>4, <1>6, <1>8, <1>9, <1>11, <1>14, <1>15, <1>16, <1>17 DEF Begins
<1>19. BeginKnown(g)'
  BY <1>6, <1>17, <1>18 DEF BeginKnown
<1> QED BY <1>9, <1>11, <1>12, <1>13, <1>19

\* What is under way for the window's end after the answers left.
LEMMA EndTaken ==
  ASSUME Requested, reads # <<>>, reads' = Tail(reads), UNCHANGED memory,
         NEW d \in 0 .. Len(reads), EndKnown(d), NEW g, g = (IF d = 0 THEN 0 ELSE d - 1),
         sizes'.end = IF d = 0 /\ reads[1].kind = "end" THEN sizes.end - reads[1].size ELSE sizes.end,
         (d = 0 /\ reads[1].kind = "end") \/ start' + Len(data') = start + Len(data)
  PROVE  /\ EndKnown(g)' /\ sizes'.end \in Nat
         /\ d = 0 /\ reads[1].kind = "end" =>
              /\ sizes.end = sizes'.end + reads[1].size
              /\ "ahead" \notin mishaps => reads[1].from = start + Len(data)
<1>1. /\ reads \in Seq(Requests) /\ Len(reads) \in Nat \ {0} /\ Len(reads') = Len(reads) - 1
      /\ \A i \in 1 .. Len(reads') : i + 1 \in 1 .. Len(reads) /\ reads'[i] = reads[i + 1]
      /\ reads[1].size \in Nat \ {0}
  BY FirstRead
<1>2. sizes.end \in Nat
  BY DEF Requested
<1>3. PICK e \in [0 .. Len(reads) -> Nat] : Ends(d, e)
  BY DEF EndKnown
<1>4. /\ Falls(reads, d, "end", e) /\ e[0] = sizes.end /\ e[Len(reads)] = 0
      /\ "ahead" \notin mishaps =>
           \A i \in d + 1 .. Len(reads) : reads[i].kind = "end" =>
             /\ reads[i].from = start + Len(data) /\ reads[i].size = sizes.end
             /\ \A j \in d + 1 .. Len(reads) : reads[j].kind = "end" => i = j
  BY <1>3 DEF Ends
<1>5. PICK f : /\ Falls(Tail(reads), IF d = 0 THEN 0 ELSE d - 1, "end", f)
               /\ \A i \in 0 .. Len(reads) - 1 : f[i] = e[i + 1]
               /\ e[0] \in Nat /\ e[1] \in Nat
               /\ IF d = 0 /\ reads[1].kind = "end" THEN e[1] + reads[1].size = e[0] ELSE e[1] = e[0]
  <2>1. reads \in Seq(Requests) /\ reads # <<>> /\ d \in 0 .. Len(reads) /\ Falls(reads, d, "end", e)
    BY <1>1, <1>4
  <2> QED BY <2>1, FallsTaken
<1>6. Falls(reads', g, "end", f) /\ f \in [0 .. Len(reads') -> Nat]
  <2>1. Falls(reads', g, "end", f)
    BY <1>5
  <2> QED BY <2>1 DEF Falls
<1>7. /\ 0 \in 0 .. Len(reads) - 1 /\ Len(reads) - 1 \in 0 .. Len(reads) - 1
      /\ (Len(reads) - 1) + 1 = Len(reads) /\ 0 + 1 = 1
  BY <1>1
<1>8. f[0] = e[1] /\ f[Len(reads')] = 0
  BY <1>1, <1>4, <1>5, <1>7
<1>9. e[1] = sizes'.end /\ sizes'.end \in Nat
  BY <1>1, <1>2, <1>4, <1>5
<1>10. ASSUME d = 0, reads[1].kind = "end"
       PROVE  /\ sizes.end = sizes'.end + reads[1].size
              /\ "ahead" \notin mishaps => reads[1].from = start + Len(data)
  <2>1. 1 \in d + 1 .. Len(reads)
    BY <1>1, <1>10
  <2> QED BY <1>4, <1>5, <1>9, <1>10, <2>1
<1>11. ASSUME "ahead" \notin mishaps, NEW i \in g + 1 .. Len(reads'), reads'[i].kind = "end"
       PROVE  /\ reads'[i].from = start' + Len(data') /\ reads'[i].size = sizes'.end
              /\ \A j \in g + 1 .. Len(reads') : reads'[j].kind = "end" => i = j
  <2>1. \A j \in g + 1 .. Len(reads') : j \in Int /\ j \in 1 .. Len(reads') /\ j + 1 \in d + 1 .. Len(reads)
    BY <1>1
  <2>2. \A j \in g + 1 .. Len(reads') : reads'[j] = reads[j + 1]
    BY <1>1, <2>1
  <2>3. /\ reads[i + 1].from = start + Len(data) /\ reads[i + 1].size = sizes.end
        /\ \A j \in d + 1 .. Len(reads) : reads[j].kind = "end" => i + 1 = j
    BY <1>4, <1>11, <2>1, <2>2
  <2>4. ~(d = 0 /\ reads[1].kind = "end")
    <3>1. SUFFICES ASSUME d = 0, reads[1].kind = "end" PROVE FALSE
      OBVIOUS
    <3>2. 1 \in d + 1 .. Len(reads)
      BY <1>1, <3>1
    <3>3. i + 1 = 1 /\ i \in 1 .. Len(reads')
      BY <2>1, <2>3, <3>1, <3>2
    <3> QED BY <3>3
  <2>5. ASSUME NEW j \in g + 1 .. Len(reads'), reads'[j].kind = "end" PROVE i = j
    <3>1. j + 1 \in d + 1 .. Len(reads) /\ reads[j + 1].kind = "end" /\ i \in Int /\ j \in Int
      BY <2>1, <2>2, <2>5
    <3>2. i + 1 = j + 1
      BY <2>3, <3>1
    <3> QED BY <3>1, <3>2
  <2>6. sizes'.end = sizes.end /\ start' + Len(data') = start + Len(data)
    BY <2>4
  <2> QED BY <2>2, <2>3, <2>5, <2>6
<1>12. mishaps' = mishaps
  BY DEF memory
<1>13. PICK h : h = g
  OBVIOUS
<1>14. Ends(h, f)'
  BY <1>6, <1>8, <1>9, <1>11, <1>12, <1>13 DEF Ends
<1>15. EndKnown(g)'
  BY <1>6, <1>13, <1>14 DEF EndKnown
<1> QED BY <1>9, <1>10, <1>15

\* Nothing is shown that was not; an assertion may have failed.
LEMMA Unshown ==
  ASSUME WindowInv, broken = "none", UNCHANGED <<start, data, text, memory>>,
         \/ broken' = "none" /\ Going'
         \/ broken' = "short" /\ "unreadable" \in mishaps
         \/ broken' = "lowEnd" /\ "lowEnd" \in mishaps
  PROVE  WindowInv'
<1>1. mishaps' = mishaps
  BY DEF memory
<1>2. ShowsMemory'
  BY <1>1 DEF WindowInv, ShowsMemory
<1>3. Excused' /\ (broken' = "none" => Going')
  BY <1>1 DEF Excused
<1> QED BY <1>2, <1>3 DEF WindowInv

(* An obsolete answer is left out. *)
LEMMA SkipStep ==
  ASSUME Going, reads # <<>>, reads' = Tail(reads), UNCHANGED <<start, data, text, sizes, memory>>,
         \/ reads[1].kind = "begin" /\ counts.skipBegin # 0 /\ counts' = [counts EXCEPT !.skipBegin = @ - 1]
         \/ reads[1].kind = "end" /\ counts.skipEnd # 0 /\ counts' = [counts EXCEPT !.skipEnd = @ - 1]
  PROVE  Going'
<1>1. Requested
  BY DEF Going
<1>2. PICK d \in 0 .. Len(reads) : Divided(d) /\ BeginKnown(d) /\ EndKnown(d)
  BY DEF Going
<1>3. /\ counts \in [reset : Nat, begin : Nat, end : Nat, skipBegin : Nat, skipEnd : Nat]
      /\ start \in 0 .. Top /\ data \in Seq(Nat) /\ sizes \in [begin : Nat, end : Nat]
      /\ start + Len(data) + sizes.end <= Top
  BY <1>1 DEF Requested
<1>4. /\ counts' \in [reset : Nat, begin : Nat, end : Nat, skipBegin : Nat, skipEnd : Nat]
      /\ counts'.reset = counts.reset /\ counts'.begin = counts.begin /\ counts'.end = counts.end
      /\ counts'.skipBegin = counts.skipBegin - (IF reads[1].kind = "begin" THEN 1 ELSE 0)
      /\ counts'.skipEnd = counts.skipEnd - (IF reads[1].kind = "end" THEN 1 ELSE 0)
      /\ reads[1].kind # "reset"
  <2>1. CASE reads[1].kind = "begin" /\ counts.skipBegin # 0 /\ counts' = [counts EXCEPT !.skipBegin = @ - 1]
    <3>1. counts.skipBegin - 1 \in Nat /\ counts.skipEnd \in Nat /\ counts.skipEnd - 0 = counts.skipEnd
      <4> DEFINE p == counts.skipBegin
                 q == counts.skipEnd
      <4>1. p \in Nat /\ q \in Nat /\ p # 0
        BY <1>3, <2>1
      <4> HIDE DEF p, q
      <4>2. p - 1 \in Nat /\ q \in Nat /\ q - 0 = q
        BY <4>1
      <4> QED BY <4>2 DEF p, q
    <3>2. counts' \in [reset : Nat, begin : Nat, end : Nat, skipBegin : Nat, skipEnd : Nat]
      BY <1>3, <2>1, <3>1
    <3>3. /\ counts'.reset = counts.reset /\ counts'.begin = counts.begin /\ counts'.end = counts.end
          /\ counts'.skipBegin = counts.skipBegin - 1 /\ counts'.skipEnd = counts.skipEnd
      BY <1>3, <2>1
    <3> QED BY <2>1, <3>1, <3>2, <3>3
  <2>2. CASE reads[1].kind = "end" /\ counts.skipEnd # 0 /\ counts' = [counts EXCEPT !.skipEnd = @ - 1]
    <3>1. counts.skipEnd - 1 \in Nat /\ counts.skipBegin \in Nat /\ counts.skipBegin - 0 = counts.skipBegin
      <4> DEFINE p == counts.skipEnd
                 q == counts.skipBegin
      <4>1. p \in Nat /\ q \in Nat /\ p # 0
        BY <1>3, <2>2
      <4> HIDE DEF p, q
      <4>2. p - 1 \in Nat /\ q \in Nat /\ q - 0 = q
        BY <4>1
      <4> QED BY <4>2 DEF p, q
    <3>2. counts' \in [reset : Nat, begin : Nat, end : Nat, skipBegin : Nat, skipEnd : Nat]
      BY <1>3, <2>2, <3>1
    <3>3. /\ counts'.reset = counts.reset /\ counts'.begin = counts.begin /\ counts'.end = counts.end
          /\ counts'.skipEnd = counts.skipEnd - 1 /\ counts'.skipBegin = counts.skipBegin
      BY <1>3, <2>2
    <3> QED BY <2>2, <3>1, <3>2, <3>3
  <2> QED BY <2>1, <2>2
<1>5. d # 0
  <2>1. SUFFICES ASSUME d = 0 PROVE FALSE
    OBVIOUS
  <2>2. counts.skipBegin = Number(reads, "begin", 1, d) /\ counts.skipEnd = Number(reads, "end", 1, d)
    BY <1>2 DEF Divided
  <2>3. \A k : Number(reads, k, 1, d) = 0
    <3> DEFINE o == 1
    <3>1. o \in Nat /\ d \in Nat /\ o > d
      BY <2>1
    <3> HIDE DEF o
    <3>2. \A k : Number(reads, k, o, d) = 0
      BY <3>1, NumberType
    <3> QED BY <3>2 DEF o
  <2> QED BY <2>2, <2>3
<1>6. d \in 1 .. Len(reads) /\ d - 1 = (IF d = 0 THEN 0 ELSE d - 1)
  BY <1>5
<1>7. Requested'
  BY <1>1, <1>3, <1>4, RequestedTaken
<1>8. Divided(d - 1)' /\ d - 1 \in 0 .. Len(reads')
  <2>1. counts.reset - 0 = counts.reset
    BY <1>3
  <2> QED BY <1>1, <1>2, <1>4, <1>6, <2>1, DividedSkipped
<1>9. BeginKnown(d - 1)'
  BY <1>1, <1>2, <1>5, <1>6, BeginTaken
<1>10. EndKnown(d - 1)'
  BY <1>1, <1>2, <1>5, <1>6, EndTaken
<1> DEFINE g == d - 1
<1>11. g \in 0 .. Len(reads') /\ Divided(g)' /\ BeginKnown(g)' /\ EndKnown(g)'
  BY <1>8, <1>9, <1>10
<1> HIDE DEF g
<1> QED BY <1>7, <1>11 DEF Going

\* The window is moved, or its move is obsolete.
LEMMA ResetStep ==
  ASSUME WindowInv, broken = "none", reads # <<>>, reads' = Tail(reads), UNCHANGED memory,
         reads[1].kind = "reset", AnswerReset(Read(reads[1].from, reads[1].size), reads[1])
  PROVE  WindowInv'
<1>1. Going /\ Requested
  BY DEF WindowInv, Going
<1>2. PICK d \in 0 .. Len(reads) : Divided(d) /\ BeginKnown(d) /\ EndKnown(d)
  BY <1>1 DEF Going
<1>3. /\ counts \in [reset : Nat, begin : Nat, end : Nat, skipBegin : Nat, skipEnd : Nat]
      /\ start \in 0 .. Top /\ data \in Seq(Nat) /\ sizes \in [begin : Nat, end : Nat]
      /\ start + Len(data) + sizes.end <= Top /\ Top \in Nat
  BY <1>1, Sizes DEF Requested
<1> DEFINE bytes == Read(reads[1].from, reads[1].size)
<1>4. /\ bytes \in Seq(Nat) /\ Len(bytes) \in Nat /\ bytes = Bytes(reads[1].from, Len(bytes))
      /\ Len(bytes) # reads[1].size => "unreadable" \in mishaps
  BY <1>1, FirstBytes
<1>5. AnswerReset(bytes, reads[1])
  OBVIOUS
<1> HIDE DEF bytes
<1>6. /\ Len(reads) \in Nat \ {0} /\ Len(reads') = Len(reads) - 1 /\ reads \in Seq(Requests)
      /\ reads[1].from \in Nat /\ reads[1].size \in Nat /\ reads[1].from + reads[1].size <= Top
      /\ "lowEnd" \notin mishaps => reads[1].from >= 2 * Row
  BY <1>1, FirstRead
<1>7. /\ counts.reset > 0 /\ d = Len(reads) /\ sizes.begin = 0 /\ sizes.end = 0
      /\ "again" \notin mishaps => text = <<>>
  <2>1. 1 \in 1 .. Len(reads)
    BY <1>6
  <2>2. Number(reads, "reset", 1, Len(reads)) > 0
    BY <1>6, <2>1, NumberType
  <2>3. counts.reset = Number(reads, "reset", 1, Len(reads))
    BY <1>2 DEF Divided
  <2> QED BY <1>2, <2>2, <2>3 DEF Divided
<1>8. /\ counts' = [counts EXCEPT !.reset = @ - 1] /\ sizes' = sizes
  BY <1>5 DEF AnswerReset
<1>9. /\ counts' \in [reset : Nat, begin : Nat, end : Nat, skipBegin : Nat, skipEnd : Nat]
      /\ counts'.reset = counts.reset - 1 /\ counts'.begin = counts.begin /\ counts'.end = counts.end
      /\ counts'.skipBegin = counts.skipBegin - 0 /\ counts'.skipEnd = counts.skipEnd - 0
  <2>1. counts.reset - 1 \in Nat /\ counts.skipBegin - 0 = counts.skipBegin /\ counts.skipEnd - 0 = counts.skipEnd
    BY <1>3, <1>7
  <2>2. counts' \in [reset : Nat, begin : Nat, end : Nat, skipBegin : Nat, skipEnd : Nat]
    BY <1>3, <1>8, <2>1
  <2>3. /\ counts'.reset = counts.reset - 1 /\ counts'.begin = counts.begin /\ counts'.end = counts.end
        /\ counts'.skipBegin = counts.skipBegin /\ counts'.skipEnd = counts.skipEnd
    BY <1>3, <1>8
  <2> QED BY <2>1, <2>2, <2>3
<1>10. mishaps' = mishaps
  BY DEF memory
<1>11. ASSUME counts'.reset > 0 => UNCHANGED text,
              start' \in 0 .. Top, data' \in Seq(Nat), start' + Len(data') <= Top,
              "lowEnd" \notin mishaps => start' >= 2 * Row
       PROVE  Going'
  <2>1. Requested'
    <3>1. sizes' \in [begin : Nat, end : Nat] /\ sizes'.end = 0 /\ Len(data') \in Nat
      BY <1>3, <1>7, <1>8, <1>11
    <3>2. start' + Len(data') + sizes'.end <= Top
      BY <1>11, <3>1, <1>3
    <3> QED BY <1>1, <1>9, <1>11, <3>1, <3>2, RequestedTaken
  <2>2. Divided(d - 1)' /\ d - 1 \in 0 .. Len(reads')
    <3>1. d \in 1 .. Len(reads)
      BY <1>6, <1>7
    <3>2. counts'.reset > 0 => UNCHANGED <<sizes, text>>
      BY <1>8, <1>11
    <3> QED BY <1>1, <1>2, <1>9, <3>1, <3>2, DividedSkipped
  <2>3. BeginKnown(Len(reads))' /\ EndKnown(Len(reads))'
    <3>1. sizes'.begin = 0 /\ sizes'.end = 0
      BY <1>7, <1>8
    <3>2. ("lowEnd" \notin mishaps => start >= 2 * Row \/ (reads = <<>> /\ start = Top /\ Top < 2 * Row))'
      BY <1>10, <1>11
    <3> QED BY <2>1, <3>1, <3>2, AllObsolete
  <2> DEFINE g == d - 1
  <2>4. g = Len(reads') /\ g \in 0 .. Len(reads') /\ Divided(g)'
    BY <1>6, <1>7, <2>2
  <2> HIDE DEF g
  <2>5. PICK h : h = g
    OBVIOUS
  <2>6. h = Len(reads') /\ h \in 0 .. Len(reads') /\ Divided(h)'
    BY <2>4, <2>5
  <2>7. BeginKnown(h)' /\ EndKnown(h)'
    BY <2>3, <2>6
  <2> QED BY <2>1, <2>6, <2>7 DEF Going
<1>12. CASE counts.reset > 1
  <2>1. start' = start /\ data' = data /\ text' = text /\ broken' = broken
    BY <1>5, <1>12 DEF AnswerReset
  <2>2. "lowEnd" \notin mishaps => start >= 2 * Row
    <3>1. PICK e \in [0 .. Len(reads) -> Nat] : Begins(d, e)
      BY <1>2 DEF BeginKnown
    <3>2. e[Len(reads)] = start - sizes.begin /\ ("lowEnd" \notin mishaps => e[Len(reads)] >= 2 * Row)
      BY <3>1 DEF Begins
    <3> QED BY <1>3, <1>7, <3>2
  <2>3. start + Len(data) <= Top
    BY <1>3, <1>7
  <2>4. Going'
    BY <1>3, <1>11, <2>1, <2>2, <2>3
  <2> QED BY <2>1, <2>4, Unshown
<1>13. CASE ~(counts.reset > 1) /\ Len(bytes) # reads[1].size
  <2>1. start' = start /\ data' = data /\ text' = text /\ broken' = "short"
    BY <1>5, <1>13 DEF AnswerReset
  <2> QED BY <1>4, <1>13, <2>1, Unshown
<1>14. CASE ~(counts.reset > 1) /\ Len(bytes) = reads[1].size
  <2>1. start' = reads[1].from /\ data' = bytes /\ AddBefore(bytes)
    BY <1>5, <1>14 DEF AnswerReset
  <2>2. data' = Bytes(start', Len(data'))
    BY <1>4, <2>1
  <2>3. CASE text # <<>> /\ Len(bytes) % Row # 0
    <3>1. broken' = "partialRow" /\ "again" \in mishaps
      BY <1>7, <2>1, <2>3 DEF AddBefore
    <3> QED BY <1>10, <2>2, <3>1 DEF WindowInv, ShowsMemory, Excused
  <2>4. CASE ~(text # <<>> /\ Len(bytes) % Row # 0)
    <3>1. text' = Rows(bytes) \o text /\ broken' = "none"
      BY <2>1, <2>4 DEF AddBefore
    <3>2. "again" \notin mishaps => text' = Rows(data')
      <4>1. Rows(bytes) \o <<>> = Rows(bytes)
        <5> DEFINE S == Seq(Nat)
        <5>1. Rows(bytes) \in Seq(S)
          BY <1>4, RowsAre
        <5> HIDE DEF S
        <5> QED BY <5>1
      <4> QED BY <1>7, <2>1, <3>1, <4>1
    <3>3. Going'
      <4>1. start' \in 0 .. Top /\ data' \in Seq(Nat) /\ start' + Len(data') <= Top
        <5>1. /\ reads[1].from \in Nat /\ reads[1].size = Len(bytes) /\ Len(bytes) \in Nat
              /\ reads[1].from + reads[1].size <= Top /\ start' = reads[1].from /\ data' = bytes
          BY <1>4, <1>6, <1>14, <2>1
        <5>2. start' \in Nat /\ start' <= Top /\ start' + Len(bytes) <= Top /\ data' = bytes
          <6> DEFINE a == reads[1].from
                     n == Len(bytes)
          <6>1. a \in Nat /\ n \in Nat /\ Top \in Nat /\ a + n <= Top
            BY <1>3, <5>1
          <6>2. start' = a /\ data' = bytes
            BY <5>1
          <6> HIDE DEF a
          <6>3. a <= Top
            BY <6>1
          <6> QED BY <6>1, <6>2, <6>3
        <5>3. start' \in 0 .. Top
          BY <1>3, <5>2
        <5> QED BY <1>4, <5>2, <5>3
      <4>2. ~(counts'.reset > 0)
        BY <1>3, <1>9, <1>14
      <4> QED BY <1>6, <1>11, <2>1, <4>1, <4>2
    <3> QED BY <1>10, <2>2, <3>1, <3>2, <3>3 DEF WindowInv, ShowsMemory, Excused
  <2> QED BY <2>3, <2>4
<1> QED BY <1>12, <1>13, <1>14

LEMMA WholeRows ==
  ASSUME NEW n, n \in {Row, 2 * Row}
  PROVE  n % Row = 0
<1>1. Row \in Nat \ {0} /\ Row * 1 = Row /\ Row * 2 = 2 * Row /\ Row - Row = 0
  BY Sizes
<1> DEFINE q == IF n = Row THEN 1 ELSE 2
<1>2. q \in Nat /\ n = Row * q /\ n \in Nat
  BY <1>1
<1> HIDE DEF q
<1> DEFINE m == Row * q
<1>3. m \in Nat /\ m = n
  BY <1>2
<1>4. n < m + Row /\ m <= n /\ n - m = 0
  BY <1>1, <1>2, <1>3
<1> QED BY <1>1, <1>2, <1>4, DivUnique

\* What the text becomes with rows before it or behind it.
LEMMA TextBefore ==
  ASSUME data \in Seq(Nat), NEW bytes \in Seq(Nat), text = Rows(data), text = <<>> \/ Len(bytes) % Row = 0
  PROVE  Rows(bytes) \o text = Rows(bytes \o data)
<1>1. CASE Len(bytes) % Row = 0
  BY <1>1, RowsJoined
<1>2. CASE text = <<>>
  <2>1. data = <<>>
    BY <1>2, RowsAre
  <2>2. bytes \o <<>> = bytes
    OBVIOUS
  <2>3. Rows(bytes) \o <<>> = Rows(bytes)
    <3> DEFINE S == Seq(Nat)
    <3>1. Rows(bytes) \in Seq(S)
      BY RowsAre
    <3> HIDE DEF S
    <3> QED BY <3>1
  <2> QED BY <1>2, <2>1, <2>2, <2>3
<1> QED BY <1>1, <1>2

\* Rows are added before the window.
LEMMA BeginStep ==
  ASSUME WindowInv, broken = "none", reads # <<>>, reads' = Tail(reads), UNCHANGED memory,
         reads[1].kind = "begin", AnswerBegin(Read(reads[1].from, reads[1].size), reads[1])
  PROVE  WindowInv'
<1>1. Going /\ Requested
  BY DEF WindowInv, Going
<1>2. PICK d \in 0 .. Len(reads) : Divided(d) /\ BeginKnown(d) /\ EndKnown(d)
  BY <1>1 DEF Going
<1>3. /\ counts \in [reset : Nat, begin : Nat, end : Nat, skipBegin : Nat, skipEnd : Nat]
      /\ start \in 0 .. Top /\ data \in Seq(Nat) /\ sizes \in [begin : Nat, end : Nat]
      /\ start + Len(data) + sizes.end <= Top /\ Top \in Nat
  BY <1>1, Sizes DEF Requested
<1> DEFINE bytes == Read(reads[1].from, reads[1].size)
<1>4. /\ bytes \in Seq(Nat) /\ Len(bytes) \in Nat /\ bytes = Bytes(reads[1].from, Len(bytes))
      /\ Len(bytes) # reads[1].size => "unreadable" \in mishaps
  BY <1>1, FirstBytes
<1>5. AnswerBegin(bytes, reads[1])
  OBVIOUS
<1> HIDE DEF bytes
<1>6. /\ Len(reads) \in Nat \ {0} /\ Len(reads') = Len(reads) - 1 /\ reads \in Seq(Requests)
      /\ reads[1].from \in Nat /\ reads[1].size \in Nat \ {0}
  BY <1>1, FirstRead
<1>7. mishaps' = mishaps
  BY DEF memory
<1>8. CASE Len(bytes) # reads[1].size
  <2>1. broken' = "short" /\ UNCHANGED <<start, data, text>>
    BY <1>5, <1>8 DEF AnswerBegin, Break
  <2> QED BY <1>4, <1>8, <2>1, Unshown
<1>9. CASE Len(bytes) = reads[1].size /\ counts.skipBegin # 0
  <2>1. /\ UNCHANGED <<start, data, text, sizes, broken>>
        /\ counts' = [counts EXCEPT !.skipBegin = @ - 1]
    BY <1>5, <1>9 DEF AnswerBegin, Skip
  <2>2. Going'
    BY <1>1, <1>9, <2>1, SkipStep
  <2> QED BY <2>1, <2>2, Unshown
<1>10. CASE Len(bytes) = reads[1].size /\ counts.skipBegin = 0
  <2>1. /\ counts' = [counts EXCEPT !.begin = @ - 1]
        /\ sizes' = [sizes EXCEPT !.begin = @ - reads[1].size]
        /\ start' = start - reads[1].size /\ data' = bytes \o data
        /\ AddBefore(bytes)
    BY <1>5, <1>10 DEF AnswerBegin
  <2>2. d = 0
    <3>1. SUFFICES ASSUME d # 0 PROVE FALSE
      OBVIOUS
    <3>2. counts.skipBegin = Number(reads, "begin", 1, d)
      BY <1>2 DEF Divided
    <3> DEFINE o == 1
    <3>3. o \in Nat /\ d \in Nat /\ o \in o .. d /\ reads[o].kind = "begin"
      BY <3>1
    <3> HIDE DEF o
    <3>4. Number(reads, "begin", o, d) > 0
      BY <3>3, NumberType
    <3> QED BY <1>10, <3>2, <3>4 DEF o
  <2>3. counts.reset = 0 /\ Divided(0)
    BY <1>2, <1>3, <1>6, <2>2 DEF Divided
  <2>4. /\ counts'.reset = 0 /\ counts'.skipBegin = counts.skipBegin /\ counts'.skipEnd = counts.skipEnd
        /\ counts'.begin = counts.begin - 1 /\ counts'.end = counts.end - 0
    <3>1. counts.end - 0 = counts.end
      BY <1>3
    <3>2. /\ counts'.reset = counts.reset /\ counts'.skipBegin = counts.skipBegin /\ counts'.skipEnd = counts.skipEnd
          /\ counts'.begin = counts.begin - 1 /\ counts'.end = counts.end
      BY <1>3, <2>1
    <3> QED BY <2>3, <3>1, <3>2
  <2>5. Divided(0)' /\ counts'.begin \in Nat
    BY <1>1, <2>3, <2>4, DividedTaken
  <2>6. counts' \in [reset : Nat, begin : Nat, end : Nat, skipBegin : Nat, skipEnd : Nat]
    <3>1. counts.begin - 1 \in Nat
      BY <2>4, <2>5
    <3> QED BY <1>3, <2>1, <3>1
  <2>7. sizes'.begin = sizes.begin - reads[1].size /\ sizes'.end = sizes.end
    BY <1>3, <2>1
  <2>8. /\ BeginKnown(0)' /\ start' \in Nat /\ start' <= start /\ sizes'.begin \in Nat
        /\ reads[1].from = start' /\ start' + reads[1].size = start
        /\ "lowEnd" \notin mishaps => reads[1].size \in {Row, 2 * Row}
    <3> DEFINE z == 0
    <3>1. z \in 0 .. Len(reads) /\ BeginKnown(z) /\ z = (IF z = 0 THEN 0 ELSE z - 1)
      BY <1>2, <1>6, <2>2
    <3>2. /\ start' = IF z = 0 /\ reads[1].kind = "begin" THEN start - reads[1].size ELSE start
          /\ sizes'.begin = IF z = 0 /\ reads[1].kind = "begin" THEN sizes.begin - reads[1].size ELSE sizes.begin
      BY <2>1, <2>7
    <3>3. z = 0
      OBVIOUS
    <3> HIDE DEF z
    <3>4. /\ BeginKnown(z)' /\ start' \in Nat /\ start' <= start /\ sizes'.begin \in Nat
          /\ z = 0 /\ reads[1].kind = "begin" =>
              /\ reads[1].from = start' /\ start' + reads[1].size = start
              /\ "lowEnd" \notin mishaps => reads[1].size \in {Row, 2 * Row}
      BY <1>1, <3>1, <3>2, BeginTaken
    <3> QED BY <3>3, <3>4 DEF z
  <2>9. data' \in Seq(Nat) /\ Len(data') = reads[1].size + Len(data) /\ Len(data) \in Nat
    <3>1. bytes \o data \in Seq(Nat) /\ Len(bytes \o data) = Len(bytes) + Len(data)
      BY <1>3, <1>4, ListsJoined
    <3>2. Len(data) \in Nat
      BY <1>3
    <3> QED BY <1>10, <2>1, <3>1, <3>2
  <2>10. start' + Len(data') = start + Len(data)
    <3>1. /\ start' \in Nat /\ reads[1].size \in Nat /\ Len(data) \in Nat
          /\ Len(data') = reads[1].size + Len(data) /\ start = start' + reads[1].size
      BY <1>6, <2>8, <2>9
    <3> QED BY <3>1
  <2>11. EndKnown(0)'
    <3> DEFINE z == 0
    <3>1. z \in 0 .. Len(reads) /\ EndKnown(z) /\ z = (IF z = 0 THEN 0 ELSE z - 1)
      BY <1>2, <1>6, <2>2
    <3>2. sizes'.end = IF z = 0 /\ reads[1].kind = "end" THEN sizes.end - reads[1].size ELSE sizes.end
      BY <2>7
    <3> HIDE DEF z
    <3>3. EndKnown(z)'
      BY <1>1, <2>10, <3>1, <3>2, EndTaken
    <3> QED BY <3>3 DEF z
  <2>12. Requested'
    <3>1. start' \in 0 .. Top
      BY <1>3, <2>8
    <3>2. sizes' \in [begin : Nat, end : Nat]
      <4>1. sizes.begin - reads[1].size \in Nat
        BY <2>7, <2>8
      <4> QED BY <1>3, <2>1, <4>1
    <3>3. start' + Len(data') + sizes'.end <= Top
      BY <1>3, <2>7, <2>10
    <3> QED BY <1>1, <2>6, <2>9, <3>1, <3>2, <3>3, RequestedTaken
  <2>13. Going'
    <3> DEFINE z == 0
    <3>1. z \in 0 .. Len(reads') /\ Divided(z)' /\ BeginKnown(z)' /\ EndKnown(z)'
      BY <1>6, <2>5, <2>8, <2>11
    <3> HIDE DEF z
    <3> QED BY <2>12, <3>1 DEF Going
  <2>14. "ahead" \notin mishaps => data' = Bytes(start', Len(data'))
    <3>1. SUFFICES ASSUME "ahead" \notin mishaps PROVE data' = Bytes(start', Len(data'))
      OBVIOUS
    <3>2. data = Bytes(start, Len(data))
      BY <3>1 DEF WindowInv, ShowsMemory
    <3>3. bytes = Bytes(start', reads[1].size)
      BY <1>4, <1>10, <2>8
    <3>4. data = Bytes(start' + reads[1].size, Len(data))
      BY <2>8, <3>2
    <3>5. Bytes(start', reads[1].size) \o Bytes(start' + reads[1].size, Len(data))
            = Bytes(start', reads[1].size + Len(data))
      BY <1>6, <2>8, <2>9, BytesJoined
    <3> QED BY <2>1, <2>9, <3>3, <3>4, <3>5
  <2>15. "again" \notin mishaps => text = Rows(data)
    BY DEF WindowInv, ShowsMemory
  <2>16. CASE text # <<>> /\ Len(bytes) % Row # 0
    <3>1. broken' = "partialRow"
      BY <2>1, <2>16 DEF AddBefore
    <3>2. "lowEnd" \in mishaps
      BY <1>10, <2>8, <2>16, WholeRows
    <3> QED BY <1>7, <2>14, <3>1, <3>2 DEF WindowInv, ShowsMemory, Excused
  <2>17. CASE ~(text # <<>> /\ Len(bytes) % Row # 0)
    <3>1. text' = Rows(bytes) \o text /\ broken' = "none"
      BY <2>1, <2>17 DEF AddBefore
    <3>2. "again" \notin mishaps => text' = Rows(data')
      BY <1>3, <1>4, <2>1, <2>15, <2>17, <3>1, TextBefore
    <3> QED BY <1>7, <2>13, <2>14, <3>1, <3>2 DEF WindowInv, ShowsMemory, Excused
  <2> QED BY <2>16, <2>17
<1> QED BY <1>8, <1>9, <1>10

\* Rows are added behind the window, the first of them to its last one.
LEMMA EndStep ==
  ASSUME WindowInv, broken = "none", reads # <<>>, reads' = Tail(reads), UNCHANGED memory,
         reads[1].kind = "end", AnswerEnd(Read(reads[1].from, reads[1].size), reads[1])
  PROVE  WindowInv'
<1>1. Going /\ Requested
  BY DEF WindowInv, Going
<1>2. PICK d \in 0 .. Len(reads) : Divided(d) /\ BeginKnown(d) /\ EndKnown(d)
  BY <1>1 DEF Going
<1>3. /\ counts \in [reset : Nat, begin : Nat, end : Nat, skipBegin : Nat, skipEnd : Nat]
      /\ start \in 0 .. Top /\ data \in Seq(Nat) /\ sizes \in [begin : Nat, end : Nat]
      /\ start + Len(data) + sizes.end <= Top /\ Top \in Nat
  BY <1>1, Sizes DEF Requested
<1> DEFINE bytes == Read(reads[1].from, reads[1].size)
<1>4. /\ bytes \in Seq(Nat) /\ Len(bytes) \in Nat /\ bytes = Bytes(reads[1].from, Len(bytes))
      /\ Len(bytes) # reads[1].size => "unreadable" \in mishaps
  BY <1>1, FirstBytes
<1>5. AnswerEnd(bytes, reads[1])
  OBVIOUS
<1> HIDE DEF bytes
<1>6. /\ Len(reads) \in Nat \ {0} /\ Len(reads') = Len(reads) - 1 /\ reads \in Seq(Requests)
      /\ reads[1].from \in Nat /\ reads[1].size \in Nat \ {0} /\ reads[1].size <= 2 * Row
  BY <1>1, FirstRead
<1>7. mishaps' = mishaps
  BY DEF memory
<1>8. CASE Len(bytes) # reads[1].size
  <2>1. broken' = "short" /\ UNCHANGED <<start, data, text>>
    BY <1>5, <1>8 DEF AnswerEnd, Break
  <2> QED BY <1>4, <1>8, <2>1, Unshown
<1>9. CASE Len(bytes) = reads[1].size /\ counts.skipEnd # 0
  <2>1. /\ UNCHANGED <<start, data, text, sizes, broken>>
        /\ counts' = [counts EXCEPT !.skipEnd = @ - 1]
    BY <1>5, <1>9 DEF AnswerEnd, Skip
  <2>2. Going'
    BY <1>1, <1>9, <2>1, SkipStep
  <2> QED BY <2>1, <2>2, Unshown
<1>10. CASE Len(bytes) = reads[1].size /\ counts.skipEnd = 0 /\ start < reads[1].size
  <2>1. broken' = "lowEnd" /\ UNCHANGED <<start, data, text>>
    BY <1>5, <1>10 DEF AnswerEnd, Break
  <2>2. "lowEnd" \in mishaps
    <3>1. SUFFICES ASSUME "lowEnd" \notin mishaps PROVE FALSE
      OBVIOUS
    <3>2. PICK e \in [0 .. Len(reads) -> Nat] : Begins(d, e)
      BY <1>2 DEF BeginKnown
    <3>3. e[Len(reads)] >= 2 * Row /\ e[Len(reads)] = start - sizes.begin
      BY <3>1, <3>2 DEF Begins
    <3> DEFINE S == 2 * Row
               x == start
               b == sizes.begin
               n == reads[1].size
    <3>4. S \in Nat /\ x \in Nat /\ b \in Nat /\ n \in Nat
      BY <1>3, <1>6, Sizes
    <3>5. x - b >= S /\ n <= S /\ x < n
      BY <1>6, <1>10, <3>3
    <3> HIDE DEF S, x, b, n
    <3> QED BY <3>4, <3>5
  <2> QED BY <2>1, <2>2, Unshown
<1>11. CASE Len(bytes) = reads[1].size /\ counts.skipEnd = 0 /\ ~(start < reads[1].size)
  <2>1. /\ counts' = [counts EXCEPT !.end = @ - 1]
        /\ sizes' = [sizes EXCEPT !.end = @ - reads[1].size]
        /\ start' = start /\ data' = data \o bytes
        /\ IF data = <<>> THEN AddBefore(bytes) ELSE AddAfter(bytes)
    BY <1>5, <1>11 DEF AnswerEnd
  <2>2. d = 0
    <3>1. SUFFICES ASSUME d # 0 PROVE FALSE
      OBVIOUS
    <3>2. counts.skipEnd = Number(reads, "end", 1, d)
      BY <1>2 DEF Divided
    <3> DEFINE o == 1
    <3>3. o \in Nat /\ d \in Nat /\ o \in o .. d /\ reads[o].kind = "end"
      BY <3>1
    <3> HIDE DEF o
    <3>4. Number(reads, "end", o, d) > 0
      BY <3>3, NumberType
    <3> QED BY <1>11, <3>2, <3>4 DEF o
  <2>3. counts.reset = 0 /\ Divided(0)
    BY <1>2, <1>3, <1>6, <2>2 DEF Divided
  <2>4. /\ counts'.reset = 0 /\ counts'.skipBegin = counts.skipBegin /\ counts'.skipEnd = counts.skipEnd
        /\ counts'.end = counts.end - 1 /\ counts'.begin = counts.begin - 0
    <3>1. counts.begin - 0 = counts.begin
      BY <1>3
    <3>2. /\ counts'.reset = counts.reset /\ counts'.skipBegin = counts.skipBegin /\ counts'.skipEnd = counts.skipEnd
          /\ counts'.end = counts.end - 1 /\ counts'.begin = counts.begin
      BY <1>3, <2>1
    <3> QED BY <2>3, <3>1, <3>2
  <2>5. Divided(0)' /\ counts'.end \in Nat
    BY <1>1, <2>3, <2>4, DividedTaken
  <2>6. counts' \in [reset : Nat, begin : Nat, end : Nat, skipBegin : Nat, skipEnd : Nat]
    <3>1. counts.end - 1 \in Nat
      BY <2>4, <2>5
    <3> QED BY <1>3, <2>1, <3>1
  <2>7. sizes'.end = sizes.end - reads[1].size /\ sizes'.begin = sizes.begin
    BY <1>3, <2>1
  <2>8. BeginKnown(0)'
    <3> DEFINE z == 0
    <3>1. z \in 0 .. Len(reads) /\ BeginKnown(z) /\ z = (IF z = 0 THEN 0 ELSE z - 1)
      BY <1>2, <1>6, <2>2
    <3>2. /\ start' = IF z = 0 /\ reads[1].kind = "begin" THEN start - reads[1].size ELSE start
          /\ sizes'.begin = IF z = 0 /\ reads[1].kind = "begin" THEN sizes.begin - reads[1].size ELSE sizes.begin
      BY <2>1, <2>7
    <3> HIDE DEF z
    <3>3. BeginKnown(z)'
      BY <1>1, <3>1, <3>2, BeginTaken
    <3> QED BY <3>3 DEF z
  <2>9. data' \in Seq(Nat) /\ Len(data') = Len(data) + reads[1].size /\ Len(data) \in Nat
    <3>1. data \o bytes \in Seq(Nat) /\ Len(data \o bytes) = Len(data) + Len(bytes)
      BY <1>3, <1>4, ListsJoined
    <3>2. Len(data) \in Nat
      BY <1>3
    <3> QED BY <1>11, <2>1, <3>1, <3>2
  <2>10. /\ EndKnown(0)' /\ sizes'.end \in Nat /\ sizes.end = sizes'.end + reads[1].size
         /\ "ahead" \notin mishaps => reads[1].from = start + Len(data)
    <3> DEFINE z == 0
    <3>1. z \in 0 .. Len(reads) /\ EndKnown(z) /\ z = (IF z = 0 THEN 0 ELSE z - 1) /\ z = 0
      BY <1>2, <1>6, <2>2
    <3>2. sizes'.end = IF z = 0 /\ reads[1].kind = "end" THEN sizes.end - reads[1].size ELSE sizes.end
      BY <2>7
    <3> HIDE DEF z
    <3>3. /\ EndKnown(z)' /\ sizes'.end \in Nat
          /\ z = 0 /\ reads[1].kind = "end" =>
               /\ sizes.end = sizes'.end + reads[1].size
               /\ "ahead" \notin mishaps => reads[1].from = start + Len(data)
      BY <1>1, <3>1, <3>2, EndTaken
    <3> QED BY <3>1, <3>3 DEF z
  <2>11. Requested'
    <3>1. sizes' \in [begin : Nat, end : Nat]
      <4>1. sizes.end - reads[1].size \in Nat
        BY <2>7, <2>10
      <4> QED BY <1>3, <2>1, <4>1
    <3>2. start' + Len(data') + sizes'.end <= Top
      <4>1. /\ start \in Nat /\ Len(data) \in Nat /\ reads[1].size \in Nat /\ sizes'.end \in Nat /\ Top \in Nat
            /\ start + Len(data) + sizes.end <= Top /\ sizes.end = sizes'.end + reads[1].size
            /\ Len(data') = Len(data) + reads[1].size /\ start' = start
        <5>1. start \in Nat /\ Len(data) \in Nat /\ Top \in Nat /\ start + Len(data) + sizes.end <= Top
          BY <1>3
        <5>2. reads[1].size \in Nat /\ sizes'.end \in Nat /\ sizes.end = sizes'.end + reads[1].size
          BY <1>6, <2>10
        <5>3. Len(data') = Len(data) + reads[1].size /\ start' = start
          BY <2>1, <2>9
        <5> QED BY <5>1, <5>2, <5>3
      <4> DEFINE a == Len(data)
                 b == Len(data')
                 c == sizes'.end
                 n == reads[1].size
      <4>2. /\ start \in Nat /\ a \in Nat /\ n \in Nat /\ c \in Nat /\ Top \in Nat
            /\ start + a + (c + n) <= Top /\ b = a + n /\ start' = start
        BY <4>1
      <4> HIDE DEF a, b, c, n
      <4>3. start' + b + c <= Top
        BY <4>2
      <4> QED BY <4>3 DEF b, c
    <3> QED BY <1>1, <1>3, <2>1, <2>6, <2>9, <3>1, <3>2, RequestedTaken
  <2>12. Going'
    <3> DEFINE z == 0
    <3>1. z \in 0 .. Len(reads') /\ Divided(z)' /\ BeginKnown(z)' /\ EndKnown(z)'
      BY <1>6, <2>5, <2>8, <2>10
    <3> HIDE DEF z
    <3> QED BY <2>11, <3>1 DEF Going
  <2>13. "ahead" \notin mishaps => data' = Bytes(start', Len(data'))
    <3>1. SUFFICES ASSUME "ahead" \notin mishaps PROVE data' = Bytes(start', Len(data'))
      OBVIOUS
    <3>2. data = Bytes(start, Len(data))
      BY <3>1 DEF WindowInv, ShowsMemory
    <3>3. bytes = Bytes(start + Len(data), reads[1].size)
      BY <1>4, <1>11, <2>10, <3>1
    <3>4. start \in Nat /\ Len(data) \in Nat /\ reads[1].size \in Nat
      BY <1>3, <1>6
    <3>5. Bytes(start, Len(data)) \o Bytes(start + Len(data), reads[1].size)
            = Bytes(start, Len(data) + reads[1].size)
      BY <3>4, BytesJoined
    <3>6. data \o bytes = Bytes(start, Len(data) + reads[1].size)
      BY <3>2, <3>3, <3>5
    <3> QED BY <2>1, <2>9, <3>6
  <2>14. "again" \notin mishaps => text = Rows(data)
    BY DEF WindowInv, ShowsMemory
  <2>15. CASE data = <<>>
    <3>1. AddBefore(bytes) /\ bytes \o data = bytes /\ data \o bytes = bytes
      BY <1>4, <2>1, <2>15
    <3>2. "again" \notin mishaps => text = <<>>
      BY <1>3, <2>14, <2>15, RowsAre
    <3>3. CASE text # <<>> /\ Len(bytes) % Row # 0
      <4>1. broken' = "partialRow" /\ "again" \in mishaps
        BY <3>1, <3>2, <3>3 DEF AddBefore
      <4> QED BY <1>7, <2>13, <4>1 DEF WindowInv, ShowsMemory, Excused
    <3>4. CASE ~(text # <<>> /\ Len(bytes) % Row # 0)
      <4>1. text' = Rows(bytes) \o text /\ broken' = "none"
        BY <3>1, <3>4 DEF AddBefore
      <4>2. "again" \notin mishaps => text' = Rows(data')
        <5>1. "again" \notin mishaps => Rows(bytes) \o text = Rows(bytes \o data)
          BY <1>3, <1>4, <2>14, <3>2, TextBefore
        <5> QED BY <2>1, <3>1, <4>1, <5>1
      <4> QED BY <1>7, <2>12, <2>13, <4>1, <4>2 DEF WindowInv, ShowsMemory, Excused
    <3> QED BY <3>3, <3>4
  <2>16. CASE data # <<>>
    <3>1. /\ text' = IF Len(data) % Row = 0 THEN text \o Rows(bytes)
                     ELSE Front(text) \o Rows(Last(text) \o bytes)
          /\ broken' = "none"
      BY <2>1, <2>16 DEF AddAfter
    <3>2. "again" \notin mishaps => text' = Rows(data')
      <4>1. SUFFICES ASSUME "again" \notin mishaps PROVE text' = Rows(data \o bytes)
        BY <2>1
      <4>2. text = Rows(data)
        BY <2>14, <4>1
      <4>3. CASE Len(data) % Row = 0
        BY <1>3, <1>4, <3>1, <4>2, <4>3, RowsJoined, Zenon
      <4>4. CASE Len(data) % Row # 0
        BY <1>3, <1>4, <3>1, <4>2, <4>4, RowsContinued, Zenon
      <4> QED BY <4>3, <4>4
    <3> QED BY <1>7, <2>12, <2>13, <3>1, <3>2 DEF WindowInv, ShowsMemory, Excused
  <2> QED BY <2>15, <2>16
<1> QED BY <1>8, <1>9, <1>10, <1>11

(* A read is answered. *)
LEMMA DeliverStep == WindowInv /\ Deliver => WindowInv'
<1> SUFFICES ASSUME WindowInv, Deliver PROVE WindowInv'
  OBVIOUS
<1>1. /\ broken = "none" /\ reads # <<>> /\ reads' = Tail(reads) /\ UNCHANGED memory
  BY DEF Deliver
<1>2. Requested
  BY <1>1 DEF WindowInv, Going
<1>3. Head(reads) = reads[1] /\ reads[1].kind \in {"reset", "begin", "end"}
  BY <1>1, <1>2, FirstRead
<1>4. CASE reads[1].kind = "reset"
  <2>1. AnswerReset(Read(reads[1].from, reads[1].size), reads[1])
    BY <1>3, <1>4 DEF Deliver
  <2> QED BY <1>1, <1>4, <2>1, ResetStep
<1>5. CASE reads[1].kind = "begin"
  <2>1. AnswerBegin(Read(reads[1].from, reads[1].size), reads[1])
    BY <1>3, <1>5 DEF Deliver
  <2> QED BY <1>1, <1>5, <2>1, BeginStep
<1>6. CASE reads[1].kind = "end"
  <2>1. AnswerEnd(Read(reads[1].from, reads[1].size), reads[1])
    BY <1>3, <1>6 DEF Deliver
  <2> QED BY <1>1, <1>6, <2>1, EndStep
<1> QED BY <1>3, <1>4, <1>5, <1>6

-----------------------------------------------------------------------------
(* Every step of the program. *)
LEMMA WindowSame ==
  ASSUME WindowInv, UNCHANGED <<start, data, text, reads, counts, sizes, broken, memory>>
  PROVE  WindowInv'
<1>1. mishaps' = mishaps /\ readable' = readable
  BY DEF memory
<1>2. ASSUME NEW d \in 0 .. Len(reads), Divided(d), BeginKnown(d), EndKnown(d)
      PROVE  d \in 0 .. Len(reads') /\ Divided(d)' /\ BeginKnown(d)' /\ EndKnown(d)'
  <2>1. d \in 0 .. Len(reads') /\ Divided(d)'
    BY <1>1, <1>2 DEF Divided
  <2>2. BeginKnown(d)'
    BY <1>1, <1>2 DEF BeginKnown, Begins
  <2>3. EndKnown(d)'
    BY <1>1, <1>2 DEF EndKnown, Ends
  <2> QED BY <2>1, <2>2, <2>3
<1>3. Requested => Requested'
  BY <1>1 DEF Requested
<1>4. Going => Going'
  BY <1>2, <1>3 DEF Going
<1>5. ShowsMemory' /\ Excused'
  BY <1>1 DEF WindowInv, ShowsMemory, Excused
<1> QED BY <1>4, <1>5 DEF WindowInv

LEMMA WindowStep == WindowInv /\ [Next]_vars => WindowInv'
<1> SUFFICES ASSUME WindowInv, [Next]_vars PROVE WindowInv'
  OBVIOUS
<1>1. ASSUME UNCHANGED <<start, data, text, broken, memory>>, broken = "none", Going' PROVE WindowInv'
  <2>1. UNCHANGED <<start, data, text, memory>> /\ broken' = "none"
    BY <1>1
  <2> QED BY <1>1, <2>1, Unshown
<1>2. ASSUME broken = "none" PROVE Going
  BY <1>2 DEF WindowInv
<1>3. CASE MoveWindow
  <2>1. broken = "none" /\ UNCHANGED <<start, data, text, broken, memory>>
    BY <1>3 DEF MoveWindow, Window, Reset, Unchanging
  <2> QED BY <1>1, <1>2, <1>3, <2>1, MoveStep
<1>4. CASE ExtendBefore
  <2>1. broken = "none" /\ UNCHANGED <<start, data, text, broken, memory>>
    BY <1>4 DEF ExtendBefore, Window, FetchBegin, Unchanging
  <2> QED BY <1>1, <1>2, <1>4, <2>1, BeforeStep
<1>5. CASE ExtendAfter
  <2>1. broken = "none" /\ UNCHANGED <<start, data, text, broken, memory>>
    BY <1>5 DEF ExtendAfter, Window, FetchEnd, Unchanging
  <2> QED BY <1>1, <1>2, <1>5, <2>1, AfterStep
<1>6. CASE Deliver
  BY <1>6, DeliverStep
<1>7. CASE ReadMemory \/ Disassemble \/ UNCHANGED vars
  <2>1. UNCHANGED <<start, data, text, reads, counts, sizes, broken, memory>>
    BY <1>7 DEF ReadMemory, Disassemble, vars, window
  <2> QED BY <2>1, WindowSame
<1> QED BY <1>3, <1>4, <1>5, <1>6, <1>7 DEF Next

(* The invariant implies what the runs check. *)
LEMMA WindowInvSound == WindowInv => WindowSound
<1> SUFFICES ASSUME WindowInv PROVE WindowSound
  OBVIOUS
<1>1. ASSUME broken = "none" PROVE Counted
  <2>1. PICK d \in 0 .. Len(reads) : Divided(d)
    BY <1>1 DEF WindowInv, Going
  <2>2. /\ reads \in Seq(Requests)
        /\ counts \in [reset : Nat, begin : Nat, end : Nat, skipBegin : Nat, skipEnd : Nat]
    BY <1>1 DEF WindowInv, Going, Requested
  <2>3. Len(reads) \in Nat /\ DOMAIN reads = 1 .. Len(reads)
    BY <2>2
  <2>4. \A k : Under(k) = Number(reads, k, 1, Len(reads))
    <3>1. ASSUME NEW k PROVE Under(k) = Number(reads, k, 1, Len(reads))
      <4>1. {i \in DOMAIN reads : reads[i].kind = k} = Of(reads, k, 1, Len(reads))
        BY <2>3 DEF Of
      <4> QED BY <4>1 DEF Under, Number
    <3> QED BY <3>1
  <2>5. \A k : Number(reads, k, 1, Len(reads)) = Number(reads, k, 1, d) + Number(reads, k, d + 1, Len(reads))
    BY <2>3, NumberParts
  <2>6. /\ counts.reset = Number(reads, "reset", 1, Len(reads))
        /\ counts.skipBegin = Number(reads, "begin", 1, d)
        /\ counts.skipEnd = Number(reads, "end", 1, d)
        /\ counts.begin = Number(reads, "begin", d + 1, Len(reads))
        /\ counts.end = Number(reads, "end", d + 1, Len(reads))
    BY <2>1 DEF Divided
  <2>7. counts.begin + counts.skipBegin = counts.skipBegin + counts.begin
        /\ counts.end + counts.skipEnd = counts.skipEnd + counts.end
    BY <2>2
  <2> QED BY <2>4, <2>5, <2>6, <2>7 DEF Counted
<1> DEFINE Fails(m) == CASE m = "unreadable" -> {"short"} [] m = "lowEnd" -> {"lowEnd", "partialRow"}
                       [] m = "again" -> {"partialRow"} [] OTHER -> {}
           U == UNION {Fails(m) : m \in mishaps}
<1>2. broken \in {"none"} \cup U
  <2>1. \A m \in mishaps : Fails(m) \subseteq U
    OBVIOUS
  <2>2. "short" \in Fails("unreadable") /\ "lowEnd" \in Fails("lowEnd") /\ "partialRow" \in Fails("lowEnd")
        /\ "partialRow" \in Fails("again")
    OBVIOUS
  <2> HIDE DEF U, Fails
  <2>3. /\ broken \in {"none", "short", "lowEnd", "partialRow"}
        /\ broken = "short" => "unreadable" \in mishaps
        /\ broken = "lowEnd" => "lowEnd" \in mishaps
        /\ broken = "partialRow" => "lowEnd" \in mishaps \/ "again" \in mishaps
    BY DEF WindowInv, Excused
  <2>4. CASE broken = "none"
    BY <2>4
  <2>5. CASE broken = "short"
    BY <2>1, <2>2, <2>3, <2>5
  <2>6. CASE broken = "lowEnd"
    BY <2>1, <2>2, <2>3, <2>6
  <2>7. CASE broken = "partialRow"
    BY <2>1, <2>2, <2>3, <2>7
  <2> QED BY <2>3, <2>4, <2>5, <2>6, <2>7
<1> QED BY <1>1, <1>2 DEF WindowInv, ShowsMemory, WindowSound

LEMMA AlwaysWindow == WorkbenchSpec => []WindowInv
<1>1. WorkbenchInit => WindowInv
  BY InitWindow DEF WorkbenchInit
<1>2. WindowInv /\ [WorkbenchNext]_workbenchVars => WindowInv'
  <2> SUFFICES ASSUME WindowInv, [WorkbenchNext]_workbenchVars PROVE WindowInv'
    OBVIOUS
  <2>1. [Next]_vars
    BY DEF WorkbenchNext, workbenchVars
  <2> QED BY <2>1, WindowStep
<1> QED BY <1>1, <1>2, PTL DEF WorkbenchSpec

(* Whatever was asked for, skipped or refused meanwhile: the window's bytes *)
(* are the memory at its address, unless it was extended at its end while   *)
(* that was being extended ("ahead": its bytes may then have gaps, which is *)
(* how the code behaves); its text is those bytes row by row, unless it was *)
(* moved a second time ("again") or the assertion on a partial row failed;  *)
(* and in every scenario the fetcher's numbers of operations are those of   *)
(* the reads under way until an assertion fails, and only those assertions  *)
(* fail that a mishap is named for. For every size of memory, of its pages  *)
(* and of the rows, every number of reads and every set of scenarios        *)
(* (async_data_fetcher, with the hexadecimal text over it).                 *)
THEOREM WindowShowsMemory == WorkbenchSpec => []WindowSound
BY AlwaysWindow, WindowInvSound, PTL

-----------------------------------------------------------------------------
(* What a client reads. A list of bytes that fits is the one that is read. *)
LEMMA ReadTold ==
  ASSUME NEW a \in Nat, NEW n \in Nat, NEW m \in 0 .. n,
         \A i \in 0 .. m - 1 : CanRead(a + i), m = n \/ ~CanRead(a + m)
  PROVE  Read(a, n) = Bytes(a, m)
<1> DEFINE l == Len(Read(a, n))
<1>1. /\ l \in 0 .. n /\ Read(a, n) = Bytes(a, l)
      /\ \A i \in 0 .. l - 1 : CanRead(a + i)
      /\ l < n => ~CanRead(a + l)
  BY ReadEnds
<1> HIDE DEF l
<1>2. CASE l < m
  <2>1. l \in 0 .. m - 1 /\ l < n
    BY <1>1, <1>2
  <2> QED BY <1>1, <2>1
<1>3. CASE m < l
  <2>1. m \in 0 .. l - 1 /\ m # n
    BY <1>1, <1>3
  <2> QED BY <1>1, <2>1
<1>4. l = m
  BY <1>1, <1>2, <1>3
<1> QED BY <1>1, <1>4

(* A read in two parts, of which the second counts when the first is whole. *)
LEMMA ReadParts ==
  ASSUME NEW a \in Nat, NEW n \in Nat, NEW m \in 0 .. n
  PROVE  /\ Len(Read(a, m)) < m => Read(a, n) = Read(a, m)
         /\ Len(Read(a, m)) = m => Read(a, n) = Read(a, m) \o Read(a + m, n - m)
<1> DEFINE l == Len(Read(a, m))
<1>1. m \in Nat
  OBVIOUS
<1>2. /\ l \in 0 .. m /\ Read(a, m) = Bytes(a, l)
      /\ \A i \in 0 .. l - 1 : CanRead(a + i)
      /\ l < m => ~CanRead(a + l)
  BY <1>1, ReadEnds
<1> HIDE DEF l
<1>3. ASSUME l < m PROVE Read(a, n) = Read(a, m)
  <2>1. l \in 0 .. n /\ ~CanRead(a + l)
    BY <1>2, <1>3
  <2>2. Read(a, n) = Bytes(a, l)
    BY <1>2, <2>1, ReadTold
  <2> QED BY <1>2, <2>2
<1>4. ASSUME l = m PROVE Read(a, n) = Read(a, m) \o Read(a + m, n - m)
  <2> DEFINE b == a + m
             r == n - m
             k == Len(Read(b, r))
  <2>1. b \in Nat /\ r \in Nat
    OBVIOUS
  <2> HIDE DEF b, r
  <2>2. /\ k \in 0 .. r /\ Read(b, r) = Bytes(b, k)
        /\ \A i \in 0 .. k - 1 : CanRead(b + i)
        /\ k < r => ~CanRead(b + k)
    BY <2>1, ReadEnds
  <2> HIDE DEF k
  <2>3. m + k \in 0 .. n /\ m + k \in Nat /\ (m + k = n \/ k < r)
    BY <2>2 DEF r
  <2>4. ASSUME NEW i \in 0 .. (m + k) - 1 PROVE CanRead(a + i)
    <3>1. CASE i < m
      <4>1. i \in 0 .. l - 1
        BY <1>4, <3>1
      <4> QED BY <1>2, <4>1
    <3>2. CASE i >= m
      <4> DEFINE j == i - m
      <4>1. j \in 0 .. k - 1 /\ b + j = a + i
        BY <2>2, <3>2 DEF b
      <4> HIDE DEF j
      <4>2. CanRead(b + j)
        BY <2>2, <4>1
      <4> QED BY <4>1, <4>2
    <3> QED BY <3>1, <3>2
  <2>5. m + k = n \/ ~CanRead(a + (m + k))
    <3>1. b + k = a + (m + k)
      BY <2>2 DEF b
    <3> QED BY <2>2, <2>3, <3>1
  <2> DEFINE x == m + k
  <2>6. x \in 0 .. n /\ (\A i \in 0 .. x - 1 : CanRead(a + i)) /\ (x = n \/ ~CanRead(a + x))
    BY <2>3, <2>4, <2>5
  <2> HIDE DEF x
  <2>7. Read(a, n) = Bytes(a, x)
    BY <2>6, ReadTold
  <2>8. Bytes(a, m) \o Bytes(b, k) = Bytes(a, x)
    <3>1. k \in Nat
      BY <2>2
    <3>2. Bytes(a, m) \o Bytes(a + m, k) = Bytes(a, m + k)
      BY <1>1, <3>1, BytesJoined
    <3> QED BY <3>2 DEF b, x
  <2>9. Read(a, m) = Bytes(a, m)
    BY <1>2, <1>4
  <2>10. Read(a, n) = Read(a, m) \o Read(b, r)
    BY <2>2, <2>7, <2>8, <2>9
  <2> QED BY <2>10 DEF b, r
<1> QED BY <1>3, <1>4 DEF l

(* Unsigned subtraction. *)
LEMMA RemainderIs ==
  ASSUME NEW a \in 0 .. Top, NEW b \in 0 .. Top
  PROVE  /\ Remainder(a, b) \in 0 .. Top
         /\ b <= a => Remainder(a, b) = a - b
         /\ a < b => Remainder(a, b) = a - b + Top + 1
<1> DEFINE r == Top + 1
<1>1. r \in Nat \ {0} /\ Top \in Nat /\ r * 0 = 0
  BY Sizes
<1>2. ASSUME b <= a PROVE Remainder(a, b) = a - b
  <2> DEFINE n == a - b
  <2>1. n \in Nat /\ r * 0 <= n /\ n < r * 0 + r
    BY <1>1, <1>2
  <2> HIDE DEF n, r
  <2>2. n % r = n - r * 0
    BY <1>1, <2>1, DivUnique
  <2>3. n % r = n
    BY <1>1, <2>1, <2>2
  <2> QED BY <2>3 DEF Remainder, n, r
<1>3. ASSUME a < b PROVE Remainder(a, b) = a - b + Top + 1
  <2> DEFINE n == a - b
             q == n \div r
  <2>1. n \in Int /\ n < 0 /\ -r < n
    BY <1>1, <1>3
  <2> HIDE DEF n, r
  <2>2. q \in Int /\ n % r \in 0 .. r - 1 /\ n = (r * q) + (n % r)
    BY <1>1, <2>1
  <2> HIDE DEF q
  <2>3. r * (-1) = -r /\ r * (-2) = -(r + r)
    BY <1>1
  <2>4. CASE q >= 0
    <3>1. r * 0 <= r * q
      BY <1>1, <2>2, <2>4, TimesMonotone
    <3> QED BY <1>1, <2>1, <2>2, <3>1
  <2>5. CASE q <= -2
    <3>1. r * q <= r * (-2)
      BY <1>1, <2>2, <2>5, TimesMonotone
    <3>2. r * q \in Int /\ n % r < r
      BY <1>1, <2>2
    <3> QED BY <1>1, <2>1, <2>2, <2>3, <3>1, <3>2
  <2>6. CASE q = -1
    <3>1. n % r = n + r
      BY <1>1, <2>1, <2>2, <2>3, <2>6
    <3> QED BY <1>1, <3>1 DEF Remainder, n, r
  <2> QED BY <2>2, <2>4, <2>5, <2>6
<1>4. b <= a => a - b \in 0 .. Top
  BY <1>1
<1>5. a < b => a - b + Top + 1 \in 0 .. Top
  BY <1>1
<1> QED BY <1>2, <1>3, <1>4, <1>5

(* What is read step by step is one read. *)
Block(end, c) == Read(c, Lesser(Step, Remainder(end, c)))
LastBlock(end, c) == Len(Block(end, c)) < Lesser(Step, Remainder(end, c)) \/ c + Len(Block(end, c)) = end
BlocksFrom(end) ==
  CHOOSE From : From = [curr \in 0 .. Top |->
    IF LastBlock(end, curr) THEN Block(end, curr)
    ELSE Block(end, curr) \o From[curr + Len(Block(end, curr))]]

LEMMA BlocksAre == \A a, end : Blocks(a, end) = BlocksFrom(end)[a]
BY DEF Blocks, BlocksFrom, Block, LastBlock

LEMMA BlockOf ==
  ASSUME NEW end \in 0 .. Top, NEW c \in 0 .. Top
  PROVE  /\ Remainder(end, c) \in 0 .. Top
         /\ LastBlock(end, c) => Read(c, Remainder(end, c)) = Block(end, c)
         /\ ~LastBlock(end, c) =>
              /\ c + Len(Block(end, c)) \in c + 1 .. Top
              /\ Read(c, Remainder(end, c))
                   = Block(end, c) \o Read(c + Len(Block(end, c)), Remainder(end, c + Len(Block(end, c))))
<1> DEFINE n == Remainder(end, c)
           m == Lesser(Step, n)
           l == Len(Block(end, c))
<1>1. n \in 0 .. Top /\ n \in Nat /\ (c <= end => n = end - c) /\ (end < c => n = end - c + Top + 1)
  BY RemainderIs
<1>2. Step \in Nat \ {0} /\ Top \in Nat \ {0}
  BY BoundsAssumption
<1> HIDE DEF n
<1>3. m \in 0 .. n /\ m \in Nat /\ (n > 0 => m > 0) /\ (m = n \/ m < n)
  BY <1>1, <1>2 DEF Lesser
<1>4. Block(end, c) = Read(c, m)
  BY DEF Block, n
<1> HIDE DEF m
<1>5. /\ l \in 0 .. m /\ \A i \in 0 .. l - 1 : CanRead(c + i)
      /\ l < m => Read(c, n) = Read(c, m)
      /\ l = m => Read(c, n) = Read(c, m) \o Read(c + m, n - m)
  <2>1. c \in Nat
    BY <1>2
  <2>2. l \in 0 .. m /\ \A i \in 0 .. l - 1 : CanRead(c + i)
    BY <1>3, <1>4, <2>1, ReadEnds
  <2>3. /\ Len(Read(c, m)) < m => Read(c, n) = Read(c, m)
        /\ Len(Read(c, m)) = m => Read(c, n) = Read(c, m) \o Read(c + m, n - m)
    BY <1>1, <1>3, <2>1, ReadParts
  <2> QED BY <1>4, <2>2, <2>3
<1>6. LastBlock(end, c) <=> (l < m \/ c + l = end)
  BY DEF LastBlock, m, n
<1> HIDE DEF l
<1>7. ASSUME l = m, m > 0 PROVE c + m <= Top
  <2>1. l - 1 \in 0 .. l - 1
    BY <1>3, <1>5, <1>7
  <2>2. CanRead(c + (l - 1))
    BY <1>5, <2>1
  <2>3. c + (l - 1) < Top
    BY <2>2 DEF CanRead
  <2> QED BY <1>2, <1>3, <1>7, <2>3
<1>8. ASSUME l < m PROVE Read(c, n) = Block(end, c)
  BY <1>4, <1>5, <1>8
<1>9. ASSUME l = m, c + l = end PROVE Read(c, n) = Block(end, c)
  <2>1. n = m
    BY <1>1, <1>3, <1>9
  <2> QED BY <1>4, <2>1
<1>10. ASSUME l = m, c + l # end
       PROVE  /\ c + l \in c + 1 .. Top
              /\ Read(c, n) = Block(end, c) \o Read(c + l, Remainder(end, c + l))
  <2>1. n > 0
    BY <1>1, <1>2, <1>3, <1>10
  <2>2. m > 0 /\ c + m <= Top /\ c + m \in 0 .. Top
    BY <1>2, <1>3, <1>7, <1>10, <2>1
  <2>3. m < n
    BY <1>1, <1>2, <1>3, <1>10, <2>2
  <2>4. Remainder(end, c + m) = n - m
    <3> DEFINE x == c + m
    <3>1. x \in 0 .. Top
      BY <2>2
    <3> HIDE DEF x
    <3>2. (x <= end => Remainder(end, x) = end - x) /\ (end < x => Remainder(end, x) = end - x + Top + 1)
      BY <3>1, RemainderIs
    <3>3. x <= end <=> c <= end
      BY <1>1, <1>2, <1>3, <2>2, <2>3, <1>10 DEF x
    <3>4. Remainder(end, x) = n - m
      <4>1. CASE c <= end
        BY <1>1, <1>2, <1>3, <3>2, <3>3, <4>1 DEF x
      <4>2. CASE end < c
        BY <1>1, <1>2, <1>3, <3>2, <3>3, <4>2 DEF x
      <4> QED BY <4>1, <4>2
    <3> QED BY <3>4 DEF x
  <2> QED BY <1>4, <1>5, <1>10, <2>2, <2>4
<1>11. l < m \/ l = m
  BY <1>3, <1>5
<1> QED BY <1>1, <1>6, <1>8, <1>9, <1>10, <1>11 DEF n, l

LEMMA BlocksRead ==
  ASSUME NEW end \in 0 .. Top, NEW a \in 0 .. Top
  PROVE  Blocks(a, end) = Read(a, Remainder(end, a))
<1> DEFINE G == [c \in 0 .. Top |-> Read(c, Remainder(end, c))]
           F == BlocksFrom(end)
           next(c) == c + Len(Block(end, c))
<1>1. Top \in Nat
  BY Sizes
<1>2. ASSUME NEW c \in 0 .. Top
      PROVE  /\ LastBlock(end, c) => G[c] = Block(end, c)
             /\ ~LastBlock(end, c) => next(c) \in c + 1 .. Top /\ next(c) \in 0 .. Top /\ G[c] = Block(end, c) \o G[next(c)]
  <2>1. LastBlock(end, c) => G[c] = Block(end, c)
    BY BlockOf
  <2>2. ASSUME ~LastBlock(end, c)
        PROVE  next(c) \in c + 1 .. Top /\ next(c) \in 0 .. Top /\ G[c] = Block(end, c) \o G[next(c)]
    <3>1. /\ next(c) \in c + 1 .. Top
          /\ Read(c, Remainder(end, c)) = Block(end, c) \o Read(next(c), Remainder(end, next(c)))
      BY <2>2, BlockOf
    <3>2. next(c) \in 0 .. Top
      <4> DEFINE x == next(c)
      <4>1. x \in c + 1 .. Top
        BY <3>1
      <4> HIDE DEF x
      <4>2. x \in 0 .. Top
        BY <1>1, <4>1
      <4> QED BY <4>2 DEF x
    <3> QED BY <3>1, <3>2
  <2> QED BY <2>1, <2>2
<1>3. G = [c \in 0 .. Top |-> IF LastBlock(end, c) THEN Block(end, c) ELSE Block(end, c) \o G[next(c)]]
  <2> DEFINE H == [c \in 0 .. Top |-> IF LastBlock(end, c) THEN Block(end, c) ELSE Block(end, c) \o G[next(c)]]
  <2>1. ASSUME NEW c \in 0 .. Top PROVE G[c] = H[c]
    <3> HIDE DEF G
    <3> QED BY <1>2
  <2>2. G = [c \in 0 .. Top |-> G[c]]
    BY Zenon
  <2> HIDE DEF G
  <2>3. H = [c \in 0 .. Top |-> H[c]]
    BY Zenon
  <2> HIDE DEF H
  <2>4. G = H
    BY <2>1, <2>2, <2>3, Zenon
  <2> QED BY <2>4 DEF H
<1>4. F = [c \in 0 .. Top |-> IF LastBlock(end, c) THEN Block(end, c) ELSE Block(end, c) \o F[next(c)]]
  <2> HIDE DEF G
  <2> QED BY <1>3, Zenon DEF BlocksFrom
<1> DEFINE Bad == {k \in 0 .. Top : F[Top - k] # G[Top - k]}
<1> HIDE DEF F, G
<1>5. Bad = {}
  <2>1. SUFFICES ASSUME Bad # {} PROVE FALSE
    OBVIOUS
  <2>2. PICK k \in Bad : \A j \in Bad : k <= j
    <3>1. Bad \in SUBSET Nat
      BY <1>1
    <3> HIDE DEF Bad
    <3> QED BY <2>1, <3>1, LeastPlace
  <2> DEFINE c == Top - k
  <2>3. k \in 0 .. Top /\ c \in 0 .. Top /\ F[c] # G[c] /\ c = Top - k
    BY <1>1, <2>2
  <2> HIDE DEF c
  <2>4. F[c] = IF LastBlock(end, c) THEN Block(end, c) ELSE Block(end, c) \o F[next(c)]
    BY <1>4, <2>3
  <2>5. ~LastBlock(end, c)
    BY <1>2, <2>3, <2>4
  <2> DEFINE x == next(c)
  <2>6. x \in c + 1 .. Top /\ x \in 0 .. Top /\ G[c] = Block(end, c) \o G[x]
    BY <1>2, <2>3, <2>5
  <2>7. F[c] = Block(end, c) \o F[x]
    BY <2>4, <2>5
  <2> HIDE DEF x
  <2> DEFINE j == Top - x
  <2>8. j \in 0 .. Top /\ j < k /\ Top - j = x
    BY <1>1, <2>3, <2>6
  <2> HIDE DEF j
  <2>9. F[x] # G[x]
    BY <2>3, <2>6, <2>7
  <2>10. j \in Bad
    BY <2>8, <2>9
  <2>11. k <= j
    BY <2>2, <2>10
  <2> QED BY <2>3, <2>8, <2>11
<1>6. F[a] = G[a]
  <2> DEFINE k == Top - a
  <2>1. k \in 0 .. Top /\ Top - k = a
    BY <1>1
  <2> HIDE DEF k
  <2>2. k \notin Bad
    BY <1>5
  <2> QED BY <2>1, <2>2
<1>7. Blocks(a, end) = F[a]
  BY BlocksAre DEF F
<1> QED BY <1>6, <1>7 DEF G

(* A function that is given where it stops, and by its value a step further  *)
(* elsewhere.                                                                *)
StepsFit(N, s, S, v) ==
  N \in Nat /\ s \in Nat \ {0} /\ DOMAIN v = 0 .. N /\ \A c \in (0 .. N) \ S : c + s <= N

LEMMA Descends ==
  ASSUME NEW N, NEW s, NEW S, NEW v, StepsFit(N, s, S, v)
  PROVE  \E f : f = [c \in 0 .. N |-> IF c \in S THEN v[c] ELSE f[c + s]]
<1> DEFINE Solved(n) == \E f : f = [c \in n .. N |-> IF c \in S THEN v[c] ELSE f[c + s]]
           Bad == {k \in 0 .. N + 1 : ~Solved(N + 1 - k)}
<1>1. N \in Nat /\ s \in Nat \ {0} /\ \A c \in (0 .. N) \ S : c + s <= N
  BY DEF StepsFit
<1> USE <1>1
<1>2. Bad = {}
  <2>1. SUFFICES ASSUME Bad # {} PROVE FALSE
    OBVIOUS
  <2>2. PICK k \in Bad : \A j \in Bad : k <= j
    <3>1. Bad \in SUBSET Nat
      OBVIOUS
    <3> HIDE DEF Bad
    <3> QED BY <2>1, <3>1, LeastPlace
  <2> DEFINE n == N + 1 - k
             m == n + 1
  <2>3. k \in 0 .. N + 1 /\ ~Solved(n) /\ n \in 0 .. N + 1
    BY <2>2
  <2>4. n \in 0 .. N
    <3>1. CASE n = N + 1
      <4>1. N + 1 .. N = {}
        OBVIOUS
      <4> DEFINE f == [c \in N + 1 .. N |-> 0]
      <4>2. f = [c \in N + 1 .. N |-> IF c \in S THEN v[c] ELSE f[c + s]]
        BY <4>1
      <4>3. Solved(N + 1)
        <5> HIDE DEF f
        <5> QED BY <4>2
      <4> HIDE DEF Solved
      <4> QED BY <2>3, <3>1, <4>3
    <3> QED BY <2>3, <3>1
  <2>5. Solved(m)
    <3> DEFINE j == k - 1
    <3>1. j \in 0 .. N + 1 /\ j < k /\ N + 1 - j = m
      BY <2>3, <2>4
    <3> HIDE DEF j
    <3>2. j \notin Bad
      <4> HIDE DEF Bad, n, m
      <4> QED BY <2>2, <2>3, <3>1
    <3> HIDE DEF Solved, m
    <3> QED BY <3>1, <3>2
  <2> HIDE DEF n
  <2>6. PICK f : f = [c \in m .. N |-> IF c \in S THEN v[c] ELSE f[c + s]]
    BY <2>5
  <2> DEFINE g == [c \in n .. N |-> IF c = n THEN IF n \in S THEN v[n] ELSE f[n + s] ELSE f[c]]
             h == [c \in n .. N |-> IF c \in S THEN v[c] ELSE g[c + s]]
  <2>7. ASSUME NEW c \in n .. N PROVE g[c] = h[c]
    <3>1. ASSUME c \notin S PROVE g[c + s] = f[c + s]
      <4>1. c \in (0 .. N) \ S
        BY <2>4, <3>1
      <4>2. c + s <= N
        BY <4>1
      <4>3. c + s \in n .. N /\ c + s # n
        BY <2>4, <4>2
      <4> QED BY <4>3
    <3>2. CASE c = n
      BY <3>1, <3>2
    <3>3. CASE c # n
      <4>1. c \in m .. N
        BY <2>4, <3>3
      <4>2. f[c] = IF c \in S THEN v[c] ELSE f[c + s]
        BY <2>6, <4>1
      <4>3. g[c] = f[c]
        BY <3>3
      <4> HIDE DEF g
      <4> QED BY <3>1, <4>2, <4>3
    <3> QED BY <3>2, <3>3
  <2>8. g = h
    <3>1. g = [c \in n .. N |-> g[c]] /\ h = [c \in n .. N |-> h[c]]
      OBVIOUS
    <3> HIDE DEF g, h
    <3> QED BY <2>7, <3>1
  <2>9. g = [c \in n .. N |-> IF c \in S THEN v[c] ELSE g[c + s]]
    <3> HIDE DEF g
    <3> QED BY <2>8
  <2>10. Solved(n)
    <3> HIDE DEF g
    <3> QED BY <2>9
  <2> QED BY <2>3, <2>10
<1>3. Solved(0)
  <2> DEFINE z == 0
             k == N + 1
  <2>1. k \in 0 .. N + 1 /\ N + 1 - k = z
    OBVIOUS
  <2> HIDE DEF Solved, k, z
  <2>2. Solved(z)
    BY <1>2, <2>1
  <2> QED BY <2>2 DEF z
<1> QED BY <1>3

(* What is called unreadable ends where memory can be read again. *)
AtEnd(end, c) == c > Remainder(end, Step) \/ c >= Top
PastFrom(a, end, got) ==
  CHOOSE Past : Past = [curr \in 0 .. 2 * Top |->
    IF AtEnd(end, curr) THEN end - a - got
    ELSE IF Len(Read(curr + Step, Step)) = Step THEN curr + Step - a - got
    ELSE Past[curr + Step]]

LEMMA UnreadableOf ==
  \A a, end, got : Unreadable(a, end, got) = IF got = end - a THEN 0 ELSE PastFrom(a, end, got)[a + got]
BY DEF Unreadable, PastFrom, AtEnd

LEMMA PastFound ==
  ASSUME NEW end \in 0 .. Top, Step <= end, NEW a, NEW got
  PROVE  \A c \in 0 .. 2 * Top : PastFrom(a, end, got)[c] =
           IF AtEnd(end, c) THEN end - a - got
           ELSE IF Len(Read(c + Step, Step)) = Step THEN c + Step - a - got
           ELSE PastFrom(a, end, got)[c + Step]
<1> DEFINE N == 2 * Top
           v == [c \in 0 .. N |-> IF AtEnd(end, c) THEN end - a - got ELSE c + Step - a - got]
           S == {c \in 0 .. N : AtEnd(end, c) \/ Len(Read(c + Step, Step)) = Step}
           P == PastFrom(a, end, got)
<1>1. Top \in Nat \ {0} /\ Step \in Nat \ {0} /\ N \in Nat /\ end <= N
  BY BoundsAssumption
<1>2. Step \in 0 .. Top /\ Remainder(end, Step) = end - Step
  <2>1. Step \in 0 .. Top
    BY <1>1
  <2> QED BY <2>1, RemainderIs
<1>3. ASSUME NEW c \in (0 .. N) \ S PROVE c + Step <= N
  <2>1. ~AtEnd(end, c)
    OBVIOUS
  <2>2. c <= end - Step
    BY <1>1, <1>2, <2>1 DEF AtEnd
  <2> HIDE DEF N
  <2> QED BY <1>1, <2>2
<1>4. PICK f : f = [c \in 0 .. N |-> IF c \in S THEN v[c] ELSE f[c + Step]]
  <2>1. DOMAIN v = 0 .. N
    OBVIOUS
  <2> HIDE DEF S, v, N
  <2>2. StepsFit(N, Step, S, v)
    BY <1>1, <1>3, <2>1 DEF StepsFit
  <2> QED BY <2>2, Descends
<1>5. f = [c \in 0 .. N |-> IF AtEnd(end, c) THEN end - a - got
                            ELSE IF Len(Read(c + Step, Step)) = Step THEN c + Step - a - got
                            ELSE f[c + Step]]
  <2> DEFINE g == [c \in 0 .. N |-> IF c \in S THEN v[c] ELSE f[c + Step]]
             h == [c \in 0 .. N |-> IF AtEnd(end, c) THEN end - a - got
                                    ELSE IF Len(Read(c + Step, Step)) = Step THEN c + Step - a - got
                                    ELSE f[c + Step]]
  <2>1. ASSUME NEW c \in 0 .. N PROVE g[c] = h[c]
    <3>1. g[c] = IF c \in S THEN v[c] ELSE f[c + Step]
      BY Zenon
    <3>2. c \in S <=> AtEnd(end, c) \/ Len(Read(c + Step, Step)) = Step
      BY Zenon
    <3>3. v[c] = IF AtEnd(end, c) THEN end - a - got ELSE c + Step - a - got
      BY Zenon
    <3>4. h[c] = IF AtEnd(end, c) THEN end - a - got
                 ELSE IF Len(Read(c + Step, Step)) = Step THEN c + Step - a - got ELSE f[c + Step]
      BY Zenon
    <3> HIDE DEF g, h, S, v
    <3> QED BY <3>1, <3>2, <3>3, <3>4, Zenon
  <2>2. g = [c \in 0 .. N |-> g[c]] /\ h = [c \in 0 .. N |-> h[c]]
    BY Zenon
  <2>3. g = h
    <3> HIDE DEF g, h
    <3> QED BY <2>1, <2>2
  <2>4. f = g
    BY <1>4, Zenon
  <2> HIDE DEF g
  <2>5. f = h
    BY <2>3, <2>4
  <2> QED BY <2>5
<1>6. P = [c \in 0 .. N |-> IF AtEnd(end, c) THEN end - a - got
                            ELSE IF Len(Read(c + Step, Step)) = Step THEN c + Step - a - got
                            ELSE P[c + Step]]
  BY <1>5, Zenon DEF PastFrom
<1>7. ASSUME NEW c \in 0 .. N
      PROVE  P[c] = IF AtEnd(end, c) THEN end - a - got
                    ELSE IF Len(Read(c + Step, Step)) = Step THEN c + Step - a - got
                    ELSE P[c + Step]
  <2> HIDE DEF P, N
  <2> QED BY <1>6, Zenon
<1> QED BY <1>7

(* Multiples of a step, one after another. *)
LEMMA StepsAre ==
  ASSUME NEW s \in Nat \ {0}
  PROVE  /\ 1 * s = s /\ \A n \in Nat : n * s \in Nat /\ n <= n * s
         /\ \A n \in Nat : (n + 1) * s = n * s + s
<1>1. ASSUME NEW n \in Nat PROVE n * s \in Nat /\ n <= n * s
  <2>1. s - 1 \in Nat /\ n * s = n + n * (s - 1)
    OBVIOUS
  <2>2. n * (s - 1) \in Nat /\ n * s \in Nat
    BY <2>1
  <2> QED BY <2>1, <2>2
<1>2. ASSUME NEW n \in Nat PROVE (n + 1) * s = n * s + s
  OBVIOUS
<1> QED BY <1>1, <1>2

LEMMA UnreadableIs ==
  ASSUME NEW end \in 0 .. Top, Step <= end, NEW a \in Nat, NEW got \in Nat, a + got < end
  PROVE  PassedOver(Unreadable(a, end, got), a + got, end - (a + got))
<1> DEFINE P == PastFrom(a, end, got)
           b == a + got
           Whole(c, n) == Len(Read(c + n * Step, Step)) = Step
           Fine(c, u) == /\ u \in 1 .. end - b
                         /\ u = end - b \/ \E n \in Nat \ {0} : b + u = c + n * Step /\ Whole(c, n)
                         /\ \A n \in Nat \ {0} : c + n * Step < b + u => ~Whole(c, n)
           Bad == {k \in 0 .. end - b : ~Fine(end - k, P[end - k])}
<1>1. Top \in Nat \ {0} /\ Step \in Nat \ {0} /\ b \in Nat /\ b < end /\ end <= 2 * Top
  BY BoundsAssumption
<1>0. /\ 1 * Step = Step /\ \A n \in Nat : n * Step \in Nat /\ n <= n * Step
      /\ \A n \in Nat : (n + 1) * Step = n * Step + Step
  BY <1>1, StepsAre
<1>2. Remainder(end, Step) = end - Step
  <2>1. Step \in 0 .. Top
    BY <1>1
  <2> QED BY <2>1, RemainderIs
<1>3. \A c \in b .. end : P[c] = IF AtEnd(end, c) THEN end - b
                                 ELSE IF Len(Read(c + Step, Step)) = Step THEN c + Step - b
                                 ELSE P[c + Step]
  <2>1. ASSUME NEW c \in b .. end
        PROVE  P[c] = IF AtEnd(end, c) THEN end - b
                      ELSE IF Len(Read(c + Step, Step)) = Step THEN c + Step - b
                      ELSE P[c + Step]
    <3> DEFINE M == 2 * Top
    <3>1. c \in 0 .. M
      <4>1. M \in Nat /\ end <= M
        BY <1>1
      <4> HIDE DEF M, b
      <4> QED BY <1>1, <4>1
    <3>2. P[c] = IF AtEnd(end, c) THEN end - a - got
                 ELSE IF Len(Read(c + Step, Step)) = Step THEN c + Step - a - got
                 ELSE P[c + Step]
      BY <3>1, PastFound
    <3>3. end - a - got = end - b /\ c + Step - a - got = c + Step - b
      BY <1>1
    <3> HIDE DEF P, b
    <3> QED BY <3>2, <3>3
  <2> QED BY <2>1
<1> HIDE DEF P, b
<1>4. Bad = {}
  <2>1. SUFFICES ASSUME Bad # {} PROVE FALSE
    OBVIOUS
  <2>2. PICK k \in Bad : \A j \in Bad : k <= j
    <3>1. Bad \in SUBSET Nat
      BY <1>1
    <3> HIDE DEF Bad
    <3> QED BY <2>1, <3>1, LeastPlace
  <2> DEFINE c == end - k
  <2>3. k \in 0 .. end - b /\ c \in b .. end /\ c \in Nat /\ ~Fine(c, P[c])
    BY <1>1, <2>2
  <2> HIDE DEF Fine
  <2>4. c + k = end
    BY <1>1, <2>3
  <2> HIDE DEF c
  <2>5. CASE AtEnd(end, c)
    <3>1. P[c] = end - b
      BY <1>3, <2>3, <2>5
    <3>2. end < c + Step
      BY <1>1, <1>2, <2>3, <2>5 DEF AtEnd
    <3> DEFINE r == end - b
    <3>3. ASSUME NEW n \in Nat \ {0} PROVE ~(c + n * Step < b + r)
      <4>1. n - 1 \in Nat /\ n = (n - 1) + 1
        OBVIOUS
      <4>2. n * Step = (n - 1) * Step + Step /\ (n - 1) * Step \in Nat
        BY <1>0, <4>1
      <4> QED BY <1>1, <2>3, <3>2, <4>2
    <3>4. Fine(c, r)
      <4>1. r \in 1 .. r
        BY <1>1
      <4> HIDE DEF Whole
      <4> QED BY <3>3, <4>1 DEF Fine
    <3> QED BY <2>3, <3>1, <3>4
  <2>6. ASSUME ~AtEnd(end, c) PROVE c + Step <= end
    BY <1>1, <1>2, <2>3, <2>6 DEF AtEnd
  <2>7. CASE ~AtEnd(end, c) /\ Len(Read(c + Step, Step)) = Step
    <3> DEFINE u == c + Step - b
    <3>1. P[c] = u
      BY <1>3, <2>3, <2>7
    <3>2. u \in 1 .. end - b /\ b + u = c + Step
      BY <1>1, <2>3, <2>6, <2>7
    <3> HIDE DEF u
    <3>3. Whole(c, 1) /\ b + u = c + 1 * Step
      BY <1>0, <2>7, <3>2
    <3>4. ASSUME NEW n \in Nat \ {0} PROVE ~(c + n * Step < b + u)
      <4>1. n - 1 \in Nat /\ n = (n - 1) + 1
        OBVIOUS
      <4>2. n * Step = (n - 1) * Step + Step /\ (n - 1) * Step \in Nat
        BY <1>0, <4>1
      <4> QED BY <1>1, <2>3, <3>2, <4>2
    <3>5. Fine(c, u)
      <4> HIDE DEF Whole
      <4>1. 1 \in Nat \ {0}
        OBVIOUS
      <4> QED BY <3>2, <3>3, <3>4, <4>1 DEF Fine
    <3> QED BY <2>3, <3>1, <3>5
  <2>8. CASE ~AtEnd(end, c) /\ Len(Read(c + Step, Step)) # Step
    <3> DEFINE x == c + Step
               j == end - x
               u == P[x]
    <3>1. P[c] = P[x]
      BY <1>3, <2>3, <2>8
    <3>2. j \in 0 .. end - b /\ j < k /\ end - j = x /\ x \in Nat
      BY <1>1, <2>3, <2>4, <2>6, <2>8
    <3>3. \A n \in Nat : c + (n + 1) * Step = x + n * Step
      BY <1>0, <1>1, <2>3
    <3>4. ~Whole(c, 1)
      BY <1>0, <2>8
    <3> HIDE DEF j, x
    <3>5. ASSUME NEW n \in Nat PROVE Whole(c, n + 1) <=> Whole(x, n)
      BY <3>3
    <3> HIDE DEF Whole, u
    <3>6. CASE Fine(x, u)
      <4>1. u \in 1 .. end - b
        BY <3>6 DEF Fine
      <4>2. u = end - b \/ \E n \in Nat \ {0} : b + u = c + n * Step /\ Whole(c, n)
        <5>1. ASSUME NEW n \in Nat \ {0}, b + u = x + n * Step, Whole(x, n)
              PROVE  \E m \in Nat \ {0} : b + u = c + m * Step /\ Whole(c, m)
          <6> DEFINE m == n + 1
          <6>1. m \in Nat \ {0} /\ n \in Nat
            OBVIOUS
          <6>2. b + u = c + m * Step /\ Whole(c, m)
            BY <3>3, <3>5, <5>1, <6>1
          <6> HIDE DEF m
          <6> QED BY <6>1, <6>2
        <5> QED BY <3>6, <5>1 DEF Fine
      <4>3. ASSUME NEW n \in Nat \ {0}, c + n * Step < b + u PROVE ~Whole(c, n)
        <5>1. CASE n = 1
          BY <3>4, <5>1
        <5>2. CASE n # 1
          <6> DEFINE m == n - 1
          <6>1. m \in Nat \ {0} /\ n = m + 1 /\ m \in Nat
            BY <5>2
          <6> HIDE DEF m
          <6>2. x + m * Step < b + u
            BY <3>3, <4>3, <6>1
          <6>3. ~Whole(x, m)
            BY <3>6, <6>1, <6>2 DEF Fine
          <6> QED BY <3>5, <6>1, <6>3
        <5> QED BY <5>1, <5>2
      <4>4. Fine(c, u)
        BY <4>1, <4>2, <4>3 DEF Fine
      <4> QED BY <2>3, <3>1, <4>4 DEF u
    <3>7. CASE ~Fine(x, u)
      <4>1. j \in Bad
        BY <3>2, <3>7 DEF u
      <4>2. k <= j
        BY <2>2, <4>1
      <4> QED BY <2>3, <3>2, <4>2
    <3> QED BY <3>6, <3>7
  <2> QED BY <2>5, <2>7, <2>8
<1>5. Fine(b, P[b])
  <2> DEFINE k == end - b
  <2>1. k \in 0 .. end - b /\ end - k = b
    BY <1>1
  <2> HIDE DEF k, Fine
  <2>2. k \notin Bad
    BY <1>4
  <2> QED BY <2>1, <2>2
<1>6. Unreadable(a, end, got) = P[b]
  <2>1. got # end - a
    BY <1>1 DEF b
  <2> QED BY <2>1, UnreadableOf DEF P, b
<1> DEFINE u == Unreadable(a, end, got)
           rest == end - b
<1>7. Fine(b, u)
  <2> HIDE DEF Fine
  <2> QED BY <1>5, <1>6
<1> HIDE DEF u
<1>8. rest \in Nat /\ u \in 1 .. rest /\ u \in Nat
  BY <1>1, <1>7
<1>9. u = rest \/ \E n \in 1 .. rest : u = n * Step /\ Whole(b, n)
  <2>1. ASSUME NEW n \in Nat \ {0}, b + u = b + n * Step, Whole(b, n)
        PROVE  \E m \in 1 .. rest : u = m * Step /\ Whole(b, m)
    <3>1. n * Step \in Nat /\ n <= n * Step
      BY <1>0
    <3>2. u = n * Step
      BY <1>1, <1>8, <2>1, <3>1
    <3>3. n \in 1 .. rest
      <4> HIDE DEF rest
      <4> QED BY <1>8, <3>1, <3>2
    <3> HIDE DEF Whole, rest
    <3> QED BY <2>1, <3>2, <3>3
  <2> HIDE DEF Whole
  <2> QED BY <1>7, <2>1
<1>10. ASSUME NEW n \in 1 .. rest, n * Step < u PROVE ~Whole(b, n)
  <2>1. n \in Nat \ {0} /\ n * Step \in Nat
    BY <1>0, <1>8
  <2>2. b + n * Step < b + u
    BY <1>1, <1>8, <1>10, <2>1
  <2> HIDE DEF Whole
  <2> QED BY <1>7, <2>1, <2>2
<1> HIDE DEF b, rest
<1>11. PassedOver(u, b, rest)
  BY <1>8, <1>9, <1>10 DEF PassedOver
<1> QED BY <1>11 DEF u, b, rest

-----------------------------------------------------------------------------
(* A client is answered once, and memory stays as it was answered. *)
PassedNext ==
  PassedOver(answer.unreadable, answer.from + Len(answer.data), answer.size - Len(answer.data))

(* The same of any pages and any answer. *)
PassedIn(pages, bytes, from, rest) ==
  LET Can(x) == x < Top /\ x \div PageSize \in pages
      Part(x, n) == Bytes(x, IF \A i \in 0 .. n - 1 : Can(x + i) THEN n
                             ELSE Min({i \in 0 .. n - 1 : ~Can(x + i)}))
      Whole(n) == Len(Part(from + n * Step, Step)) = Step IN
  /\ bytes \in 1 .. rest
  /\ bytes = rest \/ \E n \in 1 .. rest : bytes = n * Step /\ Whole(n)
  /\ \A n \in 1 .. rest : n * Step < bytes => ~Whole(n)
PassedBehind(pages, a) == PassedIn(pages, a.unreadable, a.from + Len(a.data), a.size - Len(a.data))

LEMMA PassedIs ==
  /\ PassedNext <=> PassedBehind(readable, answer)
  /\ PassedNext' <=> PassedBehind(readable', answer')
  /\ \A x, y, z : PassedOver(x, y, z) <=> PassedIn(readable, x, y, z)
BY DEF PassedNext, PassedOver, PassedBehind, PassedIn, Read, CanRead

LEMMA AnswerStep == ReadSound /\ [Next]_vars => ReadSound'
<1> SUFFICES ASSUME ReadSound, [Next]_vars PROVE ReadSound'
  OBVIOUS
<1>1. ASSUME UNCHANGED <<answer, memory>> PROVE ReadSound'
  <2>1. answer' = answer /\ mishaps' = mishaps /\ readable' = readable
    BY <1>1 DEF memory
  <2>2. answer.kind = "read" /\ "offset" \notin mishaps =>
          (answer.data = Read(answer.from, answer.size))'
    BY <2>1 DEF ReadSound, Read, CanRead
  <2>3. /\ PassedNext <=> PassedBehind(readable, answer)
        /\ PassedNext' <=> PassedBehind(readable', answer')
    BY PassedIs
  <2>4. PassedNext' <=> PassedNext
    BY <2>1, <2>3
  <2> QED BY <2>1, <2>2, <2>4 DEF ReadSound, PassedNext
<1>2. CASE MoveWindow
  <2>1. UNCHANGED <<answer, memory>>
    BY <1>2 DEF MoveWindow, Reset, Unchanging
  <2> QED BY <1>1, <2>1
<1>3. CASE ExtendBefore
  <2>1. UNCHANGED <<answer, memory>>
    BY <1>3 DEF ExtendBefore, FetchBegin, Unchanging
  <2> QED BY <1>1, <2>1
<1>4. CASE ExtendAfter
  <2>1. UNCHANGED <<answer, memory>>
    BY <1>4 DEF ExtendAfter, FetchEnd, Unchanging
  <2> QED BY <1>1, <2>1
<1>5. CASE Deliver \/ UNCHANGED vars
  <2>1. UNCHANGED <<answer, memory>>
    BY <1>5 DEF Deliver, vars
  <2> QED BY <1>1, <2>1
<1>6. CASE Disassemble
  <2>1. answer'.kind = "disassemble"
    BY <1>6 DEF Disassemble
  <2> QED BY <2>1 DEF ReadSound
<1>7. CASE ReadMemory
  <2>1. PICK a \in Addresses, offset \in {0, 2}, size \in 0 .. 2 * Step + 1 :
          /\ a + offset + size < Top
          /\ "offset" \in mishaps \/ offset = 0
          /\ "nullPage" \in mishaps \/ a + size >= Step
          /\ LET got == Blocks(a, a + size) IN
             answer' = [kind |-> "read", from |-> a + offset, size |-> size, data |-> got,
                        unreadable |-> Unreadable(a, a + size, Len(got))]
    BY <1>7, Zenon DEF ReadMemory
  <2> DEFINE end == a + size
             got == Blocks(a, end)
             l == Len(got)
             u == Unreadable(a, end, l)
  <2>2. /\ answer' = [kind |-> "read", from |-> a + offset, size |-> size, data |-> got, unreadable |-> u]
        /\ mishaps' = mishaps /\ readable' = readable
    BY <1>7, <2>1 DEF ReadMemory, memory
  <2>3. /\ a \in Nat /\ size \in Nat /\ Top \in Nat /\ Step \in Nat /\ a < Top /\ a + size < Top
        /\ "offset" \notin mishaps => offset = 0
        /\ "nullPage" \notin mishaps => Step <= a + size
    <3>1. Top \in Nat /\ Step \in Nat
      BY BoundsAssumption
    <3> DEFINE m == 2 * Step + 1
    <3>2. m \in Nat
      BY <3>1
    <3> HIDE DEF m
    <3>3. a \in Nat /\ a < Top /\ size \in Nat /\ offset \in Nat
      BY <3>1, <3>2 DEF Addresses, m
    <3> QED BY <2>1, <3>1, <3>3
  <2>4. end \in 0 .. Top /\ a \in 0 .. Top /\ a <= end /\ end - a = size
    BY <2>3
  <2> HIDE DEF end
  <2>5. got = Read(a, size)
    <3>1. Remainder(end, a) = size
      BY <2>4, RemainderIs
    <3> QED BY <2>4, <3>1, BlocksRead
  <2>6. l \in 0 .. size
    BY <2>3, <2>5, ReadEnds
  <2> HIDE DEF got
  <2> HIDE DEF l
  <2>7. ASSUME "nullPage" \notin mishaps
        PROVE  IF l = size THEN u = 0 ELSE PassedOver(u, a + l, size - l)
    <3>1. CASE l = size
      <4>1. u = 0
        <5>1. l = end - a
          BY <2>4, <3>1
        <5> QED BY <5>1, UnreadableOf
      <4> HIDE DEF u
      <4> QED BY <3>1, <4>1
    <3>2. CASE l # size
      <4>1. /\ Step <= end /\ a \in Nat /\ l \in Nat /\ a + l < end /\ end - (a + l) = size - l
        BY <2>3, <2>4, <2>6, <2>7, <3>2 DEF end
      <4>2. PassedOver(u, a + l, end - (a + l))
        BY <2>4, <4>1, UnreadableIs
      <4> HIDE DEF u
      <4> QED BY <3>2, <4>1, <4>2
    <3> QED BY <3>1, <3>2
  <2> HIDE DEF u
  <2>8. /\ answer'.kind = "read" /\ answer'.from = a + offset /\ answer'.size = size /\ answer'.data = got
        /\ answer'.unreadable = u /\ Len(answer'.data) = l
    BY <2>2 DEF l
  <2>9. "offset" \notin mishaps => answer'.from = a
    BY <2>3, <2>8
  <2>10. ("offset" \notin mishaps => answer.data = Read(answer.from, answer.size))'
    BY <2>2, <2>5, <2>8, <2>9 DEF Read, CanRead
  <2>11. (mishaps \cap {"offset", "nullPage"} = {} =>
            IF Len(answer.data) = answer.size THEN answer.unreadable = 0
            ELSE PassedOver(answer.unreadable, answer.from + Len(answer.data), answer.size - Len(answer.data)))'
    <3>1. ASSUME "offset" \notin mishaps, "nullPage" \notin mishaps, l # size
          PROVE  PassedNext'
      <4>1. PassedIn(readable, u, a + l, size - l)
        BY <2>7, <3>1, PassedIs
      <4>2. /\ answer'.unreadable = u /\ answer'.from + Len(answer'.data) = a + l
            /\ answer'.size - Len(answer'.data) = size - l
        BY <2>8, <2>9, <3>1
      <4>3. PassedBehind(readable', answer')
        BY <2>2, <4>1, <4>2 DEF PassedBehind
      <4> QED BY <4>3, PassedIs
    <3> QED BY <2>2, <2>7, <2>8, <3>1 DEF PassedNext
  <2> QED BY <2>8, <2>10, <2>11 DEF ReadSound
<1> QED BY <1>2, <1>3, <1>4, <1>5, <1>6, <1>7 DEF Next

(* In every reachable state the answer a client was given to readMemory is  *)
(* the beginning of the memory it asked for, up to the first byte that      *)
(* cannot be read, unless it asked for an offset. Then, unless the request  *)
(* ends within a step of address zero as well, no byte is called unreadable *)
(* that was read, and behind the data whole steps are, up to the first      *)
(* block that can be read in full, or all the rest (PassedOver): for every  *)
(* size of memory, of its pages and of a step, whichever pages can be read  *)
(* (debug_child_process::read_memory).                                      *)
THEOREM ReadsTruly == WorkbenchSpec => []ReadSound
<1>1. WorkbenchInit => ReadSound
  BY DEF WorkbenchInit, Init, NoAnswer, ReadSound
<1>2. ReadSound /\ [WorkbenchNext]_workbenchVars => ReadSound'
  <2> SUFFICES ASSUME ReadSound, [WorkbenchNext]_workbenchVars PROVE ReadSound'
    OBVIOUS
  <2>1. [Next]_vars
    BY DEF WorkbenchNext, workbenchVars
  <2> QED BY <2>1, AnswerStep
<1> QED BY <1>1, <1>2, PTL DEF WorkbenchSpec
=============================================================================
