-------------------------- MODULE PurgeSweep_proofs --------------------------
(* The order in which the purge destroys the parts of a document, what a   *)
(* user may still restore, and when a chain stops, proved for any trash,   *)
(* any batch size, any depth limit and any failures.                       *)
EXTENDS PurgeSweep, SequenceTheorems, TLAPS

-----------------------------------------------------------------------------
(* Sequences: what taking a prefix and removing one entry leave.           *)

Distinct(s) == \A i, j \in 1 .. Len(s) : s[i] = s[j] => i = j

First(s, n) == {s[i] : i \in 1 .. n}

LEMMA TakeProperties ==
  ASSUME NEW S, NEW s \in Seq(S), NEW n \in 0 .. Len(s)
  PROVE  /\ Take(s, n) \in Seq(S)
         /\ Len(Take(s, n)) = IF n < BatchSize THEN n ELSE BatchSize
         /\ \A i \in 1 .. Len(Take(s, n)) : i \in 1 .. n /\ Take(s, n)[i] = s[i]
<1> DEFINE m == IF n < BatchSize THEN n ELSE BatchSize
<1>1. m \in 0 .. n /\ m \in 0 .. Len(s)
  BY PurgeAssumption
<1>2. /\ SubSeq(s, 1, m) \in Seq(S)
      /\ Len(SubSeq(s, 1, m)) = m
      /\ \A i \in 1 .. m : SubSeq(s, 1, m)[i] = s[i]
  BY <1>1
<1> QED
  BY <1>1, <1>2 DEF Take

LEMMA RemoveAtProperties ==
  ASSUME NEW S, NEW s \in Seq(S), NEW i \in 1 .. Len(s)
  PROVE  /\ RemoveAt(s, i) \in Seq(S)
         /\ Len(RemoveAt(s, i)) = Len(s) - 1
         /\ \A j \in 1 .. Len(s) - 1 :
              RemoveAt(s, i)[j] = IF j < i THEN s[j] ELSE s[j + 1]
<1> DEFINE a == SubSeq(s, 1, i - 1)
           b == SubSeq(s, i + 1, Len(s))
<1>1. /\ a \in Seq(S) /\ Len(a) = i - 1
      /\ \A j \in 1 .. i - 1 : a[j] = s[j]
  OBVIOUS
<1>2. /\ b \in Seq(S) /\ Len(b) = Len(s) - i
      /\ \A j \in 1 .. Len(s) - i : b[j] = s[i + j]
  OBVIOUS
<1> HIDE DEF a, b
<1>3. RemoveAt(s, i) = a \o b
  BY DEF RemoveAt, a, b
<1>4. /\ a \o b \in Seq(S)
      /\ Len(a \o b) = Len(s) - 1
      /\ \A j \in 1 .. Len(s) - 1 :
           (a \o b)[j] = IF j < i THEN a[j] ELSE b[j - i + 1]
  <2>1. a \o b \in Seq(S) /\ Len(a \o b) = Len(a) + Len(b)
    BY <1>1, <1>2, ConcatProperties
  <2>2. \A j \in 1 .. Len(a) + Len(b) :
          (a \o b)[j] = IF j <= Len(a) THEN a[j] ELSE b[j - Len(a)]
    BY <1>1, <1>2, ConcatProperties
  <2>3. Len(a) = i - 1 /\ Len(b) = Len(s) - i /\ Len(s) \in Nat
    BY <1>1, <1>2
  <2> QED
    BY <2>1, <2>2, <2>3
<1>5. ASSUME NEW j \in 1 .. Len(s) - 1
      PROVE  (a \o b)[j] = IF j < i THEN s[j] ELSE s[j + 1]
  <2>1. CASE j < i
    BY <1>1, <1>4, <2>1
  <2>2. CASE ~(j < i)
    <3>1. j - i + 1 \in 1 .. Len(s) - i
      BY <2>2
    <3>2. b[j - i + 1] = s[i + (j - i + 1)]
      BY <1>2, <3>1
    <3> QED
      BY <1>4, <2>2, <3>2
  <2> QED
    BY <2>1, <2>2
<1> QED
  BY <1>3, <1>4, <1>5

\* Removing one entry of a list without repetitions: the entries before a mark
\* lose that one if it is among them, and stay as they are if it is not.
LEMMA RemoveAtEntries ==
  ASSUME NEW S, NEW s \in Seq(S), Distinct(s), NEW i \in 1 .. Len(s)
  PROVE  /\ Distinct(RemoveAt(s, i))
         /\ \A n \in i .. Len(s) :
              First(RemoveAt(s, i), n - 1) = First(s, n) \ {s[i]}
         /\ \A n \in 0 .. i - 1 : First(RemoveAt(s, i), n) = First(s, n) \ {s[i]}
<1> DEFINE t == RemoveAt(s, i)
<1>1. /\ t \in Seq(S) /\ Len(t) = Len(s) - 1
      /\ \A j \in 1 .. Len(s) - 1 : t[j] = IF j < i THEN s[j] ELSE s[j + 1]
  BY RemoveAtProperties
<1> HIDE DEF t
<1>2. \A j \in 1 .. Len(s) - 1 :
        \E m \in 1 .. Len(s) : m # i /\ t[j] = s[m] /\ (m = j \/ m = j + 1)
                               /\ (j < i <=> m < i)
  BY <1>1
<1>3. Distinct(t)
  BY <1>1 DEF Distinct
<1>4. ASSUME NEW n \in i .. Len(s)
      PROVE  First(t, n - 1) = First(s, n) \ {s[i]}
  <2>1. ASSUME NEW j \in 1 .. n - 1
        PROVE  t[j] \in {s[m] : m \in 1 .. n} \ {s[i]}
    <3>0. j \in 1 .. Len(s) - 1
      OBVIOUS
    <3>1. PICK m \in 1 .. Len(s) : m # i /\ t[j] = s[m] /\ (m = j \/ m = j + 1)
      BY <1>2, <3>0
    <3>2. m \in 1 .. n /\ s[m] # s[i]
      BY <3>1 DEF Distinct
    <3> QED
      BY <3>1, <3>2
  <2>2. ASSUME NEW m \in 1 .. n, s[m] # s[i]
        PROVE  \E j \in 1 .. n - 1 : s[m] = t[j]
    <3>1. CASE m < i
      <4>1. m \in 1 .. n - 1 /\ t[m] = s[m]
        BY <1>1, <3>1
      <4> QED
        BY <4>1
    <3>2. CASE m > i
      <4>1. m - 1 \in 1 .. n - 1 /\ t[m - 1] = s[m - 1 + 1]
        BY <1>1, <3>2
      <4> QED
        BY <4>1
    <3> QED
      BY <2>2, <3>1, <3>2
  <2> QED
    BY <2>1, <2>2 DEF First
<1>5. ASSUME NEW n \in 0 .. i - 1
      PROVE  First(t, n) = First(s, n) \ {s[i]}
  <2>1. \A j \in 1 .. n : t[j] = s[j] /\ s[j] # s[i]
    BY <1>1 DEF Distinct
  <2> QED
    BY <2>1 DEF First
<1> QED
  BY <1>3, <1>4, <1>5 DEF t

-----------------------------------------------------------------------------
(* The three tables.                                                       *)

LEMMA KindsAre ==
  /\ Kinds = {"variable", "account", "file"}
  /\ Table["variable"] = Variables
  /\ Table["account"] = Accounts
  /\ Table["file"] = Files
BY DEF Kinds, Table

LEMMA KindsAreApart ==
  ASSUME NEW k \in Kinds, NEW l \in Kinds, NEW d, d \in Table[k], d \in Table[l]
  PROVE  k = l
BY KindsAre, PurgeAssumption

LEMMA TableIsDocs == \A k \in Kinds : Table[k] \subseteq Doc
BY DEF Doc

\* Lists of documents without repetitions, and marks inside them.
Lists(tr, pa) ==
  /\ tr \in [Kinds -> Seq(Doc)]
  /\ pa \in [Kinds -> Nat]
  /\ \A k \in Kinds : /\ tr[k] \in Seq(Table[k])
                      /\ pa[k] <= Len(tr[k])
                      /\ Distinct(tr[k])

Entries(tr) == UNION {First(tr[k], Len(tr[k])) : k \in Kinds}

Marked(tr, pa) == UNION {First(tr[k], pa[k]) : k \in Kinds}

\* The three ways in which the lists change.
Appended(tr, k, d) == [tr EXCEPT ![k] = Append(@, d)]
Removed(tr, k, i) == [tr EXCEPT ![k] = RemoveAt(@, i)]
MarkBack(pa, k, i) == [pa EXCEPT ![k] = IF i <= @ THEN @ - 1 ELSE @]
MarkOn(pa, k) == [pa EXCEPT ![k] = @ + 1]

LEMMA EntriesAre ==
  ASSUME NEW tr, NEW pa, Lists(tr, pa)
  PROVE  /\ \A d : d \in Entries(tr) <=>
                     \E k \in Kinds : \E i \in 1 .. Len(tr[k]) : d = tr[k][i]
         /\ \A d : d \in Marked(tr, pa) <=>
                     \E k \in Kinds : \E i \in 1 .. pa[k] : d = tr[k][i]
         /\ Marked(tr, pa) \subseteq Entries(tr)
         /\ Entries(tr) \subseteq Doc
<1>2. \A d : d \in Entries(tr) <=>
               \E k \in Kinds : \E i \in 1 .. Len(tr[k]) : d = tr[k][i]
  BY DEF Entries, First
<1>3. \A d : d \in Marked(tr, pa) <=>
               \E k \in Kinds : \E i \in 1 .. pa[k] : d = tr[k][i]
  BY DEF Marked, First
<1>4. \A k \in Kinds : \A i \in 1 .. pa[k] : i \in 1 .. Len(tr[k])
  BY DEF Lists
<1>5. \A k \in Kinds : \A i \in 1 .. Len(tr[k]) : tr[k][i] \in Doc
  BY DEF Lists
<1> QED
  BY <1>2, <1>3, <1>4, <1>5

\* A document is listed at most once.
LEMMA ListedOnce ==
  ASSUME NEW tr, NEW pa, Lists(tr, pa),
         NEW k \in Kinds, NEW i \in 1 .. Len(tr[k]),
         NEW l \in Kinds, NEW j \in 1 .. Len(tr[l]), tr[k][i] = tr[l][j]
  PROVE  k = l /\ i = j
<1>1. tr[k][i] \in Table[k] /\ tr[l][j] \in Table[l]
  BY DEF Lists
<1>2. k = l
  BY <1>1, KindsAreApart
<1> QED
  BY <1>2 DEF Lists, Distinct

\* Restoring or purging one document takes it off its list, and nothing else.
LEMMA RemovalTakesOne ==
  ASSUME NEW tr, NEW pa, Lists(tr, pa),
         NEW k \in Kinds, NEW i \in 1 .. Len(tr[k])
  PROVE  /\ Lists(Removed(tr, k, i), MarkBack(pa, k, i))
         /\ Entries(Removed(tr, k, i)) = Entries(tr) \ {tr[k][i]}
         /\ Marked(Removed(tr, k, i), MarkBack(pa, k, i)) = Marked(tr, pa) \ {tr[k][i]}
<1> DEFINE r == RemoveAt(tr[k], i)
           tn == Removed(tr, k, i)
           pn == MarkBack(pa, k, i)
<1>0. /\ tn = [tr EXCEPT ![k] = RemoveAt(@, i)]
      /\ pn = [pa EXCEPT ![k] = IF i <= @ THEN @ - 1 ELSE @]
  BY DEF Removed, MarkBack
<1> HIDE DEF tn, pn
<1>1. /\ tr[k] \in Seq(Table[k]) /\ tr[k] \in Seq(Doc) /\ Distinct(tr[k])
      /\ pa[k] \in 0 .. Len(tr[k]) /\ Len(tr[k]) \in Nat
      /\ tr \in [Kinds -> Seq(Doc)] /\ pa \in [Kinds -> Nat]
  BY DEF Lists
<1>2. /\ r \in Seq(Table[k]) /\ r \in Seq(Doc)
      /\ Len(r) = Len(tr[k]) - 1 /\ Distinct(r)
  BY <1>1, RemoveAtProperties, RemoveAtEntries
<1>3. /\ \A n \in i .. Len(tr[k]) : First(r, n - 1) = First(tr[k], n) \ {tr[k][i]}
      /\ \A n \in 0 .. i - 1 : First(r, n) = First(tr[k], n) \ {tr[k][i]}
  BY <1>1, RemoveAtEntries
<1> HIDE DEF r
<1>4. First(r, Len(r)) = First(tr[k], Len(tr[k])) \ {tr[k][i]}
  <2>1. Len(tr[k]) \in i .. Len(tr[k])
    BY <1>1
  <2> QED
    BY <1>2, <1>3, <2>1
<1>5. /\ First(r, pn[k]) = First(tr[k], pa[k]) \ {tr[k][i]}
      /\ pn[k] \in 0 .. Len(r)
  <2>1. CASE i <= pa[k]
    <3>1. pn[k] = pa[k] - 1 /\ pa[k] \in i .. Len(tr[k])
      BY <1>0, <1>1, <2>1
    <3>2. pn[k] \in 0 .. Len(r)
      BY <1>1, <1>2, <3>1
    <3> QED
      BY <1>3, <3>1, <3>2
  <2>2. CASE ~(i <= pa[k])
    <3>1. pn[k] = pa[k] /\ pa[k] \in 0 .. i - 1
      BY <1>0, <1>1, <2>2
    <3>2. pn[k] \in 0 .. Len(r)
      BY <1>1, <1>2, <3>1
    <3> QED
      BY <1>3, <3>1, <3>2
  <2> QED
    BY <2>1, <2>2
<1>6. /\ tn[k] = r
      /\ \A l \in Kinds \ {k} : tn[l] = tr[l] /\ pn[l] = pa[l]
      /\ DOMAIN tn = Kinds /\ DOMAIN pn = Kinds
  BY <1>0, <1>1 DEF r
<1>7. Lists(tn, pn)
  <2>1. tn \in [Kinds -> Seq(Doc)]
    BY <1>0, <1>1, <1>2 DEF r
  <2>2. pn \in [Kinds -> Nat]
    BY <1>0, <1>1, <1>5
  <2>3. \A l \in Kinds : tn[l] \in Seq(Table[l]) /\ pn[l] <= Len(tn[l]) /\ Distinct(tn[l])
    <3>1. ASSUME NEW l \in Kinds \ {k}
          PROVE  tn[l] \in Seq(Table[l]) /\ pn[l] <= Len(tn[l]) /\ Distinct(tn[l])
      BY <1>6 DEF Lists
    <3>2. pn[k] <= Len(r)
      BY <1>2, <1>5
    <3> QED
      BY <1>2, <1>6, <3>1, <3>2
  <2> QED
    BY <2>1, <2>2, <2>3 DEF Lists
<1>8. Entries(tn) = Entries(tr) \ {tr[k][i]}
  <2>1. \A l \in Kinds \ {k} : tr[k][i] \notin First(tr[l], Len(tr[l]))
    BY ListedOnce DEF First
  <2>2. \A l \in Kinds : First(tn[l], Len(tn[l])) = First(tr[l], Len(tr[l])) \ {tr[k][i]}
    BY <1>4, <1>6, <2>1
  <2> QED
    <3>1. /\ \A d : d \in Entries(tr) <=> \E l \in Kinds : d \in First(tr[l], Len(tr[l]))
          /\ \A d : d \in Entries(tn) <=> \E l \in Kinds : d \in First(tn[l], Len(tn[l]))
      BY DEF Entries
    <3>2. \A l \in Kinds : \A d : d \in First(tn[l], Len(tn[l]))
                                  <=> d \in First(tr[l], Len(tr[l])) /\ d # tr[k][i]
      BY <2>2
    <3>3. \A d : d \in Entries(tn) <=> d \in Entries(tr) /\ d # tr[k][i]
      BY <3>1, <3>2
    <3> QED
      BY <3>3
<1>9. Marked(tn, pn) = Marked(tr, pa) \ {tr[k][i]}
  <2>1. ASSUME NEW l \in Kinds \ {k}
        PROVE  tr[k][i] \notin First(tr[l], pa[l])
    <3>1. \A j \in 1 .. pa[l] : j \in 1 .. Len(tr[l])
      BY DEF Lists
    <3> QED
      BY <3>1, ListedOnce DEF First
  <2>2. \A l \in Kinds : First(tn[l], pn[l]) = First(tr[l], pa[l]) \ {tr[k][i]}
    BY <1>5, <1>6, <2>1
  <2> QED
    <3>1. /\ \A d : d \in Marked(tr, pa) <=> \E l \in Kinds : d \in First(tr[l], pa[l])
          /\ \A d : d \in Marked(tn, pn) <=> \E l \in Kinds : d \in First(tn[l], pn[l])
      BY DEF Marked
    <3>2. \A l \in Kinds : \A d : d \in First(tn[l], pn[l])
                                  <=> d \in First(tr[l], pa[l]) /\ d # tr[k][i]
      BY <2>2
    <3>3. \A d : d \in Marked(tn, pn) <=> d \in Marked(tr, pa) /\ d # tr[k][i]
      BY <3>1, <3>2
    <3> QED
      BY <3>3
<1> QED
  BY <1>7, <1>8, <1>9 DEF tn, pn

LEMMA AppendKeeps ==
  ASSUME NEW S, NEW s \in Seq(S), Distinct(s), NEW d \in S, d \notin First(s, Len(s))
  PROVE  /\ Append(s, d) \in Seq(S)
         /\ Len(Append(s, d)) = Len(s) + 1
         /\ Distinct(Append(s, d))
         /\ \A n \in 0 .. Len(s) : First(Append(s, d), n) = First(s, n)
         /\ First(Append(s, d), Len(s) + 1) = First(s, Len(s)) \cup {d}
<1>1. /\ Append(s, d) \in Seq(S)
      /\ Len(Append(s, d)) = Len(s) + 1
      /\ \A i \in 1 .. Len(s) : Append(s, d)[i] = s[i]
      /\ Append(s, d)[Len(s) + 1] = d
      /\ Len(s) \in Nat
  OBVIOUS
<1>2. \A i \in 1 .. Len(s) : s[i] # d
  BY DEF First
<1>3. \A i \in 1 .. Len(s) + 1 : i = Len(s) + 1 \/ i \in 1 .. Len(s)
  BY <1>1
<1>4. Distinct(Append(s, d))
  BY <1>1, <1>2, <1>3 DEF Distinct
<1>5. ASSUME NEW n \in 0 .. Len(s)
      PROVE  First(Append(s, d), n) = First(s, n)
  <2>1. \A i \in 1 .. n : Append(s, d)[i] = s[i]
    BY <1>1
  <2> QED
    BY <2>1 DEF First
<1>6. First(Append(s, d), Len(s) + 1) = First(s, Len(s)) \cup {d}
  <2>1. Len(s) + 1 \in 1 .. Len(s) + 1 /\ \A i \in 1 .. Len(s) : i \in 1 .. Len(s) + 1
    BY <1>1
  <2> QED
    BY <1>1, <1>3, <2>1 DEF First
<1> QED
  BY <1>1, <1>4, <1>5, <1>6

\* Trashing a document puts it behind the others of its list, past no mark.
LEMMA AppendingAddsOne ==
  ASSUME NEW tr, NEW pa, Lists(tr, pa),
         NEW k \in Kinds, NEW d \in Table[k], d \notin Entries(tr)
  PROVE  /\ Lists(Appended(tr, k, d), pa)
         /\ Entries(Appended(tr, k, d)) = Entries(tr) \cup {d}
         /\ Marked(Appended(tr, k, d), pa) = Marked(tr, pa)
<1> DEFINE r == Append(tr[k], d)
           tn == Appended(tr, k, d)
<1>0. tn = [tr EXCEPT ![k] = Append(@, d)]
  BY DEF Appended
<1> HIDE DEF tn
<1>1. /\ tr[k] \in Seq(Table[k]) /\ tr[k] \in Seq(Doc) /\ Distinct(tr[k])
      /\ pa[k] \in 0 .. Len(tr[k]) /\ Len(tr[k]) \in Nat
      /\ tr \in [Kinds -> Seq(Doc)] /\ pa \in [Kinds -> Nat]
  BY DEF Lists
<1>2. d \notin First(tr[k], Len(tr[k])) /\ d \in Doc
  BY TableIsDocs DEF Entries
<1>3. /\ r \in Seq(Table[k]) /\ Len(r) = Len(tr[k]) + 1 /\ Distinct(r)
      /\ \A n \in 0 .. Len(tr[k]) : First(r, n) = First(tr[k], n)
      /\ First(r, Len(tr[k]) + 1) = First(tr[k], Len(tr[k])) \cup {d}
  BY <1>1, <1>2, AppendKeeps
<1>4. r \in Seq(Doc)
  BY <1>1, <1>2
<1>5. /\ tn[k] = r
      /\ \A l \in Kinds \ {k} : tn[l] = tr[l]
      /\ tn \in [Kinds -> Seq(Doc)]
  BY <1>0, <1>1, <1>4
<1> HIDE DEF r
<1>6. Lists(tn, pa)
  <2>1. ASSUME NEW l \in Kinds \ {k}
        PROVE  tn[l] \in Seq(Table[l]) /\ pa[l] <= Len(tn[l]) /\ Distinct(tn[l])
    BY <1>5 DEF Lists
  <2>2. pa[k] <= Len(r)
    BY <1>1, <1>3
  <2> QED
    BY <1>1, <1>3, <1>5, <2>1, <2>2 DEF Lists
<1>7. Entries(tn) = Entries(tr) \cup {d}
  <2>1. First(tn[k], Len(tn[k])) = First(tr[k], Len(tr[k])) \cup {d}
    BY <1>3, <1>5
  <2>2. /\ \A e : e \in Entries(tr) <=> \E l \in Kinds : e \in First(tr[l], Len(tr[l]))
        /\ \A e : e \in Entries(tn) <=> \E l \in Kinds : e \in First(tn[l], Len(tn[l]))
    BY DEF Entries
  <2> QED
    BY <1>5, <2>1, <2>2
<1>8. Marked(tn, pa) = Marked(tr, pa)
  <2>1. \A l \in Kinds : First(tn[l], pa[l]) = First(tr[l], pa[l])
    BY <1>1, <1>3, <1>5
  <2>2. /\ \A e : e \in Marked(tr, pa) <=> \E l \in Kinds : e \in First(tr[l], pa[l])
        /\ \A e : e \in Marked(tn, pa) <=> \E l \in Kinds : e \in First(tn[l], pa[l])
    BY DEF Marked
  <2> QED
    BY <2>1, <2>2
<1> QED
  BY <1>6, <1>7, <1>8 DEF tn

\* A window closing moves one mark past one entry.
LEMMA MarkingKeeps ==
  ASSUME NEW tr, NEW pa, Lists(tr, pa),
         NEW k \in Kinds, pa[k] < Len(tr[k])
  PROVE  /\ Lists(tr, MarkOn(pa, k))
         /\ Marked(tr, pa) \subseteq Marked(tr, MarkOn(pa, k))
<1> DEFINE pn == MarkOn(pa, k)
<1>0. pn = [pa EXCEPT ![k] = @ + 1]
  BY DEF MarkOn
<1> HIDE DEF pn
<1>1. /\ pa[k] \in Nat /\ pa \in [Kinds -> Nat] /\ Len(tr[k]) \in Nat
      /\ \A l \in Kinds : pa[l] \in Nat
  BY DEF Lists
<1>2. /\ pn \in [Kinds -> Nat] /\ pn[k] = pa[k] + 1
      /\ \A l \in Kinds \ {k} : pn[l] = pa[l]
  BY <1>0, <1>1
<1>3. Lists(tr, pn)
  <2>1. pn[k] <= Len(tr[k])
    BY <1>1, <1>2
  <2> QED
    BY <1>2, <2>1 DEF Lists
<1>4. \A l \in Kinds : First(tr[l], pa[l]) \subseteq First(tr[l], pn[l])
  <2>1. \A l \in Kinds : \A i \in 1 .. pa[l] : i \in 1 .. pn[l]
    BY <1>1, <1>2
  <2> QED
    BY <2>1 DEF First
<1> QED
  BY <1>3, <1>4 DEF Marked, pn

-----------------------------------------------------------------------------
(* A batch.                                                                *)

LEMMA EntriesAsSet ==
  ASSUME NEW S, NEW s \in Seq(S)
  PROVE  ToSet(s) = First(s, Len(s))
BY DEF ToSet, First

LEMMA ConcatKeeps ==
  ASSUME NEW S, NEW s \in Seq(S), NEW t \in Seq(S), Distinct(s), Distinct(t),
         First(s, Len(s)) \cap First(t, Len(t)) = {}
  PROVE  /\ s \o t \in Seq(S)
         /\ Distinct(s \o t)
         /\ First(s \o t, Len(s \o t)) = First(s, Len(s)) \cup First(t, Len(t))
<1> DEFINE u == s \o t
<1>1. /\ u \in Seq(S)
      /\ Len(u) = Len(s) + Len(t)
      /\ \A i \in 1 .. Len(s) + Len(t) : u[i] = IF i <= Len(s) THEN s[i] ELSE t[i - Len(s)]
      /\ Len(s) \in Nat /\ Len(t) \in Nat
  BY ConcatProperties
<1> HIDE DEF u
<1>2. ASSUME NEW i \in 1 .. Len(u)
      PROVE  \/ i \in 1 .. Len(s) /\ u[i] = s[i]
             \/ i - Len(s) \in 1 .. Len(t) /\ u[i] = t[i - Len(s)]
  BY <1>1
<1>3. \A i \in 1 .. Len(s), j \in 1 .. Len(t) : s[i] # t[j]
  BY DEF First
<1>4. Distinct(u)
  <2> SUFFICES ASSUME NEW i \in 1 .. Len(u), NEW j \in 1 .. Len(u), u[i] = u[j]
               PROVE  i = j
    BY DEF Distinct
  <2>1. CASE i \in 1 .. Len(s) /\ j \in 1 .. Len(s)
    <3>1. u[i] = s[i] /\ u[j] = s[j]
      BY <1>1, <2>1
    <3> QED
      BY <2>1, <3>1 DEF Distinct
  <2>2. CASE i - Len(s) \in 1 .. Len(t) /\ j - Len(s) \in 1 .. Len(t)
    <3>1. u[i] = t[i - Len(s)] /\ u[j] = t[j - Len(s)]
      BY <1>1, <2>2
    <3>2. i - Len(s) = j - Len(s)
      BY <2>2, <3>1 DEF Distinct
    <3> QED
      BY <1>1, <3>2
  <2> QED
    BY <1>2, <1>3, <2>1, <2>2
<1>5. First(u, Len(u)) = First(s, Len(s)) \cup First(t, Len(t))
  <2>1. First(u, Len(u)) \subseteq First(s, Len(s)) \cup First(t, Len(t))
    BY <1>2 DEF First
  <2>2. \A i \in 1 .. Len(s) : i \in 1 .. Len(u) /\ u[i] = s[i]
    BY <1>1
  <2>3. \A i \in 1 .. Len(t) : Len(s) + i \in 1 .. Len(u) /\ u[Len(s) + i] = t[i]
    <3> SUFFICES ASSUME NEW i \in 1 .. Len(t)
                 PROVE  Len(s) + i \in 1 .. Len(u) /\ u[Len(s) + i] = t[i]
      OBVIOUS
    <3>1. Len(s) + i \in 1 .. Len(s) + Len(t) /\ ~(Len(s) + i <= Len(s))
      BY <1>1
    <3>2. (Len(s) + i) - Len(s) = i
      BY <1>1
    <3> QED
      BY <1>1, <3>1, <3>2
  <2>4. First(s, Len(s)) \subseteq First(u, Len(u))
    BY <2>2 DEF First
  <2>5. First(t, Len(t)) \subseteq First(u, Len(u))
    BY <2>3 DEF First
  <2> QED
    BY <2>1, <2>4, <2>5
<1> QED
  BY <1>1, <1>4, <1>5 DEF u

\* .take on one index: overdue documents of one kind, each once, and all of
\* them unless there are as many as PURGE_BATCH_SIZE.
LEMMA OldestTakes ==
  ASSUME Lists(trash, past), NEW k \in Kinds
  PROVE  /\ Oldest(k) \in Seq(Doc)
         /\ Distinct(Oldest(k))
         /\ First(Oldest(k), Len(Oldest(k))) \subseteq First(trash[k], past[k])
         /\ First(Oldest(k), Len(Oldest(k))) \subseteq Table[k]
         /\ Len(Oldest(k)) # BatchSize
              => First(Oldest(k), Len(Oldest(k))) = First(trash[k], past[k])
<1> DEFINE s == trash[k]
           q == Oldest(k)
<1>1. /\ s \in Seq(Table[k]) /\ s \in Seq(Doc) /\ Distinct(s)
      /\ past[k] \in 0 .. Len(s) /\ Len(s) \in Nat
  BY DEF Lists
<1>2. /\ q \in Seq(Doc) /\ q \in Seq(Table[k])
      /\ Len(q) = IF past[k] < BatchSize THEN past[k] ELSE BatchSize
      /\ \A i \in 1 .. Len(q) : i \in 1 .. past[k] /\ q[i] = s[i]
  BY <1>1, TakeProperties DEF Oldest
<1> HIDE DEF q, s
<1>3. \A i \in 1 .. Len(q) : i \in 1 .. Len(s)
  BY <1>1, <1>2
<1>4. Distinct(q)
  BY <1>1, <1>2, <1>3 DEF Distinct
<1>5. First(q, Len(q)) \subseteq First(s, past[k])
  BY <1>2 DEF First
<1>6. First(q, Len(q)) \subseteq Table[k]
  BY <1>2 DEF First
<1>7. ASSUME Len(q) # BatchSize
      PROVE  First(q, Len(q)) = First(s, past[k])
  <2>1. Len(q) = past[k]
    BY <1>1, <1>2, <1>7, PurgeAssumption
  <2>2. \A i \in 1 .. past[k] : q[i] = s[i]
    BY <1>2, <2>1
  <2> QED
    BY <2>1, <2>2 DEF First
<1> QED
  BY <1>2, <1>4, <1>5, <1>6, <1>7 DEF q, s

\* A batch holds overdue documents, each once, and all of them unless it is full.
LEMMA BatchTakes ==
  ASSUME Lists(trash, past)
  PROVE  /\ Batch \in Seq(Doc)
         /\ Distinct(Batch)
         /\ ToSet(Batch) \subseteq Marked(trash, past)
         /\ ~Full => Marked(trash, past) \subseteq ToSet(Batch)
<1> DEFINE a == Oldest("variable")
           b == Oldest("account")
           c == Oldest("file")
           R(s) == First(s, Len(s))
<1>1. {"variable", "account", "file"} = Kinds
  BY KindsAre
<1>2. /\ a \in Seq(Doc) /\ b \in Seq(Doc) /\ c \in Seq(Doc)
      /\ Distinct(a) /\ Distinct(b) /\ Distinct(c)
      /\ R(a) \subseteq Variables /\ R(b) \subseteq Accounts /\ R(c) \subseteq Files
  BY <1>1, KindsAre, OldestTakes
<1> HIDE DEF a, b, c
<1>3. R(a) \cap R(b) = {} /\ (R(a) \cup R(b)) \cap R(c) = {}
  BY <1>2, PurgeAssumption
<1>4. /\ a \o b \in Seq(Doc) /\ Distinct(a \o b)
      /\ R(a \o b) = R(a) \cup R(b)
  BY <1>2, <1>3, ConcatKeeps
<1>5. /\ (a \o b) \o c \in Seq(Doc) /\ Distinct((a \o b) \o c)
      /\ R((a \o b) \o c) = R(a \o b) \cup R(c)
  <2>1. R(a \o b) \cap R(c) = {}
    BY <1>3, <1>4
  <2> DEFINE ab == a \o b
  <2>2. First(ab, Len(ab)) \cap First(c, Len(c)) = {}
    BY <2>1
  <2>3. ab \in Seq(Doc) /\ Distinct(ab)
    BY <1>4
  <2> HIDE DEF ab
  <2>4. /\ ab \o c \in Seq(Doc) /\ Distinct(ab \o c)
        /\ First(ab \o c, Len(ab \o c)) = First(ab, Len(ab)) \cup First(c, Len(c))
    BY <1>2, <2>2, <2>3, ConcatKeeps
  <2> QED
    BY <2>4 DEF ab
<1>6. Batch = (a \o b) \o c
  BY DEF Batch, a, b, c
<1>7. ToSet(Batch) = R(a) \cup R(b) \cup R(c)
  BY <1>4, <1>5, <1>6, EntriesAsSet
<1>8. Marked(trash, past) = First(trash["variable"], past["variable"])
                              \cup First(trash["account"], past["account"])
                              \cup First(trash["file"], past["file"])
  BY <1>1 DEF Marked
<1>9. /\ R(a) \subseteq First(trash["variable"], past["variable"])
      /\ R(b) \subseteq First(trash["account"], past["account"])
      /\ R(c) \subseteq First(trash["file"], past["file"])
  BY <1>1, OldestTakes DEF a, b, c
<1>10. ASSUME ~Full
       PROVE  /\ R(a) = First(trash["variable"], past["variable"])
              /\ R(b) = First(trash["account"], past["account"])
              /\ R(c) = First(trash["file"], past["file"])
  BY <1>1, <1>10, OldestTakes DEF a, b, c, Full
<1> HIDE DEF R
<1> QED
  BY <1>5, <1>6, <1>7, <1>8, <1>9, <1>10

-----------------------------------------------------------------------------
(* What a user may restore is whole, and a chain that stops is done.       *)

\* What is neither overdue nor gone has all its parts.
KeepsParts == \A d \in Doc : d \in Expired \/ d \in purged \/ Whole(d)

\* A run visits overdue documents, each once.
TodoOverdue == stage = "visiting" => Distinct(todo) /\ First(todo, Len(todo)) \subseteq Expired

\* A batch that was full for no kind missed nothing.
AllTaken == full \/ missed = {}

TInv ==
  /\ Lists(trash, past)
  /\ TypeOK
  /\ KeepsParts
  /\ TodoOverdue
  /\ AllTaken

LEMMA TablesRead ==
  ASSUME NEW tr, NEW pa, Lists(tr, pa)
  PROVE  /\ UNION {ToSet(tr[k]) : k \in Kinds} = Entries(tr)
         /\ UNION {{tr[k][i] : i \in 1 .. pa[k]} : k \in Kinds} = Marked(tr, pa)
<1>1. \A k \in Kinds : ToSet(tr[k]) = First(tr[k], Len(tr[k]))
  BY EntriesAsSet DEF Lists
<1>2. UNION {ToSet(tr[k]) : k \in Kinds} = Entries(tr)
  BY <1>1 DEF Entries
<1>3. UNION {{tr[k][i] : i \in 1 .. pa[k]} : k \in Kinds} = Marked(tr, pa)
  BY DEF Marked, First
<1> QED
  BY <1>2, <1>3

LEMMA StateRead ==
  ASSUME TInv
  PROVE  Trashed = Entries(trash) /\ Expired = Marked(trash, past)
BY TablesRead DEF TInv, Trashed, Expired

LEMMA TInitially == Init => TInv
<1> SUFFICES ASSUME Init PROVE TInv
  OBVIOUS
<1>1. Lists(trash, past)
  <2>1. \A k \in Kinds : trash[k] = <<>> /\ past[k] = 0
    BY DEF Init
  <2>2. \A S : <<>> \in Seq(S) /\ Len(<<>>) = 0 /\ Distinct(<<>>)
    BY DEF Distinct
  <2> QED
    BY <2>1, <2>2 DEF Init, Lists
<1>2. Trashed = {}
  <2>1. \A k \in Kinds : ToSet(trash[k]) = {}
    BY DEF Init, ToSet
  <2> QED
    BY <2>1 DEF Trashed
<1>3. TypeOK
  <2>1. 0 \in 0 .. MaxDepth - 1
    BY PurgeAssumption
  <2>2. Files \subseteq Doc
    BY KindsAre, TableIsDocs
  <2> QED
    <3>1. /\ trash \in [Kinds -> Seq(Doc)] /\ past \in [Kinds -> Nat]
          /\ \A k \in Kinds : trash[k] \in Seq(Table[k]) /\ past[k] <= Len(trash[k])
      BY <1>1 DEF Lists
    <3>2. todo \in Seq(Doc)
      BY DEF Init
    <3> QED
      BY <1>2, <2>1, <2>2, <3>1, <3>2 DEF Init, TypeOK
<1>4. KeepsParts
  BY DEF Init, KeepsParts, Whole
<1> QED
  BY <1>1, <1>3, <1>4 DEF TInv, Init, TodoOverdue, AllTaken

\* The lists change and nothing else: no document leaves the overdue ones, and
\* what is added to the lists was not purged.
LEMMA ListsMove ==
  ASSUME TInv, UNCHANGED <<key, blob, purged, runVars>>,
         Lists(trash', past'),
         Entries(trash') \cap purged = {},
         Marked(trash, past) \subseteq Marked(trash', past')
  PROVE  TInv'
<1>1. /\ Trashed' = Entries(trash') /\ Expired' = Marked(trash', past')
      /\ Expired = Marked(trash, past)
  BY TablesRead, StateRead DEF Trashed, Expired
<1>2. /\ key' = key /\ blob' = blob /\ purged' = purged /\ stage' = stage
      /\ depth' = depth /\ todo' = todo /\ at' = at /\ full' = full /\ missed' = missed
  BY DEF runVars
<1>3. TypeOK'
  BY <1>1, <1>2 DEF TInv, TypeOK, Lists
<1>4. KeepsParts'
  BY <1>1, <1>2 DEF TInv, KeepsParts, Whole
<1>5. TodoOverdue' /\ AllTaken'
  BY <1>1, <1>2 DEF TInv, TodoOverdue, AllTaken
<1> QED
  BY <1>3, <1>4, <1>5 DEF TInv

LEMMA ListingsPreserve ==
  ASSUME TInv, NEW k \in Kinds, Trash(k) \/ Restore(k) \/ Expire(k)
  PROVE  TInv'
<1>1. /\ Lists(trash, past) /\ trash \in [Kinds -> Seq(Doc)] /\ past \in [Kinds -> Nat]
      /\ past[k] \in 0 .. Len(trash[k]) /\ Len(trash[k]) \in Nat
      /\ Entries(trash) \cap purged = {}
  BY StateRead DEF TInv, Lists, TypeOK
<1>2. CASE Trash(k)
  <2>1. PICK d \in Table[k] \cap Live : trash' = Appended(trash, k, d)
    BY <1>2 DEF Trash, Appended
  <2>2. past' = past /\ UNCHANGED <<key, blob, purged, runVars>>
    BY <1>2 DEF Trash
  <2>3. d \notin Entries(trash) /\ d \notin purged
    BY StateRead DEF Live
  <2>4. /\ Lists(trash', past)
        /\ Entries(trash') = Entries(trash) \cup {d}
        /\ Marked(trash', past) = Marked(trash, past)
    BY <1>1, <2>1, <2>3, AppendingAddsOne
  <2> QED
    BY <1>1, <2>2, <2>3, <2>4, ListsMove
<1>3. CASE Restore(k)
  <2>1. PICK i \in past[k] + 1 .. Len(trash[k]) :
               trash' = Removed(trash, k, i)
    BY <1>3 DEF Restore, Removed
  <2>2. past' = past /\ UNCHANGED <<key, blob, purged, runVars>>
    BY <1>3 DEF Restore
  <2>3. i \in 1 .. Len(trash[k]) /\ ~(i <= past[k])
    BY <1>1
  <2>4. past = MarkBack(past, k, i)
    BY <1>1, <2>3 DEF MarkBack
  <2>5. /\ Lists(trash', past)
        /\ Entries(trash') = Entries(trash) \ {trash[k][i]}
        /\ Marked(trash', past) = Marked(trash, past) \ {trash[k][i]}
    BY <1>1, <2>1, <2>3, <2>4, RemovalTakesOne
  <2>6. trash[k][i] \notin Marked(trash, past)
    <3>1. ASSUME NEW l \in Kinds, NEW j \in 1 .. past[l], trash[l][j] = trash[k][i]
          PROVE  FALSE
      <4>1. j \in 1 .. Len(trash[l])
        BY <1>1 DEF Lists
      <4>2. l = k /\ j = i
        BY <1>1, <2>3, <3>1, <4>1, ListedOnce
      <4> QED
        BY <2>3, <4>2
    <3> QED
      BY <1>1, <3>1, EntriesAre
  <2> QED
    BY <1>1, <2>2, <2>5, <2>6, ListsMove
<1>4. CASE Expire(k)
  <2>1. /\ past[k] < Len(trash[k]) /\ past' = MarkOn(past, k)
        /\ trash' = trash /\ UNCHANGED <<key, blob, purged, runVars>>
    BY <1>4 DEF Expire, MarkOn
  <2>2. Lists(trash, past') /\ Marked(trash, past) \subseteq Marked(trash, past')
    BY <1>1, <2>1, MarkingKeeps
  <2> QED
    BY <1>1, <2>1, <2>2, ListsMove
<1> QED
  BY <1>2, <1>3, <1>4

LEMMA TailLeaves ==
  ASSUME NEW S, NEW s \in Seq(S), s # <<>>, Distinct(s)
  PROVE  /\ Tail(s) \in Seq(S)
         /\ Distinct(Tail(s))
         /\ Head(s) \in First(s, Len(s))
         /\ First(Tail(s), Len(Tail(s))) = First(s, Len(s)) \ {Head(s)}
<1> DEFINE t == Tail(s)
<1>1. /\ t \in Seq(S) /\ Len(t) = Len(s) - 1
      /\ \A i \in 1 .. Len(s) - 1 : t[i] = s[i + 1]
      /\ Head(s) = s[1] /\ Len(s) \in Nat /\ Len(s) >= 1
  OBVIOUS
<1> HIDE DEF t
<1>2. \A i \in 1 .. Len(t) : i + 1 \in 1 .. Len(s) /\ t[i] = s[i + 1]
  BY <1>1
<1>3. Distinct(t)
  <2> SUFFICES ASSUME NEW i \in 1 .. Len(t), NEW j \in 1 .. Len(t), t[i] = t[j]
               PROVE  i = j
    BY DEF Distinct
  <2>1. i + 1 = j + 1
    BY <1>2 DEF Distinct
  <2> QED
    BY <1>1, <2>1
<1>4. 1 \in 1 .. Len(s)
  BY <1>1
<1>5. Head(s) \in First(s, Len(s))
  BY <1>1, <1>4 DEF First
<1>6. First(t, Len(t)) \subseteq First(s, Len(s)) \ {Head(s)}
  <2> SUFFICES ASSUME NEW i \in 1 .. Len(t)
               PROVE  t[i] \in First(s, Len(s)) /\ t[i] # s[1]
    BY <1>1 DEF First
  <2>1. i + 1 # 1
    BY <1>1
  <2>2. s[i + 1] # s[1]
    BY <1>2, <1>4, <2>1 DEF Distinct
  <2> QED
    BY <1>2, <2>2 DEF First
<1>7. First(s, Len(s)) \ {Head(s)} \subseteq First(t, Len(t))
  <2> SUFFICES ASSUME NEW j \in 1 .. Len(s), s[j] # s[1]
               PROVE  \E i \in 1 .. Len(t) : s[j] = t[i]
    BY <1>1 DEF First
  <2>1. j - 1 \in 1 .. Len(s) - 1 /\ (j - 1) + 1 = j
    BY <1>1
  <2> QED
    BY <1>1, <2>1
<1> QED
  BY <1>1, <1>3, <1>5, <1>6, <1>7 DEF t

LEMMA EntryIsPart == \A docs : Entry(docs) \in {"blob", "key"}
BY DEF Entry

\* A batch is listed: only overdue documents are on it.
LEMMA ListPreserves ==
  ASSUME TInv, List
  PROVE  TInv'
<1>1. /\ stage' = "visiting" /\ todo' = Batch /\ at' = Entry(Batch)
      /\ full' = Full /\ missed' = Expired \ ToSet(Batch) /\ depth' = depth
      /\ trash' = trash /\ past' = past /\ key' = key /\ blob' = blob /\ purged' = purged
  BY DEF List, docVars
<1>2. /\ Batch \in Seq(Doc) /\ Distinct(Batch)
      /\ ToSet(Batch) \subseteq Expired
      /\ ~Full => Expired \subseteq ToSet(Batch)
      /\ ToSet(Batch) = First(Batch, Len(Batch))
  BY BatchTakes, EntriesAsSet, StateRead DEF TInv
<1>3. Expired' = Expired /\ Trashed' = Trashed /\ Lists(trash', past')
  BY <1>1 DEF Expired, Trashed, TInv
<1>4. Expired \subseteq Doc
  BY StateRead, EntriesAre DEF TInv
<1>5. Full \in BOOLEAN
  BY DEF Full
<1>6. TypeOK'
  BY <1>1, <1>2, <1>3, <1>4, <1>5, EntryIsPart DEF TInv, TypeOK
<1>7. KeepsParts'
  BY <1>1, <1>3 DEF TInv, KeepsParts, Whole
<1>8. TodoOverdue'
  BY <1>1, <1>2, <1>3 DEF TodoOverdue
<1>9. AllTaken'
  BY <1>1, <1>2 DEF AllTaken
<1> QED
  BY <1>3, <1>6, <1>7, <1>8, <1>9 DEF TInv

\* The next document of the batch.
LEMMA AdvanceLeaves ==
  ASSUME TInv, stage = "visiting", todo # <<>>, Advance
  PROVE  /\ todo' \in Seq(Doc) /\ at' \in {"blob", "key", "row"}
         /\ Distinct(todo')
         /\ First(todo', Len(todo')) = First(todo, Len(todo)) \ {Head(todo)}
         /\ stage' = stage /\ depth' = depth /\ full' = full /\ missed' = missed
<1>1. todo \in Seq(Doc) /\ Distinct(todo)
  BY DEF TInv, TypeOK, TodoOverdue
<1>2. todo' = Tail(todo) /\ at' = Entry(Tail(todo))
  BY DEF Advance
<1> QED
  BY <1>1, <1>2, TailLeaves, EntryIsPart DEF Advance

LEMMA VisitPreserves ==
  ASSUME TInv, NEW d \in Doc, Visit(d)
  PROVE  TInv'
<1>1. stage = "visiting" /\ todo # <<>> /\ d = Head(todo)
  BY DEF Visit, DeleteBlob, BlobFails, DeleteKey, KeyFails, HardDelete, Visiting
<1>2. todo \in Seq(Doc) /\ Distinct(todo) /\ First(todo, Len(todo)) \subseteq Expired
  BY <1>1 DEF TInv, TypeOK, TodoOverdue
<1>3. d \in Expired
  BY <1>1, <1>2, TailLeaves
<1>4. CASE DeleteBlob(d) \/ DeleteKey(d)
  <2>1. /\ trash' = trash /\ past' = past /\ purged' = purged
        /\ todo' = todo /\ stage' = stage /\ depth' = depth
        /\ full' = full /\ missed' = missed
        /\ at' \in {"key", "row"}
        /\ key \ {d} \subseteq key' /\ key' \subseteq key
        /\ blob \ {d} \subseteq blob' /\ blob' \subseteq blob
    BY <1>4 DEF DeleteBlob, DeleteKey, GoTo
  <2>2. Expired' = Expired /\ Trashed' = Trashed /\ Lists(trash', past')
    BY <2>1 DEF Expired, Trashed, TInv
  <2>3. TypeOK'
    BY <2>1, <2>2 DEF TInv, TypeOK
  <2>4. KeepsParts'
    BY <1>3, <2>1, <2>2 DEF TInv, KeepsParts, Whole
  <2> QED
    BY <2>1, <2>2, <2>3, <2>4 DEF TInv, TodoOverdue, AllTaken
<1>5. CASE BlobFails(d) \/ KeyFails(d)
  <2>1. /\ trash' = trash /\ past' = past /\ purged' = purged
        /\ key' = key /\ blob' = blob /\ Advance
    BY <1>5 DEF BlobFails, KeyFails, docVars
  <2>2. Expired' = Expired /\ Trashed' = Trashed /\ Lists(trash', past')
    BY <2>1 DEF Expired, Trashed, TInv
  <2>3. /\ todo' \in Seq(Doc) /\ at' \in {"blob", "key", "row"}
        /\ Distinct(todo')
        /\ First(todo', Len(todo')) \subseteq First(todo, Len(todo))
        /\ stage' = stage /\ depth' = depth /\ full' = full /\ missed' = missed
    BY <1>1, <2>1, AdvanceLeaves
  <2>4. TypeOK'
    BY <2>1, <2>2, <2>3 DEF TInv, TypeOK
  <2>5. KeepsParts'
    BY <2>1, <2>2 DEF TInv, KeepsParts, Whole
  <2> QED
    BY <1>2, <2>2, <2>3, <2>4, <2>5 DEF TInv, TodoOverdue, AllTaken
<1>6. CASE HardDelete(d)
  <2>1. PICK k \in Kinds : \E i \in 1 .. past[k] :
          /\ trash[k][i] = d
          /\ trash' = [trash EXCEPT ![k] = RemoveAt(@, i)]
          /\ past' = [past EXCEPT ![k] = @ - 1]
    BY <1>3, <1>6 DEF HardDelete
  <2>2. PICK i \in 1 .. past[k] :
          /\ trash[k][i] = d
          /\ trash' = [trash EXCEPT ![k] = RemoveAt(@, i)]
          /\ past' = [past EXCEPT ![k] = @ - 1]
    BY <2>1
  <2>3. /\ purged' = purged \cup {d} /\ key' = key /\ blob' = blob /\ Advance
    BY <1>3, <1>6 DEF HardDelete
  <2>4. /\ past \in [Kinds -> Nat] /\ Lists(trash, past)
        /\ i \in 1 .. Len(trash[k]) /\ i <= past[k]
    BY DEF TInv, Lists
  <2>5. trash' = Removed(trash, k, i) /\ past' = MarkBack(past, k, i)
    BY <2>2, <2>4 DEF Removed, MarkBack
  <2>6. /\ Lists(trash', past')
        /\ Entries(trash') = Entries(trash) \ {d}
        /\ Marked(trash', past') = Marked(trash, past) \ {d}
    <3>1. /\ Lists(Removed(trash, k, i), MarkBack(past, k, i))
          /\ Entries(Removed(trash, k, i)) = Entries(trash) \ {trash[k][i]}
          /\ Marked(Removed(trash, k, i), MarkBack(past, k, i))
               = Marked(trash, past) \ {trash[k][i]}
      BY <2>4, RemovalTakesOne
    <3> QED
      BY <2>2, <2>5, <3>1
  <2>7. Expired' = Expired \ {d} /\ Trashed' = Trashed \ {d}
    <3>1. Trashed' = Entries(trash') /\ Expired' = Marked(trash', past')
      BY <2>6, TablesRead DEF Trashed, Expired
    <3> QED
      BY <2>6, <3>1, StateRead
  <2>8. /\ todo' \in Seq(Doc) /\ at' \in {"blob", "key", "row"}
        /\ Distinct(todo')
        /\ First(todo', Len(todo')) = First(todo, Len(todo)) \ {d}
        /\ stage' = stage /\ depth' = depth /\ full' = full /\ missed' = missed
    BY <1>1, <2>3, AdvanceLeaves
  <2>9. TypeOK'
    <3>1. /\ trash' \in [Kinds -> Seq(Doc)] /\ past' \in [Kinds -> Nat]
          /\ \A l \in Kinds : trash'[l] \in Seq(Table[l]) /\ past'[l] <= Len(trash'[l])
      BY <2>6 DEF Lists
    <3>2. purged' \subseteq Doc \ Trashed'
      BY <2>3, <2>7 DEF TInv, TypeOK
    <3> QED
      BY <2>3, <2>8, <3>1, <3>2 DEF TInv, TypeOK
  <2>10. KeepsParts'
    BY <2>3, <2>7 DEF TInv, KeepsParts, Whole
  <2> QED
    BY <1>2, <2>6, <2>7, <2>8, <2>9, <2>10 DEF TInv, TodoOverdue, AllTaken
<1> QED
  BY <1>4, <1>5, <1>6 DEF Visit

\* The chain moves on or stops between two visits.
LEMMA ChainPreserves ==
  ASSUME TInv, Tick \/ Abort \/ Finish \/ RunCrashes
  PROVE  TInv'
<1>1. /\ trash' = trash /\ past' = past /\ key' = key /\ blob' = blob
      /\ purged' = purged /\ todo' = todo /\ at' = at /\ full' = full
      /\ missed' = missed
  BY DEF Tick, Abort, Finish, RunCrashes, docVars
<1>2. stage' \in {"idle", "due"}
  BY DEF Tick, Abort, Finish, RunCrashes
<1>3. depth' \in 0 .. MaxDepth - 1
  <2>1. 0 \in 0 .. MaxDepth - 1
    BY PurgeAssumption
  <2>2. depth \in 0 .. MaxDepth - 1
    BY DEF TInv, TypeOK
  <2>3. CASE Finish
    BY <2>2, <2>3, PurgeAssumption DEF Finish
  <2>4. CASE Tick \/ Abort \/ RunCrashes
    BY <2>1, <2>2, <2>4 DEF Tick, Abort, RunCrashes
  <2> QED
    BY <2>3, <2>4
<1>4. Expired' = Expired /\ Trashed' = Trashed /\ Lists(trash', past')
  BY <1>1 DEF Expired, Trashed, TInv
<1>5. TypeOK'
  BY <1>1, <1>2, <1>3, <1>4 DEF TInv, TypeOK
<1>6. KeepsParts'
  BY <1>1, <1>4 DEF TInv, KeepsParts, Whole
<1> QED
  BY <1>1, <1>2, <1>4, <1>5, <1>6 DEF TInv, TodoOverdue, AllTaken

LEMMA TPreserved == TInv /\ [Next]_vars => TInv'
<1> SUFFICES ASSUME TInv, [Next]_vars
             PROVE  TInv'
  OBVIOUS
<1>1. CASE UNCHANGED vars
  BY <1>1 DEF vars, docVars, runVars, TInv, TypeOK, KeepsParts, Whole, TodoOverdue,
       AllTaken, Expired, Trashed
<1> QED
  BY <1>1, ListingsPreserve, ListPreserves, VisitPreserves, ChainPreserves DEF Next

\* The types, and with them that a mark never passes the end of its list, that
\* no purged document is listed again, and that a chain respects
\* MAX_RESCHEDULE_DEPTH.
THEOREM TypesHold == Spec => []TypeOK
<1>1. TInv => TypeOK
  BY DEF TInv
<1> QED
  BY <1>1, TInitially, TPreserved, PTL DEF Spec

\* Whatever fails, wherever runs stop and however restores interleave with them:
\* a document that is live or may still be restored has its key and, if it is a
\* file, its ciphertext. listPurgeEligible takes overdue documents only, and
\* nothing brings one of those back.
THEOREM RestorableWhole == Spec => []RestorableIsWhole
<1>1. TInv => RestorableIsWhole
  <2> SUFFICES ASSUME TInv, NEW d \in Live \cup (Trashed \ Expired)
               PROVE  Whole(d)
    BY DEF RestorableIsWhole
  <2>1. Expired \subseteq Trashed /\ Trashed \subseteq Doc
    BY StateRead, EntriesAre DEF TInv
  <2>2. d \in Doc /\ d \notin Expired /\ d \notin purged
    BY <2>1 DEF Live, TInv, TypeOK
  <2> QED
    BY <2>2 DEF TInv, KeepsParts
<1> QED
  BY <1>1, TInitially, TPreserved, PTL DEF Spec

\* A chain that ends before the depth limit ended on a listing that had taken
\* everything overdue: fullBatch looks at each kind (gc.ts:445-449).
THEOREM ChainStopsWhenDone == Spec => StopsWhenDone
<1>1. TInv /\ [Next]_vars =>
        [Finish /\ stage' = "idle" /\ depth + 1 < MaxDepth => missed = {}]_vars
  <2> SUFFICES ASSUME TInv, Finish, stage' = "idle", depth + 1 < MaxDepth
               PROVE  missed = {}
    OBVIOUS
  <2>1. ~full
    BY DEF Finish
  <2> QED
    BY <2>1 DEF TInv, AllTaken
<1> QED
  BY <1>1, TInitially, TPreserved, PTL DEF Spec, StopsWhenDone

-----------------------------------------------------------------------------
(* The order of the deletes.  Which documents a batch holds does not       *)
(* matter here.                                                            *)

\* What the visit has done to the current document before it deletes a key.
KeyOnlyWithoutBlob == at = "key" /\ todo # <<>> => Head(todo) \notin blob

\* And before it deletes the row.
RowOnlyWhenGone == at = "row" /\ todo # <<>> => Head(todo) \notin key \cup blob

OrderInv ==
  /\ blob \subseteq Files
  /\ CiphertextKeepsKey
  /\ RowsGoLast
  /\ KeyOnlyWithoutBlob
  /\ RowOnlyWhenGone

\* A visit starts with the blob of a file, and with the key of what has none.
LEMMA EntryStarts ==
  ASSUME OrderInv, NEW docs, NEW part, part = Entry(docs)
  PROVE  /\ part = "key" /\ docs # <<>> => Head(docs) \notin blob
         /\ part # "row"
<1>1. blob \subseteq Files
  BY DEF OrderInv, CiphertextKeepsKey, RowsGoLast,
       KeyOnlyWithoutBlob, RowOnlyWhenGone
<1>2. CASE docs # <<>> /\ Head(docs) \in Files
  BY <1>2 DEF Entry
<1>3. CASE ~(docs # <<>> /\ Head(docs) \in Files)
  BY <1>1, <1>3 DEF Entry
<1> QED
  BY <1>2, <1>3

LEMMA OrderInitially == Init => OrderInv
<1>1. Files \subseteq Doc
  BY KindsAre, TableIsDocs
<1> QED
  BY <1>1 DEF Init, OrderInv, CiphertextKeepsKey, RowsGoLast, KeyOnlyWithoutBlob,
       RowOnlyWhenGone

\* Skipping a document, or leaving it behind, moves to the next one's start.
LEMMA AdvanceKeepsOrder ==
  ASSUME OrderInv, Advance, key' = key, blob' = blob,
         purged' \cap (key \cup blob) = {}
  PROVE  OrderInv'
<1>1. todo' = Tail(todo) /\ at' = Entry(Tail(todo))
  BY DEF Advance
<1>2. /\ at' = "key" /\ todo' # <<>> => Head(todo') \notin blob
      /\ at' # "row"
  BY <1>1, EntryStarts
<1> QED
  BY <1>2 DEF OrderInv, CiphertextKeepsKey, RowsGoLast,
       KeyOnlyWithoutBlob, RowOnlyWhenGone

\* Listing a batch starts with its first document.
LEMMA ListKeepsOrder ==
  ASSUME OrderInv, List
  PROVE  OrderInv'
<1>1. /\ at' = Entry(Batch) /\ todo' = Batch
      /\ key' = key /\ blob' = blob /\ purged' = purged
  BY DEF List, docVars
<1>2. /\ at' = "key" /\ todo' # <<>> => Head(todo') \notin blob
      /\ at' # "row"
  BY <1>1, EntryStarts
<1> QED
  BY <1>1, <1>2 DEF OrderInv, CiphertextKeepsKey, RowsGoLast,
       KeyOnlyWithoutBlob, RowOnlyWhenGone

LEMMA VisitKeepsOrder ==
  ASSUME OrderInv, NEW d \in Doc, Visit(d)
  PROVE  OrderInv'
<1>1. CASE DeleteBlob(d)
  <2>1. /\ blob' = blob \ {d} /\ key' = key /\ purged' = purged
        /\ at' = "key" /\ todo' = todo /\ d = Head(todo)
    BY <1>1 DEF DeleteBlob, GoTo, Visiting
  <2> QED
    BY <2>1 DEF OrderInv, CiphertextKeepsKey, RowsGoLast,
       KeyOnlyWithoutBlob, RowOnlyWhenGone
<1>2. CASE BlobFails(d) \/ KeyFails(d)
  <2>1. Advance /\ key' = key /\ blob' = blob /\ purged' = purged
    BY <1>2 DEF BlobFails, KeyFails, docVars
  <2> QED
    BY <2>1, AdvanceKeepsOrder DEF OrderInv, CiphertextKeepsKey, RowsGoLast,
       KeyOnlyWithoutBlob, RowOnlyWhenGone
<1>3. CASE DeleteKey(d)
  <2>1. /\ key' = key \ {d} /\ blob' = blob /\ purged' = purged
        /\ at' = "row" /\ todo' = todo
    BY <1>3 DEF DeleteKey, GoTo
  <2>2. d = Head(todo) /\ d \notin blob
    BY <1>3 DEF DeleteKey, Visiting, OrderInv, CiphertextKeepsKey, RowsGoLast,
       KeyOnlyWithoutBlob, RowOnlyWhenGone
  <2> QED
    BY <2>1, <2>2 DEF OrderInv, CiphertextKeepsKey, RowsGoLast,
       KeyOnlyWithoutBlob, RowOnlyWhenGone
<1>4. CASE HardDelete(d)
  <2>1. Advance /\ key' = key /\ blob' = blob /\ purged' \subseteq purged \cup {d}
    BY <1>4 DEF HardDelete
  <2>2. d \notin key \cup blob
    BY <1>4 DEF HardDelete, Visiting, OrderInv, CiphertextKeepsKey, RowsGoLast,
       KeyOnlyWithoutBlob, RowOnlyWhenGone
  <2>3. purged' \cap (key \cup blob) = {}
    BY <2>1, <2>2 DEF OrderInv, CiphertextKeepsKey, RowsGoLast,
       KeyOnlyWithoutBlob, RowOnlyWhenGone
  <2> QED
    BY <2>1, <2>3, AdvanceKeepsOrder
<1> QED
  BY <1>1, <1>2, <1>3, <1>4 DEF Visit

LEMMA OrderPreserved == OrderInv /\ [Next]_vars => OrderInv'
<1> SUFFICES ASSUME OrderInv, [Next]_vars
             PROVE  OrderInv'
  OBVIOUS
<1>1. ASSUME NEW k \in Kinds, Trash(k) \/ Restore(k) \/ Expire(k)
      PROVE  OrderInv'
  <2>1. UNCHANGED <<key, blob, purged, at, todo>>
    BY <1>1 DEF Trash, Restore, Expire, runVars
  <2> QED
    BY <2>1 DEF OrderInv, CiphertextKeepsKey, RowsGoLast,
       KeyOnlyWithoutBlob, RowOnlyWhenGone
<1>2. CASE Tick \/ Abort \/ Finish \/ RunCrashes \/ UNCHANGED vars
  <2>1. UNCHANGED <<key, blob, purged, at, todo>>
    BY <1>2 DEF Tick, Abort, Finish, RunCrashes, docVars, runVars, vars
  <2> QED
    BY <2>1 DEF OrderInv, CiphertextKeepsKey, RowsGoLast,
       KeyOnlyWithoutBlob, RowOnlyWhenGone
<1> QED
  BY <1>1, <1>2, ListKeepsOrder, VisitKeepsOrder DEF Next

\* In every reachable state, whatever fails and wherever a run stops, a file's
\* ciphertext is gone before its key: purgeExpiredBatch deletes the blob first.
THEOREM BlobGoesFirst == Spec => []CiphertextKeepsKey
<1>1. OrderInv => CiphertextKeepsKey
  BY DEF OrderInv, CiphertextKeepsKey, RowsGoLast,
       KeyOnlyWithoutBlob, RowOnlyWhenGone
<1> QED
  BY <1>1, OrderInitially, OrderPreserved, PTL DEF Spec

\* In every reachable state a purged row has left no vault object and no blob:
\* hardDelete* is called only when every delete before it reported success.
THEOREM RowGoesLast == Spec => []RowsGoLast
<1>1. OrderInv => RowsGoLast
  BY DEF OrderInv, CiphertextKeepsKey, RowsGoLast,
       KeyOnlyWithoutBlob, RowOnlyWhenGone
<1> QED
  BY <1>1, OrderInitially, OrderPreserved, PTL DEF Spec
=============================================================================
