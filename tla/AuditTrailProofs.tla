--------------------------- MODULE AuditTrailProofs ---------------------------
(***************************************************************************)
(* What a hash chain is worth, for a trail of any length and any bodies:   *)
(* the lemmas about the chain (adapters/local/audit.py and the log it      *)
(* wraps), and from them the two promises of AuditTrail, whatever is       *)
(* recorded, edited, re-anchored, exported and restored in between.        *)
(***************************************************************************)
EXTENDS AuditTrail, FiniteSetTheorems, SequenceTheorems, TLAPS

(* Rows that say something, with any hash at all. *)
RowsOver(B) == Seq([body : B, hash : Seq(B)])

AllLinked(table) == \A i \in DOMAIN table : Linked(table, i)

-----------------------------------------------------------------------------
(* The least number principle, for a set: the intervals below its members  *)
(* are finite and well-founded under inclusion.                            *)
LEMMA LeastOf ==
  ASSUME NEW S \in SUBSET Nat, S # {}
  PROVE  \E m \in S : \A k \in S : m <= k
<1>. DEFINE T == {1..k : k \in S}
            R == StrictSubsetOrdering(Nat)
<1>1. IsWellFoundedOn(R, FiniteSubsetsOf(Nat))
  BY FS_StrictSubsetOrderingWellFounded
<1>2. T \subseteq FiniteSubsetsOf(Nat) /\ T # {}
  <2>1. \A k \in S : 1..k \subseteq Nat /\ IsFiniteSet(1..k)
    BY FS_Interval
  <2>. QED  BY <2>1 DEF FiniteSubsetsOf
<1>3. \A k, m \in S : k < m => <<1..k, 1..m>> \in R
  <2>. SUFFICES ASSUME NEW k \in S, NEW m \in S, k < m
                PROVE  <<1..k, 1..m>> \in R
    OBVIOUS
  <2>1. /\ 1..k \in SUBSET Nat /\ 1..m \in SUBSET Nat
        /\ 1..k \subseteq 1..m /\ m \in 1..m /\ m \notin 1..k
    OBVIOUS
  <2>. QED  BY <2>1 DEF StrictSubsetOrdering
<1>. HIDE DEF R
<1>4. PICK least \in T : \A other \in T : ~(<<other, least>> \in R)
  <2>. HIDE DEF T
  <2>. QED  BY <1>1, <1>2, WFMin
<1>5. PICK m \in S : least = 1..m
  OBVIOUS
<1>6. \A k \in S : ~(k < m)
  BY <1>3, <1>4, <1>5
<1>. QED  BY <1>6

(* The first of some indices, and 0 for none. *)
LEMMA FirstIsLeast ==
  ASSUME NEW S \in SUBSET (Nat \ {0})
  PROVE  /\ First(S) = 0 <=> S = {}
         /\ \A i \in S : (\A j \in S : i <= j) => First(S) = i
<1>1. CASE S = {}
  BY <1>1 DEF First
<1>2. CASE S # {}
  <2>1. PICK m \in S : \A k \in S : m <= k
    BY <1>2, LeastOf
  <2>2. /\ First(S) \in S
        /\ \A j \in S : First(S) <= j
    BY <1>2, <2>1 DEF First
  <2>3. First(S) \in Nat /\ First(S) # 0
    BY <2>2
  <2>4. ASSUME NEW i \in S, \A j \in S : i <= j
        PROVE  First(S) = i
    <3>1. i <= First(S) /\ First(S) <= i /\ i \in Nat
      BY <2>2, <2>4
    <3>. QED  BY <2>3, <3>1
  <2>. QED  BY <1>2, <2>3, <2>4
<1>. QED  BY <1>1, <1>2

(* A table is good exactly when each of its links holds. *)
LEMMA GoodMeansLinked ==
  ASSUME NEW B, NEW table \in RowsOver(B)
  PROVE  FirstBad(table) = 0 <=> AllLinked(table)
<1>1. DOMAIN table \subseteq Nat \ {0}
  BY DEF RowsOver
<1>. DEFINE bad == {i \in DOMAIN table : ~Linked(table, i)}
<1>2. bad \in SUBSET (Nat \ {0})
  BY <1>1
<1>3. bad = {} <=> AllLinked(table)
  BY DEF AllLinked
<1>4. FirstBad(table) = First(bad)
  BY DEF FirstBad
<1>. HIDE DEF bad
<1>. QED  BY <1>2, <1>3, <1>4, FirstIsLeast

LEMMA FirstBrokenLink ==
  ASSUME NEW B, NEW table \in RowsOver(B), NEW i \in DOMAIN table,
         ~Linked(table, i), \A j \in DOMAIN table : j < i => Linked(table, j)
  PROVE  FirstBad(table) = i
<1>. DEFINE bad == {j \in DOMAIN table : ~Linked(table, j)}
<1>1. DOMAIN table \subseteq Nat \ {0}
  BY DEF RowsOver
<1>2. bad \in SUBSET (Nat \ {0}) /\ i \in bad /\ \A j \in bad : i <= j
  BY <1>1
<1>3. FirstBad(table) = First(bad)
  BY DEF FirstBad
<1>. HIDE DEF bad
<1>. QED  BY <1>2, <1>3, FirstIsLeast

-----------------------------------------------------------------------------
LEMMA BodiesAreASeq ==
  ASSUME NEW B, NEW table \in RowsOver(B)
  PROVE  /\ BodiesOf(table) \in Seq(B)
         /\ Len(BodiesOf(table)) = Len(table)
         /\ DOMAIN table = 1..Len(table) /\ Len(table) \in Nat
         /\ \A i \in DOMAIN table : /\ BodiesOf(table)[i] = table[i].body
                                    /\ table[i] \in [body : B, hash : Seq(B)]
<1>1. DOMAIN table = 1..Len(table) /\ Len(table) \in Nat
  BY DEF RowsOver
<1>2. \A i \in DOMAIN table : table[i] \in [body : B, hash : Seq(B)]
  BY <1>1, ElementOfSeq DEF RowsOver
<1>3. BodiesOf(table) = [i \in 1..Len(table) |-> table[i].body]
  BY <1>1 DEF BodiesOf
<1>4. \A i \in 1..Len(table) : table[i].body \in B
  BY <1>1, <1>2
<1>. QED  BY <1>1, <1>2, <1>3, <1>4

(* The commitment: in a good table each hash is the bodies up to its row.  *)
(* The least row of which this is not so would have a bad link.            *)
LEMMA ChainCommits ==
  ASSUME NEW B, NEW table \in RowsOver(B), FirstBad(table) = 0
  PROVE  \A i \in DOMAIN table : table[i].hash = SubSeq(BodiesOf(table), 1, i)
<1>. DEFINE bodies == BodiesOf(table)
            Off == {i \in DOMAIN table : table[i].hash # SubSeq(bodies, 1, i)}
<1>1. /\ bodies \in Seq(B) /\ Len(bodies) = Len(table)
      /\ DOMAIN table = 1..Len(table) /\ Len(table) \in Nat
      /\ \A i \in DOMAIN table : bodies[i] = table[i].body
  BY BodiesAreASeq
<1>2. AllLinked(table)
  BY GoodMeansLinked
<1>3. SUFFICES ASSUME Off # {} PROVE FALSE
  OBVIOUS
<1>4. PICK i \in Off : \A j \in Off : i <= j
  <2>1. Off \in SUBSET Nat
    BY <1>1
  <2>. HIDE DEF Off
  <2>. QED  BY <1>3, <2>1, LeastOf
<1>5. HashAt(table, i - 1) = SubSeq(bodies, 1, i - 1)
  <2>1. CASE i = 1
    BY <2>1, SubSeqEmpty DEF HashAt
  <2>2. CASE i # 1
    <3>1. i - 1 \in DOMAIN table /\ i - 1 # 0
      BY <1>1, <2>2
    <3>2. i - 1 \notin Off
      BY <1>1, <1>4
    <3>. QED  BY <3>1, <3>2 DEF HashAt
  <2>. QED  BY <2>1, <2>2
<1>6. SubSeq(bodies, 1, i) = Append(SubSeq(bodies, 1, i - 1), bodies[i])
  <2>. HIDE DEF bodies
  <2>1. 1 \in 1..Len(bodies) /\ i \in 1..Len(bodies)
    BY <1>1
  <2>2. SubSeq(bodies, 1, i) = SubSeq(bodies, 1, i - 1) \o <<bodies[i]>>
    BY <1>1, <2>1, SubSeqRecursiveSecond
  <2>3. SubSeq(bodies, 1, i - 1) \in Seq(B) /\ bodies[i] \in B
    BY <1>1, <2>1
  <2>. QED  BY <2>2, <2>3, AppendIsConcat
<1>7. table[i].hash = Append(HashAt(table, i - 1), bodies[i])
  BY <1>1, <1>2 DEF AllLinked, Linked
<1>. QED  BY <1>5, <1>6, <1>7

(* So the head commits to all of them. *)
LEMMA HeadCommits ==
  ASSUME NEW B, NEW table \in RowsOver(B), FirstBad(table) = 0
  PROVE  HeadOf(table) = [entries |-> Len(table), hash |-> BodiesOf(table)]
<1>1. /\ BodiesOf(table) \in Seq(B) /\ Len(BodiesOf(table)) = Len(table)
      /\ DOMAIN table = 1..Len(table) /\ Len(table) \in Nat
  BY BodiesAreASeq
<1>2. CASE Len(table) = 0
  <2>1. BodiesOf(table) = <<>>
    BY <1>1, <1>2
  <2>. QED  BY <1>2, <2>1 DEF HeadOf, HashAt
<1>3. CASE Len(table) # 0
  <2>1. Len(table) \in DOMAIN table
    BY <1>1, <1>3
  <2>2. table[Len(table)].hash = SubSeq(BodiesOf(table), 1, Len(table))
    BY <2>1, ChainCommits
  <2>3. SubSeq(BodiesOf(table), 1, Len(table)) = BodiesOf(table)
    BY <1>1, SubSeqFull
  <2>. QED  BY <1>3, <2>2, <2>3 DEF HeadOf, HashAt
<1>. QED  BY <1>2, <1>3

-----------------------------------------------------------------------------
LEMMA HashesAreSeqs ==
  ASSUME NEW B, NEW table \in RowsOver(B), NEW i \in 0..Len(table)
  PROVE  HashAt(table, i) \in Seq(B)
BY BodiesAreASeq DEF HashAt

LEMMA AppendedIsTyped ==
  ASSUME NEW B, NEW table \in RowsOver(B), NEW body \in B
  PROVE  LET row == [body |-> body, hash |-> Append(HashAt(table, Len(table)), body)]
         IN  /\ Appended(table, body) \in RowsOver(B)
             /\ Len(Appended(table, body)) = Len(table) + 1
             /\ \A i \in 1..Len(table) : Appended(table, body)[i] = table[i]
             /\ Appended(table, body)[Len(table) + 1] = row
             /\ HeadOf(Appended(table, body)) = [entries |-> Len(table) + 1, hash |-> row.hash]
<1>. DEFINE row == [body |-> body, hash |-> Append(HashAt(table, Len(table)), body)]
            Row == [body : B, hash : Seq(B)]
<1>1. Len(table) \in Nat /\ HashAt(table, Len(table)) \in Seq(B)
  BY BodiesAreASeq, HashesAreSeqs
<1>2. row \in Row
  BY <1>1
<1>3. table \in Seq(Row) /\ Appended(table, body) = Append(table, row)
  BY DEF RowsOver, Appended
<1>4. /\ Append(table, row) \in Seq(Row)
      /\ Len(Append(table, row)) = Len(table) + 1
      /\ \A i \in 1..Len(table) : Append(table, row)[i] = table[i]
      /\ Append(table, row)[Len(table) + 1] = row
  <2>. HIDE DEF row, Row
  <2>. QED  BY <1>2, <1>3, AppendProperties
<1>5. HeadOf(Append(table, row)) = [entries |-> Len(table) + 1, hash |-> row.hash]
  <2>. HIDE DEF row
  <2>. QED  BY <1>1, <1>4 DEF HeadOf, HashAt
<1>. QED  BY <1>3, <1>4, <1>5 DEF RowsOver

LEMMA AppendKeepsLinks ==
  ASSUME NEW B, NEW table \in RowsOver(B), FirstBad(table) = 0, NEW body \in B
  PROVE  FirstBad(Appended(table, body)) = 0
<1>. DEFINE longer == Appended(table, body)
            row == [body |-> body, hash |-> Append(HashAt(table, Len(table)), body)]
<1>1. DOMAIN table = 1..Len(table) /\ Len(table) \in Nat /\ AllLinked(table)
  BY BodiesAreASeq, GoodMeansLinked
<1>2. /\ longer \in RowsOver(B) /\ Len(longer) = Len(table) + 1
      /\ \A i \in 1..Len(table) : longer[i] = table[i]
      /\ longer[Len(table) + 1] = row
  BY AppendedIsTyped
<1>3. DOMAIN longer = 1..(Len(table) + 1)
  BY <1>2, BodiesAreASeq
<1>. HIDE DEF longer
<1>4. \A i \in 0..Len(table) : HashAt(longer, i) = HashAt(table, i)
  BY <1>2 DEF HashAt
<1>5. ASSUME NEW i \in DOMAIN longer
      PROVE  Linked(longer, i)
  <2>1. HashAt(longer, i - 1) = HashAt(table, i - 1)
    BY <1>1, <1>3, <1>4
  <2>2. CASE i \in DOMAIN table
    BY <1>1, <1>2, <2>1, <2>2 DEF AllLinked, Linked
  <2>3. CASE i = Len(table) + 1
    BY <1>1, <1>2, <2>1, <2>3 DEF Linked
  <2>. QED  BY <1>1, <1>3, <2>2, <2>3
<1>6. FirstBad(longer) = 0
  BY <1>2, <1>5, GoodMeansLinked DEF AllLinked
<1>. QED  BY <1>6 DEF longer

(* What one edit of a table is. *)
LEMMA RewrittenRows ==
  ASSUME NEW B, NEW table \in RowsOver(B), NEW i \in DOMAIN table, NEW body \in B
  PROVE  /\ Rewritten(table, i, body) \in RowsOver(B)
         /\ DOMAIN Rewritten(table, i, body) = DOMAIN table
         /\ \A j \in DOMAIN table : Rewritten(table, i, body)[j] =
              [body |-> IF j = i THEN body ELSE table[j].body, hash |-> table[j].hash]
<1>. DEFINE Row == [body : B, hash : Seq(B)]
            row == [table[i] EXCEPT !.body = body]
<1>1. /\ table \in Seq(Row) /\ DOMAIN table = 1..Len(table)
      /\ \A j \in DOMAIN table : table[j] \in Row
  BY BodiesAreASeq DEF RowsOver
<1>2. row \in Row /\ row = [body |-> body, hash |-> table[i].hash]
  BY <1>1
<1>3. Rewritten(table, i, body) = [table EXCEPT ![i] = row]
  BY <1>1 DEF Rewritten
<1>4. \A j \in DOMAIN table :
        table[j] = [body |-> table[j].body, hash |-> table[j].hash]
  BY <1>1
<1>. HIDE DEF Row, row
<1>5. [table EXCEPT ![i] = row] \in Seq(Row)
  BY <1>1, <1>2, ExceptSeq
<1>6. \A j \in DOMAIN table : [table EXCEPT ![i] = row][j] = IF j = i THEN row ELSE table[j]
  BY <1>1
<1>7. \A j \in DOMAIN table : Rewritten(table, i, body)[j] =
        [body |-> IF j = i THEN body ELSE table[j].body, hash |-> table[j].hash]
  BY <1>2, <1>3, <1>4, <1>6
<1>. QED  BY <1>1, <1>3, <1>5, <1>7 DEF RowsOver, Row

LEMMA RemainingRows ==
  ASSUME NEW B, NEW table \in RowsOver(B), NEW i \in DOMAIN table
  PROVE  /\ Without(table, i) \in RowsOver(B)
         /\ DOMAIN Without(table, i) = 1..(Len(table) - 1)
         /\ \A j \in 1..(Len(table) - 1) :
              Without(table, i)[j] = table[IF j < i THEN j ELSE j + 1]
<1>. DEFINE Row == [body : B, hash : Seq(B)]
            before == SubSeq(table, 1, i - 1)
            after == SubSeq(table, i + 1, Len(table))
<1>1. /\ DOMAIN table = 1..Len(table) /\ Len(table) \in Nat
      /\ \A j \in DOMAIN table : table[j] \in Row
  BY BodiesAreASeq
<1>. HIDE DEF Row
<1>2. /\ before \in Seq(Row) /\ Len(before) = i - 1
      /\ \A j \in 1..(i - 1) : before[j] = table[j]
  <2>1. \A j \in 1..(i - 1) : table[j] \in Row
    BY <1>1
  <2>2. 1 \in Int /\ i - 1 \in Int
    BY <1>1
  <2>. QED  BY <2>1, <2>2, <1>1, SubSeqProperties
<1>3. /\ after \in Seq(Row) /\ Len(after) = Len(table) - i
      /\ \A j \in 1..(Len(table) - i) : after[j] = table[i + j]
  <2>1. \A j \in (i + 1)..Len(table) : table[j] \in Row
    BY <1>1
  <2>2. i + 1 \in Int /\ Len(table) \in Int
    BY <1>1
  <2>. QED  BY <2>1, <2>2, <1>1, SubSeqProperties
<1>. HIDE DEF before, after
<1>4. /\ before \o after \in Seq(Row) /\ Len(before \o after) = Len(table) - 1
      /\ \A j \in 1..(Len(table) - 1) :
           (before \o after)[j] = IF j <= i - 1 THEN before[j] ELSE after[j - (i - 1)]
  <2>1. /\ before \o after \in Seq(Row) /\ Len(before \o after) = Len(before) + Len(after)
        /\ \A j \in 1..(Len(before) + Len(after)) : (before \o after)[j] =
             IF j <= Len(before) THEN before[j] ELSE after[j - Len(before)]
    BY <1>2, <1>3, ConcatProperties
  <2>2. Len(before) + Len(after) = Len(table) - 1
    BY <1>1, <1>2, <1>3
  <2>. QED  BY <1>2, <2>1, <2>2
<1>5. \A j \in 1..(Len(table) - 1) :
        (before \o after)[j] = table[IF j < i THEN j ELSE j + 1]
  BY <1>1, <1>2, <1>3, <1>4
<1>6. Without(table, i) = before \o after
  BY DEF Without, before, after
<1>. QED  BY <1>4, <1>5, <1>6 DEF RowsOver, Row

LEMMA ExchangedRows ==
  ASSUME NEW B, NEW table \in RowsOver(B), NEW i \in DOMAIN table, NEW j \in DOMAIN table
  PROVE  LET other == [table EXCEPT ![i] = table[j], ![j] = table[i]]
         IN  /\ other \in RowsOver(B) /\ DOMAIN other = DOMAIN table
             /\ \A k \in DOMAIN table :
                  other[k] = table[IF k = j THEN i ELSE IF k = i THEN j ELSE k]
<1>. DEFINE Row == [body : B, hash : Seq(B)]
            once == [table EXCEPT ![i] = table[j]]
            twice == [once EXCEPT ![j] = table[i]]
<1>1. /\ table \in Seq(Row) /\ DOMAIN table = 1..Len(table) /\ Len(table) \in Nat
      /\ table[i] \in Row /\ table[j] \in Row
  BY BodiesAreASeq DEF RowsOver
<1>. HIDE DEF Row
<1>2. once \in Seq(Row) /\ Len(once) = Len(table)
  BY <1>1, ExceptSeq
<1>3. twice \in Seq(Row) /\ Len(twice) = Len(table)
  <2>. HIDE DEF once
  <2>. QED  BY <1>1, <1>2, ExceptSeq
<1>4. [table EXCEPT ![i] = table[j], ![j] = table[i]] = twice
  OBVIOUS
<1>5. \A k \in DOMAIN table : twice[k] = table[IF k = j THEN i ELSE IF k = i THEN j ELSE k]
  OBVIOUS
<1>6. DOMAIN twice = DOMAIN table
  OBVIOUS
<1>. HIDE DEF twice
<1>. QED  BY <1>3, <1>4, <1>5, <1>6 DEF RowsOver, Row

(* A rewritten body is found, at its row: every other link still holds     *)
(* (adapters/local/audit.py 1-8, scripts/portability_demo.py 155-168).     *)
THEOREM RewriteIsFound ==
  ASSUME NEW B, NEW table \in RowsOver(B), FirstBad(table) = 0,
         NEW i \in DOMAIN table, NEW body \in B, body # table[i].body
  PROVE  FirstBad(Rewritten(table, i, body)) = i
<1>. DEFINE other == Rewritten(table, i, body)
<1>1. /\ other \in RowsOver(B) /\ DOMAIN other = DOMAIN table
      /\ \A j \in DOMAIN table : other[j] =
           [body |-> IF j = i THEN body ELSE table[j].body, hash |-> table[j].hash]
  BY RewrittenRows
<1>2. DOMAIN table = 1..Len(table) /\ Len(table) \in Nat /\ AllLinked(table)
  BY BodiesAreASeq, GoodMeansLinked
<1>. HIDE DEF other
<1>3. \A j \in DOMAIN table : HashAt(other, j - 1) = HashAt(table, j - 1)
  BY <1>1, <1>2 DEF HashAt
<1>4. \A j \in DOMAIN table : j < i => Linked(other, j)
  BY <1>1, <1>2, <1>3 DEF AllLinked, Linked
<1>5. ~Linked(other, i)
  <2>1. table[i].body \in B /\ HashAt(table, i - 1) \in Seq(B)
    BY <1>2, BodiesAreASeq, HashesAreSeqs
  <2>2. /\ other[i].hash = Append(HashAt(table, i - 1), table[i].body)
        /\ other[i].body = body
    BY <1>1, <1>2 DEF AllLinked, Linked
  <2>3. Append(HashAt(table, i - 1), table[i].body) # Append(HashAt(table, i - 1), body)
    BY <2>1, AppendInjective
  <2>. QED  BY <1>3, <2>2, <2>3 DEF Linked
<1>6. FirstBad(other) = i
  BY <1>1, <1>4, <1>5, FirstBrokenLink
<1>. QED  BY <1>6 DEF other

(* So is a record deleted from the middle: the row after it no longer      *)
(* follows from the row before it.                                         *)
THEOREM DeletionIsFound ==
  ASSUME NEW B, NEW table \in RowsOver(B), FirstBad(table) = 0,
         NEW i \in 1..(Len(table) - 1)
  PROVE  FirstBad(Without(table, i)) = i
<1>. DEFINE left == Without(table, i)
<1>1. DOMAIN table = 1..Len(table) /\ Len(table) \in Nat /\ AllLinked(table)
  BY BodiesAreASeq, GoodMeansLinked
<1>2. i \in DOMAIN table /\ i + 1 \in DOMAIN table
  BY <1>1
<1>3. /\ left \in RowsOver(B) /\ DOMAIN left = 1..(Len(table) - 1)
      /\ \A j \in 1..(Len(table) - 1) : left[j] = table[IF j < i THEN j ELSE j + 1]
  BY <1>2, RemainingRows
<1>. HIDE DEF left
<1>4. \A j \in 1..i : HashAt(left, j - 1) = HashAt(table, j - 1)
  BY <1>1, <1>3 DEF HashAt
<1>5. \A j \in DOMAIN left : j < i => Linked(left, j)
  BY <1>1, <1>3, <1>4 DEF AllLinked, Linked
<1>6. ~Linked(left, i)
  <2>. DEFINE before == HashAt(table, i - 1)
              h == Append(before, table[i].body)
  <2>1. /\ before \in Seq(B) /\ table[i].body \in B
        /\ table[i + 1].body \in B
    <3>1. before \in Seq(B)
      BY <1>1, HashesAreSeqs
    <3>2. table[i] \in [body : B, hash : Seq(B)] /\ table[i + 1] \in [body : B, hash : Seq(B)]
      BY <1>2, BodiesAreASeq
    <3>. QED  BY <3>1, <3>2
  <2>2. left[i] = table[i + 1]
    BY <1>1, <1>3
  <2>3. left[i].hash = Append(h, table[i + 1].body)
    <3>1. table[i].hash = h
      BY <1>1, <1>2 DEF AllLinked, Linked
    <3>2. table[i + 1].hash = Append(HashAt(table, i), table[i + 1].body)
      BY <1>1, <1>2 DEF AllLinked, Linked
    <3>3. HashAt(table, i) = table[i].hash
      BY DEF HashAt
    <3>. QED  BY <2>2, <3>1, <3>2, <3>3
  <2>. HIDE DEF before
  <2>4. h \in Seq(B) /\ Len(h) = Len(before) + 1 /\ Len(before) \in Nat
    BY <2>1, AppendProperties
  <2>. HIDE DEF h
  <2>5. /\ Len(Append(h, table[i + 1].body)) = Len(h) + 1
        /\ Len(Append(before, table[i + 1].body)) = Len(before) + 1
    BY <2>1, <2>4, AppendProperties
  <2>6. left[i].hash # Append(before, table[i + 1].body)
    BY <2>3, <2>4, <2>5
  <2>7. HashAt(left, i - 1) = before
    BY <1>1, <1>4 DEF before
  <2>. QED  BY <2>2, <2>6, <2>7 DEF Linked
<1>7. i \in DOMAIN left
  BY <1>1, <1>3
<1>8. FirstBad(left) = i
  BY <1>3, <1>5, <1>6, <1>7, FirstBrokenLink
<1>. QED  BY <1>8 DEF left

(* A lost tail leaves good links, so the chain alone accepts it, and only  *)
(* the head that was kept elsewhere refuses it                             *)
(* (docs/runbook.md 262-271, scripts/portability_demo.py 170-236).         *)
THEOREM TruncationNeedsTheAnchor ==
  ASSUME NEW B, NEW table \in RowsOver(B), FirstBad(table) = 0,
         NEW n \in 0..(Len(table) - 1)
  PROVE  LET left == SubSeq(table, 1, n)
         IN  Verifies(left, NoHead) /\ ~Verifies(left, HeadOf(table))
<1>. DEFINE left == SubSeq(table, 1, n)
            Row == [body : B, hash : Seq(B)]
<1>1. /\ DOMAIN table = 1..Len(table) /\ Len(table) \in Nat /\ AllLinked(table)
      /\ \A i \in DOMAIN table : table[i] \in Row
  BY BodiesAreASeq, GoodMeansLinked
<1>2. /\ left \in Seq(Row) /\ Len(left) = n
      /\ \A i \in 1..n : left[i] = table[i]
  <2>. HIDE DEF Row
  <2>1. \A i \in 1..n : table[i] \in Row
    BY <1>1
  <2>. QED  BY <1>1, <2>1, SubSeqProperties
<1>. HIDE DEF left
<1>3. left \in RowsOver(B) /\ DOMAIN left = 1..n
  BY <1>2, LenProperties DEF RowsOver
<1>4. AllLinked(left)
  BY <1>1, <1>2, <1>3 DEF AllLinked, Linked, HashAt
<1>5. FirstBad(left) = 0
  BY <1>3, <1>4, GoodMeansLinked
<1>6. HeadOf(left).entries = n /\ HeadOf(table).entries = Len(table) /\ n # Len(table)
  <2>1. HeadOf(left).entries = Len(left) /\ HeadOf(table).entries = Len(table)
    BY DEF HeadOf
  <2>2. Len(left) = n
    BY <1>2
  <2>3. Len(table) \in Nat
    BY <1>1
  <2>4. n # Len(table)
    BY <2>3
  <2>. QED  BY <2>1, <2>2, <2>4
<1>7. HeadOf(table) # NoHead
  <2>1. NoHead.entries = 0 /\ Len(table) # 0
    BY <1>1 DEF NoHead
  <2>. QED  BY <1>6, <2>1
<1>8. Verifies(left, NoHead) /\ ~Verifies(left, HeadOf(table))
  BY <1>5, <1>6, <1>7 DEF Verifies
<1>. QED  BY <1>8 DEF left

-----------------------------------------------------------------------------
(* Subsequences. *)
LEMMA EmptySubsequence ==
  ASSUME NEW B, NEW t \in Seq(B)
  PROVE  IsSubsequence(<<>>, t)
<1>1. DOMAIN <<>> = {} /\ [i \in {} |-> i] \in [{} -> DOMAIN t]
  OBVIOUS
<1>. QED  BY <1>1 DEF IsSubsequence

(* What was a subsequence stays one when more is recorded, *)
LEMMA SubsequenceKept ==
  ASSUME NEW B, NEW s \in Seq(B), NEW t \in Seq(B), NEW x \in B, IsSubsequence(s, t)
  PROVE  IsSubsequence(s, Append(t, x))
<1>1. PICK place \in [DOMAIN s -> DOMAIN t] :
        /\ \A i, j \in DOMAIN s : i < j => place[i] < place[j]
        /\ \A i \in DOMAIN s : s[i] = t[place[i]]
  BY DEF IsSubsequence
<1>2. /\ DOMAIN t \subseteq DOMAIN Append(t, x)
      /\ \A i \in DOMAIN t : Append(t, x)[i] = t[i]
  BY AppendProperties
<1>3. place \in [DOMAIN s -> DOMAIN Append(t, x)]
  BY <1>2
<1>4. \A i \in DOMAIN s : s[i] = Append(t, x)[place[i]]
  BY <1>1, <1>2
<1>. QED  BY <1>1, <1>3, <1>4 DEF IsSubsequence

(* and so does it with that record at its end. *)
LEMMA SubsequenceExtended ==
  ASSUME NEW B, NEW s \in Seq(B), NEW t \in Seq(B), NEW x \in B, IsSubsequence(s, t)
  PROVE  IsSubsequence(Append(s, x), Append(t, x))
<1>. DEFINE longer == Append(s, x)
            table == Append(t, x)
<1>1. PICK place \in [DOMAIN s -> DOMAIN t] :
        /\ \A i, j \in DOMAIN s : i < j => place[i] < place[j]
        /\ \A i \in DOMAIN s : s[i] = t[place[i]]
  BY DEF IsSubsequence
<1>2. /\ Len(t) \in Nat /\ DOMAIN t = 1..Len(t) /\ DOMAIN table = 1..(Len(t) + 1)
      /\ \A i \in DOMAIN t : table[i] = t[i]
      /\ table[Len(t) + 1] = x
  BY AppendProperties
<1>3. /\ Len(s) \in Nat /\ DOMAIN s = 1..Len(s) /\ DOMAIN longer = 1..(Len(s) + 1)
      /\ \A i \in DOMAIN s : longer[i] = s[i]
      /\ longer[Len(s) + 1] = x
  BY AppendProperties
<1>. DEFINE there == [i \in DOMAIN longer |-> IF i \in DOMAIN s THEN place[i] ELSE Len(t) + 1]
<1>. HIDE DEF longer, table
<1>4. there \in [DOMAIN longer -> DOMAIN table]
  BY <1>2, <1>3
<1>5. ASSUME NEW i \in DOMAIN longer, NEW j \in DOMAIN longer, i < j
      PROVE  there[i] < there[j]
  <2>1. i \in DOMAIN s /\ (j \in DOMAIN s \/ j = Len(s) + 1)
    BY <1>3, <1>5
  <2>2. place[i] \in 1..Len(t)
    BY <1>2, <2>1
  <2>3. CASE j \in DOMAIN s
    BY <1>1, <1>5, <2>1, <2>3
  <2>4. CASE j = Len(s) + 1
    BY <1>2, <1>3, <2>1, <2>2, <2>4
  <2>. QED  BY <2>1, <2>3, <2>4
<1>6. \A i \in DOMAIN longer : longer[i] = table[there[i]]
  BY <1>1, <1>2, <1>3
<1>. HIDE DEF there
<1>7. IsSubsequence(longer, table)
  BY <1>4, <1>5, <1>6 DEF IsSubsequence
<1>. QED  BY <1>7 DEF longer, table

-----------------------------------------------------------------------------
Heads == [entries : Nat, hash : Seq(Bodies)]

TrailType ==
  /\ rows \in RowsOver(Bodies) /\ restored \in RowsOver(Bodies)
  /\ export \in [header : Heads, rows : RowsOver(Bodies)]
  /\ anchor \in Heads
  /\ wired \in BOOLEAN
  /\ written \in Seq(Bodies) /\ vouched \in Seq(Bodies) /\ exported \in Seq(Bodies)

(* A hash is made when its row is recorded, of a hash that was there: it   *)
(* commits to what was recorded, wherever an edit has moved it since.      *)
HashesAreGenuine == \A i \in DOMAIN rows : IsSubsequence(rows[i].hash, written)

AnchorIsVouched == anchor # NoHead => anchor.hash = vouched

ExportIsWhole ==
  /\ export # NoExport => export.header # NoHead /\ export.header.hash = exported
  /\ restored # <<>> => BodiesOf(restored) = exported

TrailInv == TrailType /\ HashesAreGenuine /\ AnchorIsVouched /\ ExportIsWhole

LEMMA HeadsAreTyped ==
  ASSUME NEW table \in RowsOver(Bodies)
  PROVE  HeadOf(table) \in Heads
<1>1. Len(table) \in Nat /\ HashAt(table, Len(table)) \in Seq(Bodies)
  BY BodiesAreASeq, HashesAreSeqs
<1>. QED  BY <1>1 DEF HeadOf, Heads

(* An edit makes no new hash. *)
LEMMA EditsKeepHashes ==
  ASSUME NEW table \in RowsOver(Bodies), NEW other \in EditsOf(table)
  PROVE  /\ other \in RowsOver(Bodies)
         /\ \A i \in DOMAIN other : \E j \in DOMAIN table : other[i].hash = table[j].hash
<1>1. ASSUME NEW i \in DOMAIN table, NEW body \in Bodies, other = Rewritten(table, i, body)
      PROVE  /\ other \in RowsOver(Bodies) /\ DOMAIN other = DOMAIN table
             /\ \A j \in DOMAIN table : other[j].hash = table[j].hash
  <2>1. /\ other \in RowsOver(Bodies) /\ DOMAIN other = DOMAIN table
        /\ \A j \in DOMAIN table : other[j] =
             [body |-> IF j = i THEN body ELSE table[j].body, hash |-> table[j].hash]
    BY <1>1, RewrittenRows
  <2>. QED  BY <2>1
<1>2. ASSUME NEW i \in DOMAIN table, other = Without(table, i)
      PROVE  /\ other \in RowsOver(Bodies)
             /\ \A k \in DOMAIN other : \E j \in DOMAIN table : other[k].hash = table[j].hash
  <2>1. DOMAIN table = 1..Len(table) /\ Len(table) \in Nat
    BY BodiesAreASeq
  <2>2. /\ other \in RowsOver(Bodies) /\ DOMAIN other = 1..(Len(table) - 1)
        /\ \A j \in 1..(Len(table) - 1) : other[j] = table[IF j < i THEN j ELSE j + 1]
    BY <1>2, RemainingRows
  <2>3. \A j \in DOMAIN other : (IF j < i THEN j ELSE j + 1) \in DOMAIN table
    BY <2>1, <2>2
  <2>. QED  BY <2>2, <2>3
<1>3. ASSUME NEW i \in DOMAIN table, NEW j \in DOMAIN table,
             other = [table EXCEPT ![i] = table[j], ![j] = table[i]]
      PROVE  /\ other \in RowsOver(Bodies)
             /\ \A k \in DOMAIN other : \E l \in DOMAIN table : other[k].hash = table[l].hash
  <2>1. /\ other \in RowsOver(Bodies) /\ DOMAIN other = DOMAIN table
        /\ \A k \in DOMAIN table :
             other[k] = table[IF k = j THEN i ELSE IF k = i THEN j ELSE k]
    BY <1>3, ExchangedRows
  <2>. QED  BY <2>1
<1>4. \/ \E i \in DOMAIN table, body \in Bodies : other = Rewritten(table, i, body)
      \/ \E i \in DOMAIN table : other = Without(table, i)
      \/ \E i, j \in DOMAIN table : other = [table EXCEPT ![i] = table[j], ![j] = table[i]]
  BY DEF EditsOf
<1>. QED  BY <1>1, <1>2, <1>3, <1>4

LEMMA TrailInit == Init => TrailInv
<1>. SUFFICES ASSUME Init PROVE TrailInv
  OBVIOUS
<1>1. <<>> \in RowsOver(Bodies) /\ <<>> \in Seq(Bodies) /\ NoHead \in Heads
  BY DEF RowsOver, Heads, NoHead
<1>2. TrailType
  BY <1>1 DEF Init, TrailType, NoExport
<1>. QED  BY <1>2 DEF Init, TrailInv, HashesAreGenuine, AnchorIsVouched, ExportIsWhole

LEMMA RecordKeeps ==
  ASSUME TrailInv, NEW body \in Bodies, Record(body)
  PROVE  TrailInv'
<1>. DEFINE last == HashAt(rows, Len(rows))
            row == [body |-> body, hash |-> Append(last, body)]
<1>1. /\ rows \in RowsOver(Bodies) /\ written \in Seq(Bodies) /\ vouched \in Seq(Bodies)
      /\ Len(rows) \in Nat /\ DOMAIN rows = 1..Len(rows)
      /\ last \in Seq(Bodies) /\ Append(last, body) \in Seq(Bodies)
  <2>1. rows \in RowsOver(Bodies) /\ written \in Seq(Bodies) /\ vouched \in Seq(Bodies)
    BY DEF TrailInv, TrailType
  <2>2. Len(rows) \in Nat /\ DOMAIN rows = 1..Len(rows)
    BY <2>1, BodiesAreASeq
  <2>3. last \in Seq(Bodies)
    BY <2>1, <2>2, HashesAreSeqs
  <2>. HIDE DEF last
  <2>. QED  BY <2>1, <2>2, <2>3, AppendProperties
<1>2. /\ rows' \in RowsOver(Bodies) /\ Len(rows') = Len(rows) + 1
      /\ \A i \in 1..Len(rows) : rows'[i] = rows[i]
      /\ rows'[Len(rows) + 1] = row
      /\ HeadOf(rows') = [entries |-> Len(rows) + 1, hash |-> row.hash]
      /\ DOMAIN rows' = 1..(Len(rows) + 1)
  BY <1>1, AppendedIsTyped, BodiesAreASeq DEF Record
<1>. HIDE DEF last
<1>3. TrailType'
  <2>1. HeadOf(rows') \in Heads /\ HeadOf(rows').hash = Append(last, body)
    <3>1. HeadOf(rows').hash = Append(last, body)
      BY <1>2
    <3>2. HeadOf(rows') \in Heads
      <4>. HIDE DEF row
      <4>. QED  BY <1>2, HeadsAreTyped
    <3>. QED  BY <3>1, <3>2
  <2>2. written' \in Seq(Bodies) /\ vouched' \in Seq(Bodies)
    BY <1>1, <2>1, AppendProperties DEF Record
  <2>. QED  BY <1>2, <2>1, <2>2 DEF Record, TrailInv, TrailType
<1>4. HashesAreGenuine'
  <2>1. IsSubsequence(last, written)
    <3>1. CASE Len(rows) = 0
      BY <1>1, <3>1, EmptySubsequence DEF last, HashAt
    <3>2. CASE Len(rows) # 0
      BY <1>1, <3>2 DEF last, HashAt, TrailInv, HashesAreGenuine
    <3>. QED  BY <3>1, <3>2
  <2>2. IsSubsequence(Append(last, body), written')
    BY <1>1, <2>1, SubsequenceExtended DEF Record
  <2>3. ASSUME NEW i \in DOMAIN rows
        PROVE  IsSubsequence(rows[i].hash, written')
    <3>1. rows[i].hash \in Seq(Bodies) /\ IsSubsequence(rows[i].hash, written)
      BY <1>1, BodiesAreASeq DEF TrailInv, HashesAreGenuine
    <3>. QED  BY <1>1, <3>1, SubsequenceKept DEF Record
  <2>4. rows'[Len(rows) + 1].hash = Append(last, body)
    BY <1>2
  <2>5. \A i \in DOMAIN rows' : i \in DOMAIN rows \/ i = Len(rows) + 1
    BY <1>1, <1>2
  <2>. HIDE DEF row
  <2>6. \A i \in DOMAIN rows' : IsSubsequence(rows'[i].hash, written')
    BY <1>1, <1>2, <2>2, <2>3, <2>4, <2>5
  <2>. QED  BY <2>6 DEF HashesAreGenuine
<1>5. AnchorIsVouched'
  <2>1. CASE ~wired
    BY <2>1 DEF Record, TrailInv, AnchorIsVouched
  <2>2. CASE wired /\ anchor = NoHead
    BY <2>2 DEF Record, AnchorIsVouched
  <2>3. CASE wired /\ anchor # NoHead
    <3>1. last = vouched
      BY <2>3 DEF Record, TrailInv, AnchorIsVouched, HeadOf, last
    <3>. QED  BY <1>2, <2>3, <3>1 DEF Record, AnchorIsVouched
  <2>. QED  BY <2>1, <2>2, <2>3
<1>6. ExportIsWhole'
  BY DEF Record, TrailInv, ExportIsWhole
<1>. QED  BY <1>3, <1>4, <1>5, <1>6 DEF TrailInv

LEMMA ReopenKeeps ==
  ASSUME TrailInv, Reopen
  PROVE  TrailInv'
BY DEF Reopen, ghosts, TrailInv, TrailType, HashesAreGenuine, AnchorIsVouched, ExportIsWhole

LEMMA ReanchorKeeps ==
  ASSUME TrailInv, Reanchor
  PROVE  TrailInv'
<1>1. rows \in RowsOver(Bodies) /\ FirstBad(rows) = 0
  BY DEF TrailInv, TrailType, Reanchor
<1>2. HeadOf(rows) \in Heads /\ HeadOf(rows).hash = BodiesOf(rows)
  BY <1>1, HeadsAreTyped, HeadCommits
<1>3. BodiesOf(rows) \in Seq(Bodies)
  BY <1>1, BodiesAreASeq
<1>4. TrailType'
  BY <1>2, <1>3 DEF Reanchor, TrailInv, TrailType
<1>5. AnchorIsVouched'
  BY <1>2 DEF Reanchor, AnchorIsVouched
<1>. QED  BY <1>4, <1>5 DEF Reanchor, TrailInv, HashesAreGenuine, ExportIsWhole

LEMMA EditStoreKeeps ==
  ASSUME TrailInv, EditStore
  PROVE  TrailInv'
<1>1. rows \in RowsOver(Bodies) /\ rows' \in EditsOf(rows)
  BY DEF TrailInv, TrailType, EditStore
<1>2. /\ rows' \in RowsOver(Bodies)
      /\ \A i \in DOMAIN rows' : \E j \in DOMAIN rows : rows'[i].hash = rows[j].hash
  BY <1>1, EditsKeepHashes
<1>3. HashesAreGenuine'
  BY <1>2 DEF EditStore, ghosts, TrailInv, HashesAreGenuine
<1>. QED  BY <1>2, <1>3
          DEF EditStore, ghosts, TrailInv, TrailType, AnchorIsVouched, ExportIsWhole

LEMMA EditExportKeeps ==
  ASSUME TrailInv, EditExport
  PROVE  TrailInv'
<1>1. export \in [header : Heads, rows : RowsOver(Bodies)]
  BY DEF TrailInv, TrailType
<1>2. PICK table \in EditsOf(export.rows) : /\ table # export.rows
                                          /\ export' = [export EXCEPT !.rows = table]
  BY DEF EditExport
<1>3. table \in RowsOver(Bodies)
  BY <1>1, EditsKeepHashes
<1>4. export' \in [header : Heads, rows : RowsOver(Bodies)] /\ export'.header = export.header
  BY <1>1, <1>2, <1>3
<1>5. export # NoExport
  <2>1. SUFFICES ASSUME export = NoExport PROVE FALSE
    OBVIOUS
  <2>2. export.rows = <<>>
    BY <2>1 DEF NoExport
  <2>3. EditsOf(<<>>) = {}
    BY DEF EditsOf
  <2>. QED  BY <1>2, <2>2, <2>3
<1>6. ExportIsWhole'
  BY <1>4, <1>5 DEF EditExport, ghosts, TrailInv, ExportIsWhole
<1>. QED  BY <1>4, <1>6
          DEF EditExport, ghosts, TrailInv, TrailType, HashesAreGenuine, AnchorIsVouched

LEMMA ExportKeeps ==
  ASSUME TrailInv, Export
  PROVE  TrailInv'
<1>1. rows \in RowsOver(Bodies) /\ FirstBad(rows) = 0 /\ rows # <<>>
  BY DEF TrailInv, TrailType, Export
<1>2. /\ HeadOf(rows) = [entries |-> Len(rows), hash |-> BodiesOf(rows)]
      /\ HeadOf(rows) \in Heads /\ BodiesOf(rows) \in Seq(Bodies)
  BY <1>1, HeadCommits, HeadsAreTyped, BodiesAreASeq
<1>3. Len(rows) # 0
  BY <1>1 DEF RowsOver
<1>4. HeadOf(rows) # NoHead /\ HeadOf(rows).hash = BodiesOf(rows)
  BY <1>2, <1>3 DEF NoHead
<1>5. <<>> \in RowsOver(Bodies)
  BY DEF RowsOver
<1>6. TrailType'
  BY <1>1, <1>2, <1>5 DEF Export, TrailInv, TrailType
<1>7. ExportIsWhole'
  BY <1>4 DEF Export, ExportIsWhole
<1>. QED  BY <1>6, <1>7 DEF Export, TrailInv, HashesAreGenuine, AnchorIsVouched

LEMMA ImportKeeps ==
  ASSUME TrailInv, Import
  PROVE  TrailInv'
<1>1. /\ export.rows \in RowsOver(Bodies)
      /\ export.header # NoHead /\ export.header.hash = exported
  BY DEF Import, TrailInv, TrailType, ExportIsWhole
<1>2. FirstBad(export.rows) = 0 /\ export.header = HeadOf(export.rows)
  BY <1>1 DEF Import, Verifies
<1>3. BodiesOf(export.rows) = exported
  BY <1>1, <1>2, HeadCommits
<1>4. TrailType'
  BY <1>1 DEF Import, ghosts, TrailInv, TrailType
<1>5. ExportIsWhole'
  BY <1>3 DEF Import, ghosts, TrailInv, ExportIsWhole
<1>. QED  BY <1>4, <1>5 DEF Import, ghosts, TrailInv, HashesAreGenuine, AnchorIsVouched

LEMMA TrailStep ==
  ASSUME TrailInv, [Next]_vars
  PROVE  TrailInv'
<1>1. CASE \E body \in Bodies : Record(body)
  BY <1>1, RecordKeeps
<1>2. CASE Reopen
  BY <1>2, ReopenKeeps
<1>3. CASE Reanchor
  BY <1>3, ReanchorKeeps
<1>4. CASE EditStore
  BY <1>4, EditStoreKeeps
<1>5. CASE EditExport
  BY <1>5, EditExportKeeps
<1>6. CASE Export
  BY <1>6, ExportKeeps
<1>7. CASE Import
  BY <1>7, ImportKeeps
<1>8. CASE UNCHANGED vars
  BY <1>8 DEF vars, TrailInv, TrailType, HashesAreGenuine, AnchorIsVouched, ExportIsWhole
<1>. QED  BY <1>1, <1>2, <1>3, <1>4, <1>5, <1>6, <1>7, <1>8 DEF Next

(* A trail that verifies tells only what was recorded, in the order it was *)
(* recorded, however it was edited (docs/runbook.md 262-267).              *)
THEOREM TrailIsGenuine == Spec => []VerifiedTrailIsGenuine
<1>1. TrailInv => VerifiedTrailIsGenuine
  <2>. SUFFICES ASSUME TrailInv, FirstBad(rows) = 0
                PROVE  IsSubsequence(BodiesOf(rows), written)
    BY DEF VerifiedTrailIsGenuine
  <2>1. rows \in RowsOver(Bodies) /\ written \in Seq(Bodies)
    BY DEF TrailInv, TrailType
  <2>2. /\ BodiesOf(rows) \in Seq(Bodies) /\ Len(BodiesOf(rows)) = Len(rows)
        /\ DOMAIN rows = 1..Len(rows) /\ Len(rows) \in Nat
    BY <2>1, BodiesAreASeq
  <2>3. CASE Len(rows) = 0
    <3>1. BodiesOf(rows) = <<>>
      BY <2>2, <2>3
    <3>. QED  BY <2>1, <3>1, EmptySubsequence
  <2>4. CASE Len(rows) # 0
    <3>1. Len(rows) \in DOMAIN rows
      BY <2>2, <2>4
    <3>2. rows[Len(rows)].hash = BodiesOf(rows)
      BY <2>1, <2>4, HeadCommits DEF HeadOf, HashAt
    <3>. QED  BY <3>1, <3>2 DEF TrailInv, HashesAreGenuine
  <2>. QED  BY <2>3, <2>4
<1>. QED  BY <1>1, TrailInit, TrailStep, PTL DEF Spec

(* A trail that verifies against its anchor holds everything recorded      *)
(* under it, and an export is restored whole (docs/runbook.md 269-281).    *)
THEOREM AnchoredTrailIsKept == Spec => []AnchoredTrailIsWhole
<1>1. TrailInv => AnchoredTrailIsWhole
  <2>. SUFFICES ASSUME TrailInv, anchor # NoHead, Verifies(rows, anchor)
                PROVE  BodiesOf(rows) = vouched
    BY DEF AnchoredTrailIsWhole, TrailInv, ExportIsWhole
  <2>1. rows \in RowsOver(Bodies) /\ anchor.hash = vouched
    BY DEF TrailInv, TrailType, AnchorIsVouched
  <2>2. FirstBad(rows) = 0 /\ anchor = HeadOf(rows)
    BY DEF Verifies
  <2>. QED  BY <2>1, <2>2, HeadCommits
<1>. QED  BY <1>1, TrailInit, TrailStep, PTL DEF Spec
=============================================================================
