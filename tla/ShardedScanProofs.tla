-------------------------- MODULE ShardedScanProofs --------------------------
(***************************************************************************)
(* Theorems about the versions and the shards of ShardedScan: a pinned     *)
(* scan repeats itself, and the shards of one call make up one version, in *)
(* even parts, for any number of versions, fragments, shards and           *)
(* collections.                                                            *)
(***************************************************************************)
EXTENDS ShardedScan, SequenceTheorems, TLAPS

Fragment == [id: Nat, data: Nat \X Nat]
Manifests == [schema: Nat, fragments: Seq(Fragment), next: Nat]

\* No two fragments share an id or their data.
Distinct(fragments) ==
  \A i, j \in 1..Len(fragments) :
    i # j => fragments[i].id # fragments[j].id /\ fragments[i].data # fragments[j].data

\* What version v may look like: ids below the next one, and no data from later on.
Sound(manifest, v) ==
  /\ Distinct(manifest.fragments)
  /\ \A i \in 1..Len(manifest.fragments) :
       manifest.fragments[i].id < manifest.next /\ manifest.fragments[i].data[1] <= v

HistoryFits ==
  /\ history \in Seq(Manifests) /\ history # <<>>
  /\ \A v \in 1..Len(history) : Sound(history[v], v)

\* The tag and the latest version are never cleaned up.
TagFits ==
  /\ tag \in (1..Len(history)) \ gone
  /\ gone \subseteq 1..(Len(history) - 1)

\* The call opened a version, or was given one.
Pins == call.name = "scan_lance_fragments" \/ wanted # None

\* Every LazyFrame of such a call names the version by its number.
FramesFit ==
  /\ Len(frames) \in Nat /\ DOMAIN frames = 1..Len(frames)
  /\ DOMAIN planned = 1..Len(frames) /\ DOMAIN results = 1..Len(frames)
  /\ Pins => \A i \in 1..Len(frames) :
               /\ frames[i].version \in 1..Len(history)
               /\ history[frames[i].version] = wanted
               /\ planned[i] \in {None, wanted.schema}

\* The shards are dealt from the ids of that version.
ShardsFit ==
  (call.name = "scan_lance_fragments" /\ Len(frames) # 0) =>
    /\ wanted.fragments # <<>> => call.shards \in {None} \cup (Nat \ {0})
    /\ Len(frames) = Len(Groups(Ids(wanted), call.shards))
    /\ \A i \in 1..Len(frames) : frames[i].ids = Groups(Ids(wanted), call.shards)[i]

ResultsFit ==
  Pins => \A i \in 1..Len(frames) : \A got \in results[i] :
            /\ got.planned = got.schema /\ got.schema = wanted.schema
            /\ got.rows = RowsOf(wanted, frames[i].ids)

IInv == HistoryFits /\ TagFits /\ FramesFit /\ ShardsFit /\ ResultsFit

-----------------------------------------------------------------------------
(* Dealing: shard s has the positions s, s + n, s + 2n, ...                *)

LEMMA Division ==
  ASSUME NEW x \in Nat, NEW n \in Nat \ {0}
  PROVE  /\ x \div n \in Nat /\ x % n \in 0..n - 1
         /\ x = n * (x \div n) + (x % n)
  <1>1. /\ x \div n \in Int /\ x % n \in 0..n - 1
        /\ x = n * (x \div n) + (x % n)
    BY Z3
  <1> DEFINE q == x \div n
  <1>2. q \in Int /\ n * q > x - n
    BY <1>1
  <1> HIDE DEF q
  <1>3. q >= 0
    BY <1>2, Z3
  <1> QED BY <1>1, <1>3 DEF q

\* Of two multiples the larger is one divisor away at least.
LEMMA Monotone ==
  ASSUME NEW n \in Nat \ {0}, NEW p \in Int, NEW q \in Int, p > q
  PROVE  n * p >= n * q + n
  BY Z3

\* How many positions shard s has.
Share(L, s, n) == (L - s) \div n + 1

Smaller(n, L) == IF n < L THEN n ELSE L

LEMMA ShareBounds ==
  ASSUME NEW L \in Nat, NEW n \in Nat \ {0}, NEW s \in 1..Smaller(n, L)
  PROVE  /\ Share(L, s, n) \in Nat \ {0}
         /\ \A j \in Nat \ {0} : j <= Share(L, s, n) <=> s + (j - 1) * n <= L
  <1>1. L - s \in Nat /\ s \in 1..n
    BY DEF Smaller
  <1> DEFINE q == (L - s) \div n
             r == (L - s) % n
  <1>2. q \in Nat /\ r \in 0..n - 1 /\ L - s = n * q + r
    BY <1>1, Division
  <1> HIDE DEF q, r
  <1>3. ASSUME NEW j \in Nat \ {0}
        PROVE  j <= q + 1 <=> s + (j - 1) * n <= L
    <2>1. j - 1 \in Int /\ n * (j - 1) \in Int /\ n * q \in Int /\ (j - 1) * n = n * (j - 1)
      BY <1>2, Z3
    <2>2. j - 1 > q => n * (j - 1) >= n * q + n
      BY <1>2, <2>1, Monotone
    <2>3. q > j - 1 => n * q >= n * (j - 1) + n
      BY <1>2, <2>1, Monotone
    <2>4. CASE j - 1 = q
      BY <1>1, <1>2, <2>1, <2>4
    <2>5. CASE j - 1 > q
      <3>1. n * (j - 1) > L - s
        BY <1>2, <2>1, <2>2, <2>5
      <3> QED BY <1>1, <1>2, <2>1, <2>5, <3>1
    <2>6. CASE q > j - 1
      <3>1. n * (j - 1) <= L - s
        BY <1>2, <2>1, <2>3, <2>6
      <3> QED BY <1>1, <1>2, <2>1, <2>6, <3>1
    <2> QED BY <1>2, <2>4, <2>5, <2>6
  <1> QED BY <1>2, <1>3 DEF Share, q

\* No position is dealt twice.
LEMMA DealtOnce ==
  ASSUME NEW n \in Nat \ {0}, NEW s \in 1..n, NEW t \in 1..n,
         NEW j \in Nat \ {0}, NEW k \in Nat \ {0},
         s + (j - 1) * n = t + (k - 1) * n
  PROVE  s = t /\ j = k
  <1>1. /\ j - 1 \in Int /\ k - 1 \in Int
        /\ (j - 1) * n = n * (j - 1) /\ (k - 1) * n = n * (k - 1)
        /\ n * (j - 1) \in Int /\ n * (k - 1) \in Int
    BY Z3
  <1>2. j - 1 > k - 1 => n * (j - 1) >= n * (k - 1) + n
    BY <1>1, Monotone
  <1>3. k - 1 > j - 1 => n * (k - 1) >= n * (j - 1) + n
    BY <1>1, Monotone
  <1> DEFINE x == n * (j - 1)
             y == n * (k - 1)
  <1>4. x \in Int /\ y \in Int /\ s + x = t + y
    BY <1>1
  <1> HIDE DEF x, y
  <1>5. ~ (x >= y + n) /\ ~ (y >= x + n)
    BY <1>4
  <1>6. j = k
    BY <1>1, <1>2, <1>3, <1>5 DEF x, y
  <1> QED BY <1>4, <1>6 DEF x, y

\* Every position is dealt.
LEMMA AllDealt ==
  ASSUME NEW L \in Nat, NEW n \in Nat \ {0}, NEW p \in 1..L
  PROVE  \E s \in 1..Smaller(n, L) : \E j \in 1..Share(L, s, n) : p = s + (j - 1) * n
  <1> DEFINE q == (p - 1) \div n
             r == (p - 1) % n
             s == r + 1
             j == q + 1
  <1>1. q \in Nat /\ r \in 0..n - 1 /\ p - 1 = n * q + r
    <2>1. p - 1 \in Nat
      OBVIOUS
    <2> QED BY <2>1, Division
  <1> HIDE DEF q, r
  <1>2. n * q >= 0 /\ n * q \in Int /\ q * n = n * q
    BY <1>1, Z3
  <1>3. p = s + (j - 1) * n /\ j \in Nat \ {0} /\ j - 1 = q
    BY <1>1, <1>2
  <1>4. s \in 1..Smaller(n, L)
    BY <1>1, <1>2 DEF Smaller
  <1>5. j <= Share(L, s, n) /\ Share(L, s, n) \in Nat
    <2>1. s + (j - 1) * n <= L
      BY <1>3
    <2> HIDE DEF s, j
    <2> QED BY <2>1, <1>3, <1>4, ShareBounds
  <1> HIDE DEF s, j
  <1> QED BY <1>3, <1>4, <1>5

\* No shard has two positions more than another.
LEMMA EvenShares ==
  ASSUME NEW L \in Nat, NEW n \in Nat \ {0},
         NEW s \in 1..Smaller(n, L), NEW t \in 1..Smaller(n, L)
  PROVE  Share(L, s, n) - Share(L, t, n) <= 1
  <1> DEFINE a == Share(L, s, n)
             b == Share(L, t, n)
  <1>1. a \in Nat \ {0} /\ b \in Nat \ {0} /\ s \in 1..n /\ t \in 1..n
    BY ShareBounds DEF Smaller
  <1>2. s + (a - 1) * n <= L
    BY <1>1, ShareBounds
  <1>3. ~ (t + ((b + 1) - 1) * n <= L)
    <2>1. b + 1 \in Nat \ {0} /\ ~ (b + 1 <= b)
      BY <1>1
    <2> QED BY <2>1, ShareBounds
  <1> HIDE DEF a, b
  <1>4. /\ (a - 1) * n = n * (a - 1) /\ n * (a - 1) \in Int /\ a - 1 \in Int
        /\ ((b + 1) - 1) * n = n * b /\ n * b \in Int /\ b + 1 \in Int
        /\ n * (b + 1) = n * b + n /\ n * (b + 1) \in Int
    BY <1>1, Z3
  <1>5. n * (a - 1) < n * b + n
    BY <1>1, <1>2, <1>3, <1>4
  <1>6. ~ (a - 1 > b)
    <2>1. a - 1 > b => n * (a - 1) >= n * b + n
      BY <1>1, <1>4, Monotone
    <2> QED BY <2>1, <1>4, <1>5
  <1> QED BY <1>1, <1>6 DEF a, b

-----------------------------------------------------------------------------
(* The groups of fragment ids make up all of them, each in one group.      *)

LEMMA FunctionIsSeq ==
  ASSUME NEW S, NEW n \in Nat, NEW f \in [1..n -> S]
  PROVE  f \in Seq(S) /\ Len(f) = n /\ DOMAIN f = 1..n
  <1>1. f \in Seq(S)
    BY SeqDef
  <1> QED BY <1>1

\* An id is where it was dealt from.
LEMMA DealIs ==
  ASSUME NEW ids \in Seq(Nat), NEW n \in Nat \ {0}
  PROVE  /\ Len(Deal(ids, n)) = Smaller(n, Len(ids)) /\ Smaller(n, Len(ids)) \in Nat
         /\ DOMAIN Deal(ids, n) = 1..Smaller(n, Len(ids))
         /\ \A s \in 1..Smaller(n, Len(ids)) :
              /\ Deal(ids, n)[s] \in Seq(Nat)
              /\ DOMAIN Deal(ids, n)[s] = 1..Share(Len(ids), s, n)
              /\ Len(Deal(ids, n)[s]) = Share(Len(ids), s, n)
              /\ \A j \in 1..Share(Len(ids), s, n) :
                   /\ s + (j - 1) * n \in 1..Len(ids)
                   /\ Deal(ids, n)[s][j] = ids[s + (j - 1) * n]
  <1> DEFINE L == Len(ids)
             m == Smaller(n, L)
             Dealt(s) == [j \in 1..Share(L, s, n) |-> ids[s + (j - 1) * n]]
  <1>1. L \in Nat /\ m \in Nat
    BY DEF Smaller
  <1>2. Deal(ids, n) = [s \in 1..m |-> Dealt(s)]
    BY DEF Deal, Smaller, Share
  <1>3. ASSUME NEW s \in 1..m
        PROVE  /\ Dealt(s) \in Seq(Nat) /\ DOMAIN Dealt(s) = 1..Share(L, s, n)
               /\ Len(Dealt(s)) = Share(L, s, n)
               /\ \A j \in 1..Share(L, s, n) : s + (j - 1) * n \in 1..L
    <2>1. Share(L, s, n) \in Nat \ {0} /\ s \in Nat \ {0}
      BY <1>1, ShareBounds
    <2>2. ASSUME NEW j \in 1..Share(L, s, n)
          PROVE  s + (j - 1) * n \in 1..L
      <3>1. j \in Nat \ {0} /\ j <= Share(L, s, n)
        BY <2>1
      <3>2. s + (j - 1) * n <= L
        BY <1>1, <3>1, ShareBounds
      <3>3. (j - 1) * n \in Nat
        <4>1. j - 1 \in Nat
          BY <3>1
        <4> QED BY <4>1, Z3
      <3> QED BY <1>1, <2>1, <3>2, <3>3
    <2>3. Dealt(s) \in [1..Share(L, s, n) -> Nat]
      <3>1. \A i \in 1..L : ids[i] \in Nat
        OBVIOUS
      <3> QED BY <2>2, <3>1
    <2>4. Dealt(s) \in Seq(Nat)
      BY <2>1, <2>3, SeqDef
    <2> DEFINE share == Share(L, s, n)
               group == Dealt(s)
    <2>5. group \in [1..share -> Nat] /\ share \in Nat
      BY <2>1, <2>3
    <2> HIDE DEF share, group, Dealt
    <2>6. DOMAIN group = 1..share /\ Len(group) = share
      BY <2>5, FunctionIsSeq
    <2> QED BY <2>2, <2>4, <2>6 DEF share, group
  <1> DEFINE deal == [s \in 1..m |-> Dealt(s)]
  <1>4. Len(deal) = m
    <2>1. deal \in [1..m -> Seq(Nat)]
      BY <1>3
    <2> HIDE DEF deal
    <2> QED BY <1>1, <2>1, FunctionIsSeq
  <1>5. \A s \in 1..m : deal[s] = Dealt(s)
    OBVIOUS
  <1>6. DOMAIN deal = 1..m
    OBVIOUS
  <1>7. \A s \in 1..m : \A j \in 1..Share(L, s, n) : Dealt(s)[j] = ids[s + (j - 1) * n]
    OBVIOUS
  <1>8. Deal(ids, n) = deal
    BY <1>2
  <1> HIDE DEF deal, Dealt
  <1> QED BY <1>1, <1>3, <1>4, <1>5, <1>6, <1>7, <1>8

LEMMA GroupsPartition ==
  ASSUME NEW ids \in Seq(Nat), IsInjective(ids), NEW n,
         ids # <<>> => n \in {None} \cup (Nat \ {0})
  PROVE  LET groups == Groups(ids, n)
         IN  /\ Len(groups) \in Nat /\ DOMAIN groups = 1..Len(groups)
             /\ \A g \in 1..Len(groups) :
                  /\ groups[g] \in Seq(Nat) /\ IsInjective(groups[g])
                  /\ Range(groups[g]) \subseteq Range(ids)
             /\ \A g, h \in 1..Len(groups) :
                  g # h => Range(groups[g]) \cap Range(groups[h]) = {}
             /\ \A i \in 1..Len(ids) : \E g \in 1..Len(groups) : ids[i] \in Range(groups[g])
  <1> DEFINE groups == Groups(ids, n)
  <1>1. Len(ids) \in Nat /\ DOMAIN ids = 1..Len(ids) /\ \A i \in 1..Len(ids) : ids[i] \in Nat
    OBVIOUS
  <1>2. CASE ids = <<>>
    <2>1. groups = <<ids>>
      BY <1>2 DEF Groups
    <2> HIDE DEF groups
    <2>2. Len(groups) = 1 /\ DOMAIN groups = 1..1 /\ groups[1] = ids
      BY <2>1
    <2>3. Len(ids) = 0
      BY <1>2
    <2>4. \A g, h \in 1..Len(groups) : g = h /\ groups[g] = ids
      BY <2>2
    <2>5. groups[1] \in Seq(Nat) /\ IsInjective(groups[1]) /\ Range(groups[1]) \subseteq Range(ids)
      BY <2>2
    <2>6. \A i \in 1..Len(ids) : FALSE
      BY <2>3
    <2> QED BY <2>2, <2>4, <2>5, <2>6 DEF groups
  <1>3. CASE ids # <<>> /\ n = None
    <2>1. groups = [i \in 1..Len(ids) |-> <<ids[i]>>]
      BY <1>3 DEF Groups
    <2>2. groups \in Seq(Seq(Nat)) /\ Len(groups) = Len(ids)
      <3>1. groups \in [1..Len(ids) -> Seq(Nat)]
        BY <1>1, <2>1
      <3> HIDE DEF groups
      <3> QED BY <1>1, <3>1, FunctionIsSeq
    <2>3. \A i \in 1..Len(ids) : groups[i] = <<ids[i]>>
      BY <2>1
    <2> HIDE DEF groups
    <2>4. \A i \in 1..Len(ids) : Range(groups[i]) = {ids[i]} /\ IsInjective(groups[i])
      BY <2>3 DEF Range, IsInjective
    <2>5. \A i, j \in 1..Len(ids) : i # j => ids[i] # ids[j]
      BY <1>1 DEF IsInjective
    <2>6. \A i \in 1..Len(ids) : ids[i] \in Range(ids)
      BY <1>1 DEF Range
    <2>7. ASSUME NEW i \in 1..Len(ids)
          PROVE  groups[i] \in Seq(Nat)
      <3>1. ids[i] \in Nat
        BY <1>1
      <3>2. <<ids[i]>> \in Seq(Nat)
        BY <3>1
      <3> QED BY <2>3, <3>2
    <2>8. DOMAIN groups = 1..Len(ids)
      BY <2>2
    <2>9. \A i, j \in 1..Len(ids) : i # j => Range(groups[i]) \cap Range(groups[j]) = {}
      BY <2>4, <2>5
    <2>10. \A i \in 1..Len(ids) : Range(groups[i]) \subseteq Range(ids) /\ ids[i] \in Range(groups[i])
      BY <2>4, <2>6
    <2> QED BY <1>1, <2>2, <2>4, <2>7, <2>8, <2>9, <2>10 DEF groups
  <1>4. CASE ids # <<>> /\ n \in Nat \ {0}
    <2> DEFINE m == Smaller(n, Len(ids))
    <2>1. groups = Deal(ids, n)
      <3>1. n # None
        BY <1>4, TagAssumption
      <3> QED BY <1>4, <3>1 DEF Groups
    <2> HIDE DEF groups
    <2>2. /\ Len(groups) = m /\ m \in Nat /\ DOMAIN groups = 1..m
          /\ \A s \in 1..m :
               /\ groups[s] \in Seq(Nat) /\ DOMAIN groups[s] = 1..Share(Len(ids), s, n)
               /\ \A j \in 1..Share(Len(ids), s, n) :
                    /\ s + (j - 1) * n \in 1..Len(ids)
                    /\ groups[s][j] = ids[s + (j - 1) * n]
      BY <1>4, <2>1, DealIs
    <2>3. \A s \in 1..m : s \in 1..n /\ Share(Len(ids), s, n) \in Nat \ {0}
      <3>1. \A s \in 1..m : Share(Len(ids), s, n) \in Nat \ {0}
        BY <1>1, <1>4, ShareBounds
      <3>2. \A s \in 1..m : s \in 1..n
        BY <1>1, <1>4 DEF Smaller
      <3> QED BY <3>1, <3>2
    <2> HIDE DEF m
    \* Where two dealt ids are the same, so are their places.
    <2>4. ASSUME NEW s \in 1..m, NEW t \in 1..m,
                 NEW j \in 1..Share(Len(ids), s, n), NEW k \in 1..Share(Len(ids), t, n),
                 groups[s][j] = groups[t][k]
          PROVE  s = t /\ j = k
      <3>1. s + (j - 1) * n = t + (k - 1) * n
        BY <1>1, <2>2, <2>4 DEF IsInjective
      <3>2. s \in 1..n /\ t \in 1..n /\ j \in Nat \ {0} /\ k \in Nat \ {0}
        BY <2>3
      <3> QED BY <1>4, <3>1, <3>2, DealtOnce
    <2>5. ASSUME NEW s \in 1..m
          PROVE  IsInjective(groups[s]) /\ Range(groups[s]) \subseteq Range(ids)
      <3>1. DOMAIN groups[s] = 1..Share(Len(ids), s, n)
        BY <2>2
      <3>2. IsInjective(groups[s])
        BY <2>4, <3>1 DEF IsInjective
      <3>3. ASSUME NEW j \in 1..Share(Len(ids), s, n)
            PROVE  groups[s][j] \in Range(ids)
        <4>1. groups[s][j] = ids[s + (j - 1) * n] /\ s + (j - 1) * n \in DOMAIN ids
          BY <1>1, <2>2
        <4> QED BY <4>1 DEF Range
      <3>4. Range(groups[s]) \subseteq Range(ids)
        <4>1. \A x \in Range(groups[s]) : \E j \in 1..Share(Len(ids), s, n) : x = groups[s][j]
          BY <3>1 DEF Range
        <4> QED BY <3>3, <4>1
      <3> QED BY <3>2, <3>4
    <2>7. ASSUME NEW s \in 1..m, NEW t \in 1..m, s # t
          PROVE  Range(groups[s]) \cap Range(groups[t]) = {}
      <3>1. /\ DOMAIN groups[s] = 1..Share(Len(ids), s, n)
            /\ DOMAIN groups[t] = 1..Share(Len(ids), t, n)
        BY <2>2
      <3>2. \A j \in DOMAIN groups[s] : \A k \in DOMAIN groups[t] : groups[s][j] # groups[t][k]
        BY <2>4, <2>7, <3>1
      <3> QED BY <3>2 DEF Range
    <2>8. ASSUME NEW i \in 1..Len(ids)
          PROVE  \E g \in 1..m : ids[i] \in Range(groups[g])
      <3>1. PICK s \in 1..m : \E j \in 1..Share(Len(ids), s, n) : i = s + (j - 1) * n
        BY <1>1, <1>4, AllDealt DEF m
      <3>2. PICK j \in 1..Share(Len(ids), s, n) : i = s + (j - 1) * n
        BY <3>1
      <3>3. groups[s][j] = ids[i]
        BY <2>2, <3>2
      <3>4. ids[i] \in Range(groups[s])
        BY <2>2, <3>3 DEF Range
      <3> QED BY <3>4
    <2> QED BY <2>2, <2>5, <2>7, <2>8 DEF groups
  <1> QED BY <1>2, <1>3, <1>4

-----------------------------------------------------------------------------
(* Other writers add sound versions.                                       *)

LEMMA WrittenFits ==
  ASSUME NEW version \in Nat, NEW from \in Nat, NEW n \in Nat
  PROVE  /\ Written(version, from, n) \in Seq(Fragment) /\ Len(Written(version, from, n)) = n
         /\ \A i \in 1..n :
              /\ Written(version, from, n)[i].id = from + i - 1
              /\ Written(version, from, n)[i].data = <<version, i>>
  <1> DEFINE new == Written(version, from, n)
  <1>1. \A i \in 1..n : new[i] = [id |-> from + i - 1, data |-> <<version, i>>]
    BY DEF Written
  <1>2. new \in [1..n -> Fragment]
    BY DEF Written, Fragment
  <1> HIDE DEF new
  <1>3. new \in Seq(Fragment) /\ Len(new) = n
    BY <1>2, FunctionIsSeq
  <1> QED BY <1>1, <1>3 DEF new

LEMMA DeletedFits ==
  ASSUME NEW S, NEW s \in Seq(S), NEW p \in 1..Len(s)
  PROVE  LET left == SubSeq(s, 1, p - 1) \o SubSeq(s, p + 1, Len(s))
         IN  /\ left \in Seq(S) /\ Len(left) = Len(s) - 1
             /\ \A i \in 1..Len(s) - 1 : left[i] = IF i < p THEN s[i] ELSE s[i + 1]
  <1> DEFINE b == SubSeq(s, 1, p - 1)
             e == SubSeq(s, p + 1, Len(s))
  <1>1. Len(s) \in Nat /\ p \in 1..Len(s) /\ 1 \in 1..Len(s) + 1 /\ p + 1 \in 1..Len(s) + 1
    OBVIOUS
  <1>2. b \in Seq(S) /\ Len(b) = p - 1 /\ \A i \in 1..p - 1 : b[i] = s[i]
    <2>1. \A i \in 1..p - 1 : s[i] \in S
      OBVIOUS
    <2>2. /\ b \in Seq(S) /\ Len(b) = IF 1 <= p - 1 THEN (p - 1) - 1 + 1 ELSE 0
          /\ \A i \in 1..(p - 1) - 1 + 1 : b[i] = s[1 + i - 1]
      BY <1>1, <2>1, SubSeqProperties
    <2> HIDE DEF b
    <2> QED BY <1>1, <2>2
  <1>3. e \in Seq(S) /\ Len(e) = Len(s) - p /\ \A i \in 1..Len(s) - p : e[i] = s[p + i]
    <2>1. \A i \in p + 1..Len(s) : s[i] \in S
      OBVIOUS
    <2>2. /\ e \in Seq(S) /\ Len(e) = IF p + 1 <= Len(s) THEN Len(s) - (p + 1) + 1 ELSE 0
          /\ \A i \in 1..Len(s) - (p + 1) + 1 : e[i] = s[(p + 1) + i - 1]
      BY <1>1, <2>1, SubSeqProperties
    <2> HIDE DEF e
    <2> QED BY <1>1, <2>2
  <1> HIDE DEF b, e
  <1>4. /\ b \o e \in Seq(S) /\ Len(b \o e) = Len(s) - 1
        /\ \A i \in 1..Len(s) - 1 : (b \o e)[i] = IF i <= p - 1 THEN b[i] ELSE e[i - (p - 1)]
    <2>1. /\ b \o e \in Seq(S) /\ Len(b \o e) = Len(b) + Len(e)
          /\ \A i \in 1..Len(b) + Len(e) :
               (b \o e)[i] = IF i <= Len(b) THEN b[i] ELSE e[i - Len(b)]
      BY <1>2, <1>3, ConcatProperties
    <2>2. Len(b) + Len(e) = Len(s) - 1
      BY <1>1, <1>2, <1>3
    <2> QED BY <1>2, <2>1, <2>2
  <1>5. ASSUME NEW i \in 1..Len(s) - 1
        PROVE  (b \o e)[i] = IF i < p THEN s[i] ELSE s[i + 1]
    <2>1. CASE i < p
      BY <1>1, <1>2, <1>4, <2>1
    <2>2. CASE ~ (i < p)
      <3>1. i - (p - 1) \in 1..Len(s) - p /\ p + (i - (p - 1)) = i + 1
        BY <1>1, <2>2
      <3> QED BY <1>1, <1>3, <1>4, <2>2, <3>1
    <2> QED BY <2>1, <2>2
  <1> QED BY <1>4, <1>5 DEF b, e

LEMMA LastFits ==
  ASSUME HistoryFits
  PROVE  /\ Newest \in Manifests /\ Sound(Newest, Len(history))
         /\ Len(history) \in Nat \ {0}
  BY DEF HistoryFits, Newest

LEMMA CommitFits ==
  ASSUME IInv, NEW m \in Manifests, Sound(m, Len(history) + 1), Commit(m)
  PROVE  IInv'
  <1>1. /\ history \in Seq(Manifests) /\ Len(history) \in Nat \ {0}
        /\ history' = Append(history, m)
        /\ UNCHANGED <<gone, tag, call, wanted, frames, planned, results, collects>>
    BY LastFits DEF IInv, HistoryFits, Commit
  <1>2. /\ history' \in Seq(Manifests) /\ Len(history') = Len(history) + 1
        /\ \A v \in 1..Len(history) : history'[v] = history[v]
        /\ history'[Len(history) + 1] = m
    BY <1>1
  <1>3. HistoryFits'
    <2>1. \A v \in 1..Len(history') : Sound(history'[v], v)
      <3>1. \A v \in 1..Len(history) : Sound(history[v], v)
        BY DEF IInv, HistoryFits
      <3>2. \A v \in 1..Len(history') : v \in 1..Len(history) \/ v = Len(history) + 1
        BY <1>1, <1>2
      <3> QED BY <1>2, <3>1, <3>2
    <2>2. history' # <<>>
      BY <1>1, <1>2
    <2> QED BY <1>2, <2>1, <2>2 DEF HistoryFits
  <1>4. TagFits'
    BY <1>1, <1>2 DEF IInv, TagFits
  <1>5. FramesFit'
    <2>1. UNCHANGED Pins
      BY <1>1 DEF Pins
    <2>2. \A v \in 1..Len(history) : v \in 1..Len(history')
      BY <1>1, <1>2
    <2> QED BY <1>1, <1>2, <2>1, <2>2 DEF IInv, FramesFit
  <1>6. ShardsFit'
    BY <1>1 DEF IInv, ShardsFit
  <1>7. ResultsFit'
    BY <1>1 DEF IInv, ResultsFit, Pins
  <1> QED BY <1>3, <1>4, <1>5, <1>6, <1>7 DEF IInv

LEMMA FirstVersionFits ==
  ASSUME NEW schema \in Nat, NEW version \in Nat, NEW n \in Nat
  PROVE  LET m == Manifest(schema, Written(version, 0, n), n)
         IN  m \in Manifests /\ Sound(m, version)
  <1> DEFINE new == Written(version, 0, n)
             m == Manifest(schema, new, n)
  <1>1. /\ new \in Seq(Fragment) /\ Len(new) = n
        /\ \A i \in 1..n : new[i].id = 0 + i - 1 /\ new[i].data = <<version, i>>
    <2>1. 0 \in Nat
      OBVIOUS
    <2> QED BY <2>1, WrittenFits
  <1> HIDE DEF new
  <1>2. m.fragments = new /\ m.next = n /\ m \in Manifests
    BY <1>1 DEF Manifest, Manifests
  <1>3. Distinct(new)
    BY <1>1 DEF Distinct
  <1>4. \A i \in 1..n : new[i].id < n /\ new[i].data[1] <= version
    BY <1>1
  <1> HIDE DEF m
  <1>5. Sound(m, version)
    BY <1>1, <1>2, <1>3, <1>4 DEF Sound
  <1> QED BY <1>2, <1>5 DEF m, new

LEMMA OverwriteFits == ASSUME IInv, Overwrite PROVE IInv'
  <1>1. PICK n \in 0..MaxFragments :
          Commit(Manifest(Len(history) + 1, Written(Len(history) + 1, 0, n), n))
    BY DEF Overwrite
  <1>2. n \in Nat /\ Len(history) + 1 \in Nat
    BY LastFits, MaxFragmentsAssumption DEF IInv
  <1> DEFINE m == Manifest(Len(history) + 1, Written(Len(history) + 1, 0, n), n)
  <1>3. m \in Manifests /\ Sound(m, Len(history) + 1)
    BY <1>2, FirstVersionFits
  <1>4. Commit(m)
    BY <1>1
  <1> HIDE DEF m
  <1> QED BY <1>3, <1>4, CommitFits

LEMMA AppendFragmentFits == ASSUME IInv, AppendFragment PROVE IInv'
  <1> DEFINE v == Len(history) + 1
             new == Written(v, Newest.next, 1)
             both == Newest.fragments \o new
             m == Manifest(Newest.schema, both, Newest.next + 1)
  <1>1. /\ Newest \in Manifests /\ Sound(Newest, Len(history))
        /\ Len(history) \in Nat
    BY LastFits DEF IInv
  <1>2. Newest.schema \in Nat /\ Newest.fragments \in Seq(Fragment) /\ Newest.next \in Nat /\ v \in Nat
    BY <1>1 DEF Manifests
  <1>3. new \in Seq(Fragment) /\ Len(new) = 1 /\ new[1].id = Newest.next /\ new[1].data = <<v, 1>>
    <2>1. /\ new \in Seq(Fragment) /\ Len(new) = 1
          /\ \A i \in 1..1 : new[i].id = Newest.next + i - 1 /\ new[i].data = <<v, i>>
      <3>1. 1 \in Nat
        OBVIOUS
      <3> QED BY <1>2, <3>1, WrittenFits
    <2> HIDE DEF new
    <2> QED BY <1>2, <2>1
  <1> HIDE DEF new
  <1>4. /\ both \in Seq(Fragment) /\ Len(both) = Len(Newest.fragments) + 1
        /\ \A i \in 1..Len(Newest.fragments) : both[i] = Newest.fragments[i]
        /\ both[Len(Newest.fragments) + 1] = new[1]
    <2>1. /\ both \in Seq(Fragment) /\ Len(both) = Len(Newest.fragments) + Len(new)
          /\ \A i \in 1..Len(Newest.fragments) + Len(new) :
               both[i] = IF i <= Len(Newest.fragments) THEN Newest.fragments[i]
                         ELSE new[i - Len(Newest.fragments)]
      BY <1>2, <1>3, ConcatProperties
    <2> HIDE DEF both
    <2>2. Len(Newest.fragments) \in Nat /\ Len(new) = 1
      BY <1>2, <1>3
    <2> QED BY <2>1, <2>2
  <1> HIDE DEF both
  <1>5. Len(Newest.fragments) \in Nat
    BY <1>2
  <1>6. \A i \in 1..Len(both) : i \in 1..Len(Newest.fragments) \/ i = Len(Newest.fragments) + 1
    BY <1>4, <1>5
  <1>7. \A i \in 1..Len(Newest.fragments) :
          /\ both[i].id < Newest.next /\ both[i].id \in Nat
          /\ both[i].data[1] < v /\ both[i].data # <<v, 1>> /\ both[i].data[1] \in Nat
    <2> SUFFICES ASSUME NEW i \in 1..Len(Newest.fragments)
                 PROVE  /\ both[i].id < Newest.next /\ both[i].id \in Nat
                        /\ both[i].data[1] < v /\ both[i].data # <<v, 1>>
                        /\ both[i].data[1] \in Nat
      OBVIOUS
    <2>1. both[i] \in Fragment /\ both[i] = Newest.fragments[i]
      BY <1>2, <1>4
    <2>2. both[i].id \in Nat /\ both[i].data[1] \in Nat
      BY <2>1 DEF Fragment
    <2>3. both[i].id < Newest.next /\ both[i].data[1] <= Len(history)
      BY <1>1, <2>1 DEF Sound
    <2>4. both[i].data[1] < v
      BY <1>1, <2>2, <2>3
    <2>5. both[i].data # <<v, 1>>
      BY <1>2, <2>2, <2>4
    <2> QED BY <2>2, <2>3, <2>4, <2>5
  <1>8. Distinct(both)
    <2>1. Distinct(Newest.fragments)
      BY <1>1 DEF Sound
    <2>2. /\ both[Len(Newest.fragments) + 1].id = Newest.next
          /\ both[Len(Newest.fragments) + 1].data = <<v, 1>>
      BY <1>3, <1>4
    <2>3. \A i \in 1..Len(Newest.fragments) : both[i].id # Newest.next /\ both[i].data # <<v, 1>>
      BY <1>2, <1>7
    <2> SUFFICES ASSUME NEW i \in 1..Len(both), NEW j \in 1..Len(both), i # j
                 PROVE  both[i].id # both[j].id /\ both[i].data # both[j].data
      BY DEF Distinct
    <2>4. CASE i \in 1..Len(Newest.fragments) /\ j \in 1..Len(Newest.fragments)
      BY <1>4, <2>1, <2>4 DEF Distinct
    <2>5. CASE i \in 1..Len(Newest.fragments) /\ j = Len(Newest.fragments) + 1
      BY <2>2, <2>3, <2>5
    <2>6. CASE i = Len(Newest.fragments) + 1 /\ j \in 1..Len(Newest.fragments)
      BY <2>2, <2>3, <2>6
    <2> QED BY <1>6, <2>4, <2>5, <2>6
  <1>9. m.fragments = both /\ m.next = Newest.next + 1 /\ m \in Manifests
    BY <1>2, <1>4 DEF Manifest, Manifests
  <1>10. \A i \in 1..Len(both) : both[i].id < Newest.next + 1 /\ both[i].data[1] <= v
    <2>1. \A i \in 1..Len(Newest.fragments) : both[i].id < Newest.next + 1 /\ both[i].data[1] <= v
      BY <1>2, <1>7
    <2>2. <<v, 1>>[1] = v /\ v <= v /\ Newest.next < Newest.next + 1
      BY <1>2
    <2> QED BY <1>3, <1>4, <1>6, <2>1, <2>2
  <1>11. Commit(m)
    BY DEF AppendFragment, both, new
  <1> HIDE DEF m
  <1>12. Sound(m, v)
    BY <1>8, <1>9, <1>10 DEF Sound
  <1> QED BY <1>9, <1>11, <1>12, CommitFits

LEMMA DeleteFragmentFits == ASSUME IInv, DeleteFragment PROVE IInv'
  <1>1. PICK p \in 1..Len(Newest.fragments) :
          Commit(Manifest(Newest.schema,
                    SubSeq(Newest.fragments, 1, p - 1)
                      \o SubSeq(Newest.fragments, p + 1, Len(Newest.fragments)),
                    Newest.next))
    BY DEF DeleteFragment
  <1> DEFINE old == Newest.fragments
             left == SubSeq(old, 1, p - 1) \o SubSeq(old, p + 1, Len(old))
             m == Manifest(Newest.schema, left, Newest.next)
  <1>2. Commit(m)
    BY <1>1
  <1>3. /\ Newest \in Manifests /\ Sound(Newest, Len(history))
        /\ Len(history) \in Nat
    BY LastFits DEF IInv
  <1>4. Newest.schema \in Nat /\ old \in Seq(Fragment) /\ Newest.next \in Nat
    BY <1>3 DEF Manifests
  <1>5. /\ left \in Seq(Fragment) /\ Len(left) = Len(old) - 1
        /\ \A i \in 1..Len(old) - 1 : left[i] = IF i < p THEN old[i] ELSE old[i + 1]
    BY <1>4, DeletedFits
  <1>6. Distinct(old) /\ Len(old) \in Nat
    BY <1>3, <1>4 DEF Sound
  <1>7. \A i \in 1..Len(old) : old[i].id < Newest.next /\ old[i].data[1] <= Len(history)
                                /\ old[i].data[1] \in Nat
    <2>1. \A i \in 1..Len(old) : old[i] \in Fragment
      BY <1>4
    <2> QED BY <1>3, <2>1 DEF Sound, Fragment
  <1> HIDE DEF left, old
  <1>8. Distinct(left)
    <2> SUFFICES ASSUME NEW i \in 1..Len(left), NEW j \in 1..Len(left), i # j
                 PROVE  left[i].id # left[j].id /\ left[i].data # left[j].data
      BY DEF Distinct
    <2> DEFINE Place(k) == IF k < p THEN k ELSE k + 1
    <2>1. /\ Place(i) \in 1..Len(old) /\ Place(j) \in 1..Len(old) /\ Place(i) # Place(j)
          /\ left[i] = old[Place(i)] /\ left[j] = old[Place(j)]
      BY <1>5, <1>6
    <2> HIDE DEF Place
    <2> QED BY <1>6, <2>1 DEF Distinct
  <1>9. \A i \in 1..Len(left) : left[i].id < Newest.next /\ left[i].data[1] <= Len(history) + 1
    <2>1. \A i \in 1..Len(left) : \E j \in 1..Len(old) : left[i] = old[j]
      BY <1>5, <1>6
    <2>2. \A j \in 1..Len(old) : old[j].data[1] <= Len(history) + 1
      BY <1>3, <1>7
    <2> QED BY <1>7, <2>1, <2>2
  <1>10. m.fragments = left /\ m.next = Newest.next /\ m \in Manifests
    BY <1>4, <1>5 DEF Manifest, Manifests
  <1> HIDE DEF m
  <1>11. Sound(m, Len(history) + 1)
    BY <1>8, <1>9, <1>10 DEF Sound
  <1> QED BY <1>2, <1>10, <1>11, CommitFits

LEMMA IdsFit ==
  ASSUME NEW m \in Manifests, Distinct(m.fragments)
  PROVE  /\ Ids(m) \in Seq(Nat) /\ IsInjective(Ids(m)) /\ Len(Ids(m)) = Len(m.fragments)
         /\ \A i \in 1..Len(m.fragments) : Ids(m)[i] = m.fragments[i].id
         /\ Ids(m) = <<>> <=> m.fragments = <<>>
  <1>1. m.fragments \in Seq(Fragment) /\ Len(m.fragments) \in Nat
    BY DEF Manifests
  <1>2. \A i \in 1..Len(m.fragments) : m.fragments[i].id \in Nat
    <2>1. \A i \in 1..Len(m.fragments) : m.fragments[i] \in Fragment
      BY <1>1
    <2> QED BY <2>1 DEF Fragment
  <1>3. Ids(m) = [i \in 1..Len(m.fragments) |-> m.fragments[i].id]
    BY DEF Ids
  <1>4. Ids(m) \in [1..Len(m.fragments) -> Nat]
    BY <1>2, <1>3
  <1>5. \A i \in 1..Len(m.fragments) : Ids(m)[i] = m.fragments[i].id
    BY <1>3
  <1>6. Ids(m) \in Seq(Nat) /\ Len(Ids(m)) = Len(m.fragments) /\ DOMAIN Ids(m) = 1..Len(m.fragments)
    BY <1>1, <1>4, FunctionIsSeq
  <1>7. IsInjective(Ids(m))
    BY <1>5, <1>6 DEF Distinct, IsInjective
  <1>8. Ids(m) = <<>> <=> m.fragments = <<>>
    BY <1>1, <1>6
  <1> QED BY <1>5, <1>6, <1>7, <1>8

-----------------------------------------------------------------------------
(* A call that builds LazyFrames, and their collections.                   *)

LEMMA NumbersResolve ==
  ASSUME NEW v \in Int
  PROVE  Resolved(v) = v
  BY TagAssumption DEF Resolved

\* A version that is given and there resolves to one of the history.
LEMMA GivenResolves ==
  ASSUME IInv, NEW handle \in Handles, NEW version \in VersionsGiven
  PROVE  /\ Resolved(Pinned(handle, version)) \in 1..Len(history)
         /\ Pinned(handle, version) = IF version # None THEN version ELSE handle
         /\ Pinned(handle, version) \in {None, Tag} \cup 1..Len(history)
  <1>1. Len(history) \in Nat \ {0} /\ tag \in 1..Len(history)
    BY LastFits DEF IInv, TagFits
  <1>2. Pinned(handle, version) = IF version # None THEN version ELSE handle
    BY DEF Pinned
  <1>3. Pinned(handle, version) \in {None, Tag} \cup 1..Len(history)
    BY <1>2 DEF Handles, VersionsGiven
  <1>4. Resolved(Pinned(handle, version)) \in 1..Len(history)
    BY <1>1, <1>3, NumbersResolve DEF Resolved
  <1> QED BY <1>2, <1>3, <1>4

LEMMA BuiltFits ==
  ASSUME IInv, NEW name, NEW shards, NEW manifest, NEW scans,
         BuildFrames(name, shards, manifest, scans),
         Len(scans) \in Nat, DOMAIN scans = 1..Len(scans),
         name = "scan_lance_fragments" \/ manifest # None =>
           \A i \in 1..Len(scans) :
             scans[i].version \in 1..Len(history) /\ history[scans[i].version] = manifest,
         (name = "scan_lance_fragments" /\ Len(scans) # 0) =>
           /\ manifest.fragments # <<>> => shards \in {None} \cup (Nat \ {0})
           /\ Len(scans) = Len(Groups(Ids(manifest), shards))
           /\ \A i \in 1..Len(scans) : scans[i].ids = Groups(Ids(manifest), shards)[i]
  PROVE  IInv'
  <1>1. /\ call' = [name |-> name, shards |-> shards] /\ wanted' = manifest
        /\ frames' = scans /\ planned' = [i \in 1..Len(scans) |-> None]
        /\ results' = [i \in 1..Len(scans) |-> {}]
        /\ UNCHANGED <<history, gone, tag, collects>>
    BY DEF BuildFrames
  <1>2. HistoryFits' /\ TagFits'
    BY <1>1 DEF IInv, HistoryFits, TagFits
  <1>3. Pins' <=> name = "scan_lance_fragments" \/ manifest # None
    BY <1>1 DEF Pins
  <1>4. FramesFit'
    BY <1>1, <1>3 DEF FramesFit
  <1>5. ShardsFit'
    BY <1>1 DEF ShardsFit
  <1>6. ResultsFit'
    BY <1>1 DEF ResultsFit
  <1> QED BY <1>2, <1>4, <1>5, <1>6 DEF IInv

LEMMA ScanLanceFits == ASSUME IInv, ScanLance PROVE IInv'
  <1>1. PICK handle \in Handles, version \in VersionsGiven, ids \in {None, <<0>>} :
          LET asked == IF version # None THEN version ELSE handle
          IN  BuildFrames("scan_lance", None,
                 IF asked \in {None, Tag} THEN None ELSE history[asked],
                 <<ReadOf(Pinned(handle, version), ids)>>)
    BY DEF ScanLance
  <1> DEFINE asked == Pinned(handle, version)
             manifest == IF asked \in {None, Tag} THEN None ELSE history[asked]
             scans == <<ReadOf(asked, ids)>>
  <1>2. BuildFrames("scan_lance", None, manifest, scans)
    BY <1>1, GivenResolves
  <1>3. Len(scans) = 1 /\ DOMAIN scans = 1..1 /\ scans[1].version = asked
    BY DEF ReadOf
  <1>4. asked \in {None, Tag} \cup 1..Len(history)
    BY GivenResolves
  <1>5. manifest # None => asked \in 1..Len(history) /\ history[asked] = manifest
    BY <1>4
  <1> HIDE DEF asked, manifest, scans
  <1>6. \A i \in 1..Len(scans) : i = 1
    BY <1>3
  <1>7. Len(scans) \in Nat /\ DOMAIN scans = 1..Len(scans) /\ "scan_lance" # "scan_lance_fragments"
    BY <1>3
  <1> QED BY <1>2, <1>3, <1>5, <1>6, <1>7, BuiltFits

LEMMA ScanLanceFragmentsFits == ASSUME IInv, ScanLanceFragments PROVE IInv'
  <1>1. PICK handle \in Handles, version \in VersionsGiven, n \in {None} \cup 0..MaxFragments + 1 :
       LET opened == history[Resolved(Pinned(handle, version))]
           groups == Groups(Ids(opened), n)
           refused == Ids(opened) # <<>> /\ n # None /\ n < 1
       IN  BuildFrames("scan_lance_fragments", n, opened,
                 IF refused THEN <<>>
                 ELSE [i \in 1..Len(groups) |-> ReadOf(ShardVersion(handle, version), groups[i])])
    BY DEF ScanLanceFragments
  <1> DEFINE v == Resolved(Pinned(handle, version))
             m == history[v]
             groups == Groups(Ids(m), n)
             refused == Ids(m) # <<>> /\ n # None /\ n < 1
             built == [i \in 1..Len(groups) |-> ReadOf(ShardVersion(handle, version), groups[i])]
  <1>2. v \in 1..Len(history)
    BY GivenResolves
  <1>3. BuildFrames("scan_lance_fragments", n, m, IF refused THEN <<>> ELSE built)
    BY <1>1
  <1>4. \A i \in 1..Len(groups) : built[i].version = v /\ built[i].ids = groups[i]
    BY DEF ReadOf, ShardVersion
  <1> HIDE DEF v
  <1>5. m \in Manifests /\ Sound(m, v)
    BY <1>2 DEF IInv, HistoryFits
  <1>6. /\ Ids(m) \in Seq(Nat) /\ IsInjective(Ids(m))
        /\ m.fragments # <<>> => Ids(m) # <<>>
    BY <1>5, IdsFit DEF Sound
  <1>7. CASE refused
    <2>1. BuildFrames("scan_lance_fragments", n, m, <<>>)
      BY <1>3, <1>7
    <2>2. Len(<<>>) = 0 /\ DOMAIN <<>> = 1..0 /\ 0 \in Nat
      OBVIOUS
    <2>3. \A i \in 1..Len(<<>>) : FALSE
      BY <2>2
    <2> HIDE DEF m
    <2> QED BY <2>1, <2>2, <2>3, BuiltFits
  <1>8. CASE ~refused
    <2>1. BuildFrames("scan_lance_fragments", n, m, built)
      BY <1>3, <1>8
    <2>2. Ids(m) # <<>> => n \in {None} \cup (Nat \ {0})
      BY <1>8, MaxFragmentsAssumption
    <2> HIDE DEF m
    <2>3. Len(groups) \in Nat /\ DOMAIN groups = 1..Len(groups)
      BY <1>6, <2>2, GroupsPartition
    <2> HIDE DEF groups
    <2>4. Len(built) = Len(groups) /\ DOMAIN built = 1..Len(groups)
      <3> DEFINE S == {built[i] : i \in 1..Len(groups)}
      <3>1. built \in [1..Len(groups) -> S]
        OBVIOUS
      <3> HIDE DEF S, built
      <3> QED BY <2>3, <3>1, FunctionIsSeq
    <2> HIDE DEF built
    <2>5. \A i \in 1..Len(built) :
            built[i].version \in 1..Len(history) /\ history[built[i].version] = m
      BY <1>2, <1>4, <2>4 DEF m
    <2>6. m.fragments # <<>> => n \in {None} \cup (Nat \ {0})
      BY <1>6, <2>2
    <2>7. \A i \in 1..Len(built) : built[i].ids = Groups(Ids(m), n)[i]
      BY <1>4, <2>4 DEF groups
    <2>8. Len(built) = Len(Groups(Ids(m), n)) /\ Len(built) \in Nat /\ DOMAIN built = 1..Len(built)
      BY <2>3, <2>4 DEF groups
    <2> QED BY <2>1, <2>5, <2>6, <2>7, <2>8, BuiltFits
  <1> QED BY <1>7, <1>8

LEMMA ResolveSchemaFits ==
  ASSUME IInv, NEW i \in 1..Len(frames), ResolveSchema(i)
  PROVE  IInv'
  <1>1. UNCHANGED <<history, gone, tag, call, wanted, frames, results>>
    BY DEF ResolveSchema
  <1>2. HistoryFits' /\ TagFits' /\ ShardsFit' /\ ResultsFit' /\ (Pins' <=> Pins)
    BY <1>1 DEF IInv, HistoryFits, TagFits, ShardsFit, ResultsFit, Pins
  <1>3. \/ UNCHANGED planned
        \/ planned' = [planned EXCEPT ![i] = history[Resolved(frames[i].version)].schema]
    BY DEF ResolveSchema
  <1>4. Pins => history[Resolved(frames[i].version)].schema = wanted.schema
    BY NumbersResolve DEF IInv, FramesFit
  <1>5. FramesFit'
    BY <1>1, <1>2, <1>3, <1>4 DEF IInv, FramesFit
  <1> QED BY <1>2, <1>5 DEF IInv

LEMMA ReadRowsFits ==
  ASSUME IInv, NEW i \in 1..Len(frames), ReadRows(i)
  PROVE  IInv'
  <1> DEFINE manifest == history[Resolved(frames[i].version)]
             got == [planned |-> planned[i], schema |-> manifest.schema,
                     rows |-> RowsOf(manifest, frames[i].ids)]
  <1>1. /\ UNCHANGED <<history, gone, tag, call, wanted, frames, collects>>
        /\ planned' = [planned EXCEPT ![i] = None] /\ planned[i] # None
        /\ \/ UNCHANGED results
           \/ results' = [results EXCEPT ![i] = @ \cup {got}]
    BY DEF ReadRows
  <1>2. HistoryFits' /\ TagFits' /\ ShardsFit' /\ (Pins' <=> Pins)
    BY <1>1 DEF IInv, HistoryFits, TagFits, ShardsFit, Pins
  <1>3. Pins => manifest = wanted /\ planned[i] = wanted.schema
    BY <1>1, NumbersResolve DEF IInv, FramesFit
  <1>4. Pins => /\ got.planned = got.schema /\ got.schema = wanted.schema
                /\ got.rows = RowsOf(wanted, frames[i].ids)
    BY <1>3
  <1> HIDE DEF got
  <1>5. FramesFit'
    BY <1>1, <1>2 DEF IInv, FramesFit
  <1>6. ResultsFit'
    <2> SUFFICES ASSUME Pins, NEW j \in 1..Len(frames), NEW g \in results'[j]
                 PROVE  /\ g.planned = g.schema /\ g.schema = wanted.schema
                        /\ g.rows = RowsOf(wanted, frames[j].ids)
      BY <1>1, <1>2 DEF ResultsFit
    <2>1. g \in results[j] \/ (j = i /\ g = got)
      BY <1>1 DEF IInv, FramesFit
    <2> QED BY <1>4, <2>1 DEF IInv, ResultsFit
  <1> QED BY <1>2, <1>5, <1>6 DEF IInv

-----------------------------------------------------------------------------
(* The invariant.                                                          *)

LEMMA InitIInv == ShardsInit => IInv
  <1> SUFFICES ASSUME ShardsInit PROVE IInv
    OBVIOUS
  <1>1. PICK n \in 0..MaxFragments : history = <<Manifest(1, Written(1, 0, n), n)>>
    BY DEF ShardsInit
  <1> DEFINE m == Manifest(1, Written(1, 0, n), n)
  <1>2. m \in Manifests /\ Sound(m, 1)
    <2>1. 1 \in Nat /\ n \in Nat
      BY MaxFragmentsAssumption
    <2> QED BY <2>1, FirstVersionFits
  <1>3. history = <<m>>
    BY <1>1
  <1> HIDE DEF m
  <1>4. history \in Seq(Manifests) /\ Len(history) = 1 /\ history[1] = m /\ history # <<>>
    BY <1>2, <1>3
  <1>5. HistoryFits
    BY <1>2, <1>4 DEF HistoryFits
  <1>6. TagFits
    BY <1>4 DEF TagFits, ShardsInit
  <1>7. ~Pins /\ call.name # "scan_lance_fragments"
    BY DEF Pins, ShardsInit
  <1>8. FramesFit
    BY <1>7 DEF FramesFit, ShardsInit
  <1>9. ShardsFit /\ ResultsFit
    BY <1>7 DEF ShardsFit, ResultsFit
  <1> QED BY <1>5, <1>6, <1>8, <1>9 DEF IInv

LEMMA NextIInv == IInv /\ [ShardsNext]_shardsVars => IInv'
  <1> SUFFICES ASSUME IInv, [ShardsNext]_shardsVars PROVE IInv'
    OBVIOUS
  <1>1. CASE UNCHANGED shardsVars
    BY <1>1 DEF shardsVars, IInv, HistoryFits, TagFits, FramesFit, ShardsFit, ResultsFit, Pins
  <1>2. CASE ScanLance
    BY <1>2, ScanLanceFits
  <1>3. CASE ScanLanceFragments
    BY <1>3, ScanLanceFragmentsFits
  <1>4. ASSUME NEW i \in 1..Len(frames), ResolveSchema(i) \/ ReadRows(i)
        PROVE  IInv'
    BY <1>4, ResolveSchemaFits, ReadRowsFits
  <1>5. CASE Overwrite
    BY <1>5, OverwriteFits
  <1>6. CASE AppendFragment
    BY <1>6, AppendFragmentFits
  <1>7. CASE DeleteFragment
    BY <1>7, DeleteFragmentFits
  <1>8. CASE MoveTag \/ CleanUp
    <2>1. /\ UNCHANGED <<history, call, wanted, frames, planned, results, collects>>
          /\ TagFits'
      BY <1>8 DEF MoveTag, CleanUp, IInv, TagFits
    <2> QED BY <2>1 DEF IInv, HistoryFits, FramesFit, ShardsFit, ResultsFit, Pins
  <1> QED BY <1>1, <1>2, <1>3, <1>4, <1>5, <1>6, <1>7, <1>8 DEF ShardsNext

LEMMA Invariant == ShardsSpec => []IInv
  BY InitIInv, NextIInv, PTL DEF ShardsSpec

-----------------------------------------------------------------------------
(* What the invariant says of the results.                                 *)

\* The rows behind ids that are there are those of the fragments they name.
LEMMA RowsAre ==
  ASSUME NEW m \in Manifests, Distinct(m.fragments), NEW ids \in Seq(Nat)
  PROVE  /\ DOMAIN RowsOf(m, ids) = 1..Len(ids)
         /\ \A i \in 1..Len(ids), j \in 1..Len(m.fragments) :
              m.fragments[j].id = ids[i] => RowsOf(m, ids)[i] = m.fragments[j].data
  <1> DEFINE Named(i) == CHOOSE f \in {m.fragments[j] : j \in 1..Len(m.fragments)} : f.id = ids[i]
  <1>1. RowsOf(m, ids) = [i \in 1..Len(ids) |-> Named(i).data]
    <2>1. ids # None
      BY TagAssumption
    <2> QED BY <2>1 DEF RowsOf
  <1>2. ASSUME NEW i \in 1..Len(ids), NEW j \in 1..Len(m.fragments), m.fragments[j].id = ids[i]
        PROVE  Named(i) = m.fragments[j]
    <2>1. m.fragments[j] \in {m.fragments[k] : k \in 1..Len(m.fragments)}
      OBVIOUS
    <2>2. Named(i) \in {m.fragments[k] : k \in 1..Len(m.fragments)} /\ Named(i).id = ids[i]
      BY <1>2, <2>1
    <2> HIDE DEF Named
    <2>3. PICK k \in 1..Len(m.fragments) : Named(i) = m.fragments[k]
      BY <2>2
    <2> QED BY <1>2, <2>2, <2>3 DEF Distinct
  <1> HIDE DEF Named
  <1> QED BY <1>1, <1>2

\* Data and ids of a version correspond.
LEMMA RowsOfIds ==
  ASSUME NEW m \in Manifests, Distinct(m.fragments),
         NEW ids \in Seq(Nat), Range(ids) \subseteq Range(Ids(m))
  PROVE  \A i \in 1..Len(ids) : \E j \in 1..Len(m.fragments) :
           /\ ids[i] = m.fragments[j].id
           /\ RowsOf(m, ids)[i] = m.fragments[j].data
  <1> SUFFICES ASSUME NEW i \in 1..Len(ids)
               PROVE  \E j \in 1..Len(m.fragments) :
                        ids[i] = m.fragments[j].id /\ RowsOf(m, ids)[i] = m.fragments[j].data
    OBVIOUS
  <1>1. ids[i] \in Range(Ids(m))
    <2>1. i \in DOMAIN ids
      OBVIOUS
    <2> QED BY <2>1 DEF Range
  <1>2. PICK j \in 1..Len(m.fragments) : ids[i] = m.fragments[j].id
    <2>1. Ids(m) \in Seq(Nat) /\ Len(Ids(m)) = Len(m.fragments)
          /\ \A k \in 1..Len(m.fragments) : Ids(m)[k] = m.fragments[k].id
      BY IdsFit
    <2>2. DOMAIN Ids(m) = 1..Len(m.fragments)
      BY <2>1
    <2> QED BY <1>1, <2>1, <2>2 DEF Range
  <1> QED BY <1>2, RowsAre

LEMMA OneVersion == IInv => ShardsMakeUpOneVersion
  <1> SUFFICES ASSUME IInv, call.name = "scan_lance_fragments", frames # <<>>
               PROVE  ShardsMakeUpOneVersion
    BY DEF ShardsMakeUpOneVersion
  <1> DEFINE groups == Groups(Ids(wanted), call.shards)
             ns == 1..Len(frames)
  <1>1. Len(frames) \in Nat /\ DOMAIN frames = ns /\ 1 \in ns
    BY DEF IInv, FramesFit
  <1>2. wanted \in Manifests /\ Distinct(wanted.fragments)
    <2>1. frames[1].version \in 1..Len(history) /\ history[frames[1].version] = wanted
      BY <1>1 DEF IInv, FramesFit, Pins
    <2>2. \A v \in 1..Len(history) : history[v] \in Manifests /\ Sound(history[v], v)
      BY DEF IInv, HistoryFits
    <2> QED BY <2>1, <2>2 DEF Sound
  <1>3. /\ Ids(wanted) \in Seq(Nat) /\ IsInjective(Ids(wanted))
        /\ Len(Ids(wanted)) = Len(wanted.fragments)
        /\ \A j \in 1..Len(wanted.fragments) : Ids(wanted)[j] = wanted.fragments[j].id
        /\ Ids(wanted) # <<>> => call.shards \in {None} \cup (Nat \ {0})
        /\ Len(frames) = Len(groups) /\ \A i \in ns : frames[i].ids = groups[i]
    BY <1>1, <1>2, IdsFit DEF IInv, ShardsFit
  <1>4. /\ \A i \in ns : /\ groups[i] \in Seq(Nat) /\ IsInjective(groups[i])
                         /\ Range(groups[i]) \subseteq Range(Ids(wanted))
        /\ \A i, j \in ns : i # j => Range(groups[i]) \cap Range(groups[j]) = {}
        /\ \A j \in 1..Len(Ids(wanted)) : \E i \in ns : Ids(wanted)[j] \in Range(groups[i])
    BY <1>3, GroupsPartition
  <1>5. \A i \in ns : \A got \in results[i] : got.rows = RowsOf(wanted, groups[i])
    BY <1>3 DEF IInv, ResultsFit, Pins
  <1> HIDE DEF groups
  <1>6. ASSUME NEW i \in ns
        PROVE  /\ DOMAIN RowsOf(wanted, groups[i]) = 1..Len(groups[i])
               /\ DOMAIN groups[i] = 1..Len(groups[i])
               /\ \A k \in 1..Len(groups[i]) : \E j \in 1..Len(wanted.fragments) :
                    /\ groups[i][k] = wanted.fragments[j].id
                    /\ RowsOf(wanted, groups[i])[k] = wanted.fragments[j].data
    <2>1. /\ groups[i] \in Seq(Nat)
          /\ Range(groups[i]) \subseteq Range(Ids(wanted))
      BY <1>4
    <2>2. DOMAIN RowsOf(wanted, groups[i]) = 1..Len(groups[i])
      BY <1>2, <2>1, RowsAre
    <2>3. DOMAIN groups[i] = 1..Len(groups[i])
      BY <2>1
    <2> QED BY <1>2, <2>1, <2>2, <2>3, RowsOfIds
  <1>7. \A j, l \in 1..Len(wanted.fragments) :
          /\ wanted.fragments[j].data = wanted.fragments[l].data => j = l
          /\ wanted.fragments[j].data \in Data(wanted)
    BY <1>2 DEF Distinct, Data
  \* The same data is behind the same id.
  <1>8. ASSUME NEW i \in ns, NEW j \in ns, NEW k \in 1..Len(groups[i]), NEW l \in 1..Len(groups[j]),
               RowsOf(wanted, groups[i])[k] = RowsOf(wanted, groups[j])[l]
        PROVE  groups[i][k] = groups[j][l]
    <2>1. PICK p \in 1..Len(wanted.fragments) :
            groups[i][k] = wanted.fragments[p].id
              /\ RowsOf(wanted, groups[i])[k] = wanted.fragments[p].data
      BY <1>6
    <2>2. PICK q \in 1..Len(wanted.fragments) :
            groups[j][l] = wanted.fragments[q].id
              /\ RowsOf(wanted, groups[j])[l] = wanted.fragments[q].data
      BY <1>6
    <2>3. p = q
      BY <1>7, <1>8, <2>1, <2>2
    <2> QED BY <2>1, <2>2, <2>3
  <1>9. ASSUME NEW i \in ns, NEW got \in results[i]
        PROVE  IsInjective(got.rows) /\ Range(got.rows) \subseteq Data(wanted)
    <2>1. got.rows = RowsOf(wanted, groups[i])
      BY <1>5
    <2>2. IsInjective(got.rows)
      <3> SUFFICES ASSUME NEW k \in 1..Len(groups[i]), NEW l \in 1..Len(groups[i]),
                          got.rows[k] = got.rows[l]
                   PROVE  k = l
        BY <1>6, <2>1 DEF IsInjective
      <3>1. groups[i][k] = groups[i][l]
        BY <1>8, <2>1
      <3> QED BY <1>4, <1>6, <3>1 DEF IsInjective
    <2>3. Range(got.rows) \subseteq Data(wanted)
      <3>1. \A k \in 1..Len(groups[i]) : got.rows[k] \in Data(wanted)
        BY <1>6, <1>7, <2>1
      <3>2. DOMAIN got.rows = 1..Len(groups[i])
        BY <1>6, <2>1
      <3> QED BY <3>1, <3>2 DEF Range
    <2> QED BY <2>2, <2>3
  <1>10. ASSUME NEW i \in ns, NEW j \in ns, NEW here \in results[i], NEW there \in results[j],
                i # j
         PROVE  Range(here.rows) \cap Range(there.rows) = {}
    <2>1. here.rows = RowsOf(wanted, groups[i]) /\ there.rows = RowsOf(wanted, groups[j])
      BY <1>5
    <2>2. DOMAIN here.rows = 1..Len(groups[i]) /\ DOMAIN there.rows = 1..Len(groups[j])
      BY <1>6, <2>1
    <2> SUFFICES ASSUME NEW k \in 1..Len(groups[i]), NEW l \in 1..Len(groups[j]),
                        here.rows[k] = there.rows[l]
                 PROVE  FALSE
      BY <2>2 DEF Range
    <2>3. groups[i][k] = groups[j][l]
      BY <1>8, <2>1
    <2>4. groups[i][k] \in Range(groups[i]) /\ groups[j][l] \in Range(groups[j])
      BY <1>6 DEF Range
    <2> QED BY <1>4, <1>10, <2>3, <2>4
  <1>11. ASSUME \A i \in ns : results[i] # {}
         PROVE  UNION {Range(got.rows) : got \in UNION {results[i] : i \in ns}} = Data(wanted)
    <2>1. \A got \in UNION {results[i] : i \in ns} : Range(got.rows) \subseteq Data(wanted)
      BY <1>9
    <2>2. ASSUME NEW x \in Data(wanted)
          PROVE  \E got \in UNION {results[i] : i \in ns} : x \in Range(got.rows)
      <3>1. PICK j \in 1..Len(wanted.fragments) : x = wanted.fragments[j].data
        BY DEF Data
      <3>2. PICK i \in ns : wanted.fragments[j].id \in Range(groups[i])
        BY <1>3, <1>4
      <3>3. PICK k \in 1..Len(groups[i]) : groups[i][k] = wanted.fragments[j].id
        BY <1>6, <3>2 DEF Range
      <3>4. RowsOf(wanted, groups[i])[k] = x
        BY <1>2, <1>4, <3>1, <3>3, RowsAre
      <3>5. PICK got \in results[i] : TRUE
        BY <1>11
      <3>6. got.rows[k] = x /\ k \in DOMAIN got.rows
        BY <1>5, <1>6, <3>4
      <3>7. x \in Range(got.rows)
        BY <3>6 DEF Range
      <3> QED BY <3>7
    <2> QED BY <2>1, <2>2
  <1> QED BY <1>1, <1>9, <1>10, <1>11 DEF ShardsMakeUpOneVersion

LEMMA Even == IInv => ShardsStayEven
  <1> SUFFICES ASSUME IInv, call.name = "scan_lance_fragments", call.shards # None,
                      wanted.fragments # <<>>, frames # <<>>
               PROVE  /\ Len(frames) = IF call.shards < Len(wanted.fragments)
                                       THEN call.shards ELSE Len(wanted.fragments)
                      /\ \A i, j \in DOMAIN frames : Len(frames[i].ids) - Len(frames[j].ids) <= 1
    BY DEF ShardsStayEven
  <1> DEFINE n == call.shards
             L == Len(wanted.fragments)
  <1>1. Len(frames) \in Nat /\ DOMAIN frames = 1..Len(frames) /\ Len(frames) # 0
    BY DEF IInv, FramesFit
  <1>2. wanted \in Manifests /\ Distinct(wanted.fragments)
    <2>1. frames[1].version \in 1..Len(history) /\ history[frames[1].version] = wanted
      BY <1>1 DEF IInv, FramesFit, Pins
    <2>2. \A v \in 1..Len(history) : history[v] \in Manifests /\ Sound(history[v], v)
      BY DEF IInv, HistoryFits
    <2> QED BY <2>1, <2>2 DEF Sound
  <1>3. n \in Nat \ {0} /\ L \in Nat
    BY <1>1, <1>2 DEF IInv, ShardsFit, Manifests
  <1>4. Ids(wanted) \in Seq(Nat) /\ Len(Ids(wanted)) = L /\ Ids(wanted) # <<>>
    BY <1>2, IdsFit
  <1>5. Groups(Ids(wanted), n) = Deal(Ids(wanted), n)
    BY <1>4 DEF Groups
  <1>6. /\ Len(frames) = Len(Deal(Ids(wanted), n))
        /\ \A i \in 1..Len(frames) : frames[i].ids = Deal(Ids(wanted), n)[i]
    BY <1>1, <1>5 DEF IInv, ShardsFit
  <1>7. /\ Len(frames) = Smaller(n, L)
        /\ \A i \in 1..Smaller(n, L) : Len(frames[i].ids) = Share(L, i, n)
    <2>1. /\ Len(Deal(Ids(wanted), n)) = Smaller(n, L)
          /\ \A i \in 1..Smaller(n, L) : Len(Deal(Ids(wanted), n)[i]) = Share(L, i, n)
      <3> DEFINE ids == Ids(wanted)
      <3>1. ids \in Seq(Nat) /\ Len(ids) = L
        BY <1>4
      <3> HIDE DEF ids, n, L
      <3>2. /\ Len(Deal(ids, n)) = Smaller(n, Len(ids))
            /\ \A i \in 1..Smaller(n, Len(ids)) : Len(Deal(ids, n)[i]) = Share(Len(ids), i, n)
        BY <1>3, <3>1, DealIs
      <3> QED BY <3>1, <3>2 DEF ids
    <2> QED BY <1>6, <2>1
  <1>8. \A i, j \in 1..Smaller(n, L) : Share(L, i, n) - Share(L, j, n) <= 1
    BY <1>3, EvenShares
  <1> QED BY <1>1, <1>7, <1>8 DEF Smaller

-----------------------------------------------------------------------------

\* A LazyFrame that names its version returns the rows of that version whenever it
\* returns any, under the schema resolved before (_scan.py pins the version that
\* scan_lance is given and the one scan_lance_fragments opens).
THEOREM PinnedAgree == ShardsSpec => []PinnedCollectionsAgree
  <1>1. IInv => PinnedCollectionsAgree
    BY DEF IInv, FramesFit, ResultsFit, Pins, PinnedCollectionsAgree
  <1> QED BY <1>1, Invariant, PTL

\* The shards of scan_lance_fragments read every fragment of one version, each
\* once, whatever other writers do meanwhile.
THEOREM MakeUpOneVersion == ShardsSpec => []ShardsMakeUpOneVersion
  BY OneVersion, Invariant, PTL

\* Dealing ids[s::n] makes shards whose sizes differ by one at most, and as many
\* as asked for or as there are fragments.
THEOREM StayEven == ShardsSpec => []ShardsStayEven
  BY Even, Invariant, PTL
=============================================================================
