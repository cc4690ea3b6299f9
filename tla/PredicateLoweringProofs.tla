---------------------- MODULE PredicateLoweringProofs ----------------------
(***************************************************************************)
(* The predicate walk is sound for every set of rows, every bound on       *)
(* pending subtrees, and so for every expression.                          *)
(***************************************************************************)
EXTENDS PredicateLowering, SequenceTheorems, TLAPS

(* Closure of the column operators.                                        *)

LEMMA AllOfType == ASSUME NEW S PROVE AllOf(S) \in Columns
  BY DEF AllOf, Conj, Columns, TruthValues

LEMMA AnyOfType == ASSUME NEW S PROVE AnyOf(S) \in Columns
  BY DEF AnyOf, Disj, Columns, TruthValues

LEMMA NegatedType == ASSUME NEW u PROVE Negated(u) \in Columns
  BY DEF Negated, Not, Columns, TruthValues

LEMMA TrueOfType == ASSUME NEW u PROVE TrueOf(u) \in Columns
  BY DEF TrueOf, IsTrue, Columns, TruthValues

LEMMA ExclusiveType == ASSUME NEW u, NEW v PROVE Exclusive(u, v) \in Columns
  BY DEF Exclusive, Xor, Columns, TruthValues

LEMMA ChosenType ==
  ASSUME NEW c, NEW t \in Columns, NEW f \in Columns PROVE Chosen(c, t, f) \in Columns
  BY DEF Chosen, Columns

LEMMA ColumnsEqual ==
  ASSUME NEW u \in Columns, NEW v \in Columns, \A row \in Rows : u[row] = v[row]
  PROVE  u = v
  BY DEF Columns

LEMMA ConstantType ==
  ASSUME NEW item \in TruthValues PROVE [r \in Rows |-> item] \in Columns
  BY DEF Columns

-----------------------------------------------------------------------------
(* The invariant of one subtree, and its preservation by each kind of node. *)

Good(t) == t \in Subtrees /\ Sound(t.lowered, t.value)
                          /\ (t.translatable => t.lowered.sql # NoSql /\ t.lowered.exact)

GoodLowering(l, value) == l \in Lowerings /\ Sound(l, value)

LEMMA GoodFields ==
  ASSUME NEW t, Good(t)
  PROVE  /\ t.value \in Columns /\ t.lowered \in Lowerings
         /\ t.lowered.sql \in Columns \cup {NoSql} /\ t.lowered.exact \in BOOLEAN
         /\ GoodLowering(t.lowered, t.value)
         /\ t.translatable \in BOOLEAN
         /\ t.translatable => t.lowered.sql # NoSql /\ t.lowered.exact
  BY DEF Good, Subtrees, Lowerings, GoodLowering

LEMMA GoodSubtree ==
  ASSUME NEW value \in Columns, NEW l, GoodLowering(l, value), NEW b \in BOOLEAN,
         b => l.sql # NoSql /\ l.exact
  PROVE  Good(Subtree(value, l, b))
  BY DEF Good, Subtree, Subtrees, GoodLowering

LEMMA GoodDeclined == ASSUME NEW value PROVE GoodLowering(NoLowering, value)
  BY DEF GoodLowering, NoLowering, Lowering, Lowerings, Sound

LEMMA GoodExact ==
  ASSUME NEW value \in Columns PROVE GoodLowering(Lowering(value, TRUE), value)
  BY NoSqlAssumption DEF GoodLowering, Lowering, Lowerings, Sound

\* AND: pushing both conjuncts is exact if both are; pushing one is a superset.
LEMMA GoodAnd ==
  ASSUME NEW u \in Columns, NEW v \in Columns, NEW l, NEW r,
         GoodLowering(l, u), GoodLowering(r, v)
  PROVE  /\ GoodLowering(LowerAnd(l, r), AllOf({u, v}))
         /\ (l.sql # NoSql /\ l.exact /\ r.sql # NoSql /\ r.exact
               => LowerAnd(l, r).sql # NoSql /\ LowerAnd(l, r).exact)
<1>1. /\ l.sql \in Columns \cup {NoSql} /\ l.exact \in BOOLEAN
      /\ r.sql \in Columns \cup {NoSql} /\ r.exact \in BOOLEAN
  BY DEF GoodLowering, Lowerings
<1>2. ASSUME NEW row \in Rows, AllOf({u, v})[row] = "true"
      PROVE  u[row] = "true" /\ v[row] = "true"
  <2>1. /\ u[row] \in {w[row] : w \in {u, v}} /\ v[row] \in {w[row] : w \in {u, v}}
        /\ u[row] \in TruthValues /\ v[row] \in TruthValues
    BY DEF Columns
  <2>2. Conj({w[row] : w \in {u, v}}) = "true"
    BY <1>2 DEF AllOf
  <2>3. QED BY <2>1, <2>2 DEF Conj, TruthValues
<1>3. CASE l.sql = NoSql
  <2>1. LowerAnd(l, r) = Lowering(r.sql, FALSE)
    BY <1>3 DEF LowerAnd
  <2>2. QED BY <1>1, <1>2, <1>3, <2>1 DEF Lowering, Lowerings, GoodLowering, Sound
<1>4. CASE l.sql # NoSql /\ r.sql = NoSql
  <2>1. LowerAnd(l, r) = Lowering(l.sql, FALSE)
    BY <1>4 DEF LowerAnd
  <2>2. QED BY <1>1, <1>2, <1>4, <2>1 DEF Lowering, Lowerings, GoodLowering, Sound
<1>5. CASE l.sql # NoSql /\ r.sql # NoSql
  <2>1. LowerAnd(l, r) = Lowering(AllOf({l.sql, r.sql}), l.exact /\ r.exact)
    BY <1>5 DEF LowerAnd
  <2>2. AllOf({l.sql, r.sql}) \in Columns
    BY AllOfType
  <2>3. ASSUME l.exact, r.exact PROVE AllOf({l.sql, r.sql}) = AllOf({u, v})
    BY <2>3 DEF GoodLowering, Sound
  <2>4. ASSUME NEW row \in Rows, AllOf({u, v})[row] = "true"
        PROVE  AllOf({l.sql, r.sql})[row] = "true"
    <3>1. l.sql[row] = "true" /\ r.sql[row] = "true"
      BY <1>2, <1>5, <2>4 DEF GoodLowering, Sound
    <3>2. "false" \notin {w[row] : w \in {l.sql, r.sql}}
          /\ "null" \notin {w[row] : w \in {l.sql, r.sql}}
      BY <3>1
    <3>3. QED BY <3>2 DEF AllOf, Conj
  <2>5. QED
    BY <1>1, <1>5, <2>1, <2>2, <2>3, <2>4, NoSqlAssumption
    DEF Lowering, Lowerings, GoodLowering, Sound
<1>6. QED BY <1>3, <1>4, <1>5

\* OR: both sides have SQL, and each keeps what its own side keeps.
LEMMA GoodOr ==
  ASSUME NEW u \in Columns, NEW v \in Columns, NEW l, NEW r,
         GoodLowering(l, u), GoodLowering(r, v)
  PROVE  /\ GoodLowering(LowerOr(l, r), AnyOf({u, v}))
         /\ (l.sql # NoSql /\ l.exact /\ r.sql # NoSql /\ r.exact
               => LowerOr(l, r).sql # NoSql /\ LowerOr(l, r).exact)
<1>1. /\ l.sql \in Columns \cup {NoSql} /\ l.exact \in BOOLEAN
      /\ r.sql \in Columns \cup {NoSql} /\ r.exact \in BOOLEAN
  BY DEF GoodLowering, Lowerings
<1>2. CASE NoSql \in {l.sql, r.sql}
  <2>1. LowerOr(l, r) = NoLowering
    BY <1>2 DEF LowerOr
  <2>2. QED BY <1>2, <2>1, GoodDeclined
<1>3. CASE NoSql \notin {l.sql, r.sql}
  <2>1. LowerOr(l, r) = Lowering(AnyOf({l.sql, r.sql}), l.exact /\ r.exact)
    BY <1>3 DEF LowerOr
  <2>2. AnyOf({l.sql, r.sql}) \in Columns
    BY AnyOfType
  <2>3. ASSUME l.exact, r.exact PROVE AnyOf({l.sql, r.sql}) = AnyOf({u, v})
    BY <2>3 DEF GoodLowering, Sound
  <2>4. ASSUME NEW row \in Rows, AnyOf({u, v})[row] = "true"
        PROVE  AnyOf({l.sql, r.sql})[row] = "true"
    <3>1. Disj({w[row] : w \in {u, v}}) = "true"
      BY <2>4 DEF AnyOf
    <3>2. "true" \in {w[row] : w \in {u, v}}
      BY <3>1 DEF Disj
    <3>3. u[row] = "true" \/ v[row] = "true"
      BY <3>2
    <3>4. l.sql[row] = "true" \/ r.sql[row] = "true"
      BY <1>3, <3>3 DEF GoodLowering, Sound
    <3>5. "true" \in {w[row] : w \in {l.sql, r.sql}}
      BY <3>4
    <3>6. QED BY <3>5 DEF AnyOf, Disj
  <2>5. QED
    BY <1>1, <1>3, <2>1, <2>2, <2>3, <2>4, NoSqlAssumption
    DEF Lowering, Lowerings, GoodLowering, Sound
<1>4. QED BY <1>2, <1>3

\* XOR: the expansion into AND, OR and NOT is Xor itself, nulls included.
LEMMA XorExpansion ==
  ASSUME NEW u \in Columns, NEW v \in Columns
  PROVE  AnyOf({AllOf({u, Negated(v)}), AllOf({Negated(u), v})}) = Exclusive(u, v)
<1> DEFINE a == AllOf({u, Negated(v)})
           b == AllOf({Negated(u), v})
<1>1. AnyOf({a, b}) \in Columns /\ Exclusive(u, v) \in Columns
  BY AnyOfType, ExclusiveType
<1>2. ASSUME NEW row \in Rows PROVE AnyOf({a, b})[row] = Exclusive(u, v)[row]
  <2>1. /\ u[row] \in TruthValues /\ v[row] \in TruthValues
        /\ Negated(u)[row] = Not(u[row]) /\ Negated(v)[row] = Not(v[row])
    BY DEF Columns, Negated
  <2>2. a[row] = Conj({u[row], Not(v[row])}) /\ b[row] = Conj({Not(u[row]), v[row]})
    <3>1. {w[row] : w \in {u, Negated(v)}} = {u[row], Not(v[row])}
      BY <2>1
    <3>2. {w[row] : w \in {Negated(u), v}} = {Not(u[row]), v[row]}
      BY <2>1
    <3>3. QED BY <3>1, <3>2 DEF AllOf
  <2>3. {w[row] : w \in {a, b}} = {a[row], b[row]}
    OBVIOUS
  <2>4. AnyOf({a, b})[row] = Disj({a[row], b[row]})
    BY <2>3 DEF AnyOf
  <2>5. QED BY <2>1, <2>2, <2>4 DEF Exclusive, Xor, Conj, Disj, Not, TruthValues
<1>3. AnyOf({a, b}) = Exclusive(u, v)
  <2> HIDE DEF a, b
  <2>1. QED BY <1>1, <1>2, ColumnsEqual
<1>4. QED BY <1>3

LEMMA GoodXor ==
  ASSUME NEW u \in Columns, NEW v \in Columns, NEW l, NEW r,
         GoodLowering(l, u), GoodLowering(r, v)
  PROVE  /\ GoodLowering(LowerXor(l, r), Exclusive(u, v))
         /\ (l.sql # NoSql /\ l.exact /\ r.sql # NoSql /\ r.exact
               => LowerXor(l, r).sql # NoSql /\ LowerXor(l, r).exact)
<1>1. CASE NoSql \in {l.sql, r.sql} \/ ~(l.exact /\ r.exact)
  <2>1. LowerXor(l, r) = NoLowering
    BY <1>1 DEF LowerXor
  <2>2. QED BY <1>1, <2>1, GoodDeclined
<1>2. CASE ~(NoSql \in {l.sql, r.sql} \/ ~(l.exact /\ r.exact))
  <2>1. l.sql = u /\ r.sql = v
    BY <1>2 DEF GoodLowering, Sound
  <2>2. LowerXor(l, r) = Lowering(Exclusive(u, v), TRUE)
    BY <1>2, <2>1, XorExpansion DEF LowerXor
  <2>3. Exclusive(u, v) \in Columns
    BY ExclusiveType
  <2>4. QED BY <2>2, <2>3, GoodExact, NoSqlAssumption DEF Lowering
<1>3. QED BY <1>1, <1>2

LEMMA GoodNot ==
  ASSUME NEW u \in Columns, NEW l, GoodLowering(l, u)
  PROVE  /\ GoodLowering(LowerNot(l), Negated(u))
         /\ (l.sql # NoSql /\ l.exact => LowerNot(l).sql # NoSql /\ LowerNot(l).exact)
<1>1. CASE l.sql = NoSql \/ ~l.exact
  <2>1. LowerNot(l) = NoLowering
    BY <1>1 DEF LowerNot
  <2>2. QED BY <1>1, <2>1, GoodDeclined
<1>2. CASE ~(l.sql = NoSql \/ ~l.exact)
  <2>1. LowerNot(l) = Lowering(Negated(u), TRUE)
    BY <1>2 DEF LowerNot, GoodLowering, Sound
  <2>2. Negated(u) \in Columns
    BY NegatedType
  <2>3. QED BY <2>1, <2>2, GoodExact, NoSqlAssumption DEF Lowering
<1>3. QED BY <1>1, <1>2

\* when/then/otherwise: the OR of the guarded branches is the chosen branch.
LEMMA TernaryExpansion ==
  ASSUME NEW c \in Columns, NEW t \in Columns, NEW f \in Columns
  PROVE  AnyOf({AllOf({TrueOf(c), t}), AllOf({Negated(TrueOf(c)), f})}) = Chosen(c, t, f)
<1> DEFINE a == AllOf({TrueOf(c), t})
           b == AllOf({Negated(TrueOf(c)), f})
<1>1. AnyOf({a, b}) \in Columns /\ Chosen(c, t, f) \in Columns
  BY AnyOfType, ChosenType
<1>2. ASSUME NEW row \in Rows PROVE AnyOf({a, b})[row] = Chosen(c, t, f)[row]
  <2>1. /\ c[row] \in TruthValues /\ t[row] \in TruthValues /\ f[row] \in TruthValues
        /\ TrueOf(c)[row] = IsTrue(c[row])
        /\ Negated(TrueOf(c))[row] = Not(IsTrue(c[row]))
    BY DEF Columns, Negated, TrueOf
  <2>2. a[row] = Conj({IsTrue(c[row]), t[row]})
    <3>1. {w[row] : w \in {TrueOf(c), t}} = {IsTrue(c[row]), t[row]}
      BY <2>1
    <3>2. QED BY <3>1 DEF AllOf
  <2>3. b[row] = Conj({Not(IsTrue(c[row])), f[row]})
    <3>1. {w[row] : w \in {Negated(TrueOf(c)), f}} = {Not(IsTrue(c[row])), f[row]}
      BY <2>1
    <3>2. QED BY <3>1 DEF AllOf
  <2>4. AnyOf({a, b})[row] = Disj({a[row], b[row]})
    <3>1. {w[row] : w \in {a, b}} = {a[row], b[row]}
      OBVIOUS
    <3>2. QED BY <3>1 DEF AnyOf
  <2>5. QED
    BY <2>1, <2>2, <2>3, <2>4 DEF Chosen, IsTrue, Conj, Disj, Not, TruthValues
<1>3. AnyOf({a, b}) = Chosen(c, t, f)
  <2> HIDE DEF a, b
  <2>1. QED BY <1>1, <1>2, ColumnsEqual
<1>4. QED BY <1>3

LEMMA GoodTernary ==
  ASSUME NEW u \in Columns, NEW v \in Columns, NEW w \in Columns, NEW c, NEW t, NEW f,
         GoodLowering(c, u), GoodLowering(t, v), GoodLowering(f, w)
  PROVE  /\ GoodLowering(LowerTernary(c, t, f), Chosen(u, v, w))
         /\ (c.sql # NoSql /\ c.exact /\ t.sql # NoSql /\ t.exact /\ f.sql # NoSql /\ f.exact
               => LowerTernary(c, t, f).sql # NoSql /\ LowerTernary(c, t, f).exact)
<1>1. /\ t.sql \in Columns \cup {NoSql} /\ t.exact \in BOOLEAN
      /\ f.sql \in Columns \cup {NoSql} /\ f.exact \in BOOLEAN
  BY DEF GoodLowering, Lowerings
<1>2. CASE NoSql \in {c.sql, t.sql, f.sql} \/ ~c.exact
  <2>1. LowerTernary(c, t, f) = NoLowering
    BY <1>2 DEF LowerTernary
  <2>2. ~(/\ c.sql # NoSql /\ c.exact /\ t.sql # NoSql /\ t.exact
          /\ f.sql # NoSql /\ f.exact)
    BY <1>2
  <2>3. GoodLowering(NoLowering, Chosen(u, v, w))
    BY GoodDeclined
  <2>4. QED BY <2>1, <2>2, <2>3
<1>3. CASE ~(NoSql \in {c.sql, t.sql, f.sql} \/ ~c.exact)
  <2>1. c.sql = u /\ t.sql \in Columns /\ f.sql \in Columns
    BY <1>1, <1>3 DEF GoodLowering, Sound
  <2>2. LowerTernary(c, t, f) = Lowering(Chosen(u, t.sql, f.sql), t.exact /\ f.exact)
    BY <1>3, <2>1, TernaryExpansion DEF LowerTernary
  <2>3. Chosen(u, t.sql, f.sql) \in Columns
    BY <2>1, ChosenType
  <2>4. ASSUME t.exact, f.exact PROVE Chosen(u, t.sql, f.sql) = Chosen(u, v, w)
    BY <2>4 DEF GoodLowering, Sound
  <2>5. ASSUME NEW row \in Rows, Chosen(u, v, w)[row] = "true"
        PROVE  Chosen(u, t.sql, f.sql)[row] = "true"
    BY <1>3, <2>5 DEF Chosen, GoodLowering, Sound
  <2>6. QED
    BY <1>1, <2>2, <2>3, <2>4, <2>5, NoSqlAssumption
    DEF Lowering, Lowerings, GoodLowering, Sound
<1>4. QED BY <1>2, <1>3

LEMMA GoodValueTernary ==
  ASSUME NEW u \in Columns, NEW v \in Columns, NEW w \in Columns, NEW c,
         GoodLowering(c, u)
  PROVE  /\ GoodLowering(LowerValueTernary(c, v, w), Chosen(u, v, w))
         /\ (c.sql # NoSql /\ c.exact
               => LowerValueTernary(c, v, w).sql # NoSql /\ LowerValueTernary(c, v, w).exact)
<1>1. CASE c.sql = NoSql \/ ~c.exact
  <2>1. LowerValueTernary(c, v, w) = NoLowering
    BY <1>1 DEF LowerValueTernary
  <2>2. QED BY <1>1, <2>1, GoodDeclined
<1>2. CASE ~(c.sql = NoSql \/ ~c.exact)
  <2>1. c.sql = u
    BY <1>2 DEF GoodLowering, Sound
  <2>2. LowerValueTernary(c, v, w) = Lowering(Chosen(u, v, w), TRUE)
    BY <1>2, <2>1 DEF LowerValueTernary, Chosen, IsTrue
  <2>3. Chosen(u, v, w) \in Columns
    BY ChosenType
  <2>4. QED BY <2>2, <2>3, GoodExact, NoSqlAssumption DEF Lowering
<1>3. QED BY <1>1, <1>2

\* all_horizontal: as AND, over any number of arguments.
LEMMA GoodAllHorizontal ==
  ASSUME NEW args, args # {}, \A a \in args : Good(a)
  PROVE  LET values == {a.value : a \in args}
             lowerings == {a.lowered : a \in args}
         IN  /\ GoodLowering(LowerAllHorizontal(lowerings), AllOf(values))
             /\ ((\A a \in args : a.translatable)
                   => /\ LowerAllHorizontal(lowerings).sql # NoSql
                      /\ LowerAllHorizontal(lowerings).exact)
<1> DEFINE values == {a.value : a \in args}
           S == {a.lowered : a \in args}
           parts == {l \in S : l.sql # NoSql}
           sql == AllOf({l.sql : l \in parts})
           exact == \A l \in S : l.sql # NoSql /\ l.exact
<1> DEFINE ok == \A a \in args : a.translatable
<1> SUFFICES /\ GoodLowering(LowerAllHorizontal(S), AllOf(values))
             /\ ok => LowerAllHorizontal(S).sql # NoSql /\ LowerAllHorizontal(S).exact
  OBVIOUS
<1>1. ASSUME NEW a \in args
      PROVE  /\ a.value \in Columns
             /\ Sound(a.lowered, a.value)
             /\ (a.translatable => a.lowered.sql # NoSql /\ a.lowered.exact)
  BY GoodFields DEF GoodLowering
<1>2. ASSUME ok PROVE parts # {} /\ exact
  <2>1. PICK a \in args : TRUE
    OBVIOUS
  <2>2. QED BY <1>1, <1>2, <2>1
<1>3. CASE parts = {}
  <2>1. LowerAllHorizontal(S) = NoLowering
    BY <1>3 DEF LowerAllHorizontal
  <2>2. GoodLowering(NoLowering, AllOf(values))
    BY GoodDeclined
  <2>3. ~ok
    BY <1>2, <1>3
  <2>4. QED BY <2>1, <2>2, <2>3
<1>4. CASE parts # {}
  <2>1. LowerAllHorizontal(S) = Lowering(sql, exact)
    BY <1>4 DEF LowerAllHorizontal
  <2>2. sql \in Columns
    BY AllOfType
  <2>3. ASSUME exact PROVE sql = AllOf(values)
    <3>1. {l.sql : l \in parts} = values
      <4>1. \A a \in args : a.lowered.sql = a.value
        BY <1>1, <2>3 DEF Sound
      <4>2. parts = S
        BY <2>3
      <4>3. {l.sql : l \in S} = {a.lowered.sql : a \in args}
        OBVIOUS
      <4>4. \A x : x \in {a.lowered.sql : a \in args} <=> x \in values
        BY <4>1
      <4>5. QED BY <4>2, <4>3, <4>4
    <3>2. QED BY <3>1
  <2>4. ASSUME NEW row \in Rows, AllOf(values)[row] = "true" PROVE sql[row] = "true"
    <3>1. Conj({w[row] : w \in values}) = "true"
      BY <2>4 DEF AllOf
    <3>2. "false" \notin {w[row] : w \in values} /\ "null" \notin {w[row] : w \in values}
      BY <3>1 DEF Conj
    <3>3. \A a \in args : a.value[row] = "true"
      BY <1>1, <3>2 DEF Columns, TruthValues
    <3>4. \A l \in parts : l.sql[row] = "true"
      BY <1>1, <3>3 DEF Sound
    <3>5. /\ "false" \notin {w[row] : w \in {l.sql : l \in parts}}
          /\ "null" \notin {w[row] : w \in {l.sql : l \in parts}}
      BY <3>4
    <3>6. QED BY <3>5 DEF AllOf, Conj
  <2>5. GoodLowering(Lowering(sql, exact), AllOf(values))
    <3> exact \in BOOLEAN
      OBVIOUS
    <3> HIDE DEF sql, exact, values
    <3>1. QED
      BY <2>2, <2>3, <2>4, NoSqlAssumption DEF Lowering, Lowerings, GoodLowering, Sound
  <2>6. sql # NoSql
    BY <2>2, NoSqlAssumption
  <2>7. Lowering(sql, exact).sql = sql /\ Lowering(sql, exact).exact = exact
    BY DEF Lowering
  <2>8. ok => exact
    BY <1>2
  <2> HIDE DEF sql, exact, values, S, ok, parts
  <2>9. QED BY <2>1, <2>5, <2>6, <2>7, <2>8
<1>5. QED BY <1>3, <1>4

\* any_horizontal: as OR, over any number of arguments.
LEMMA GoodAnyHorizontal ==
  ASSUME NEW args, args # {}, \A a \in args : Good(a)
  PROVE  LET values == {a.value : a \in args}
             lowerings == {a.lowered : a \in args}
         IN  /\ GoodLowering(LowerAnyHorizontal(lowerings), AnyOf(values))
             /\ ((\A a \in args : a.translatable)
                   => /\ LowerAnyHorizontal(lowerings).sql # NoSql
                      /\ LowerAnyHorizontal(lowerings).exact)
<1> DEFINE values == {a.value : a \in args}
           S == {a.lowered : a \in args}
           sql == AnyOf({l.sql : l \in S})
           exact == \A l \in S : l.exact
<1> DEFINE ok == \A a \in args : a.translatable
<1> SUFFICES /\ GoodLowering(LowerAnyHorizontal(S), AnyOf(values))
             /\ ok => LowerAnyHorizontal(S).sql # NoSql /\ LowerAnyHorizontal(S).exact
  OBVIOUS
<1>1. ASSUME NEW a \in args
      PROVE  /\ a.value \in Columns
             /\ Sound(a.lowered, a.value)
             /\ (a.translatable => a.lowered.sql # NoSql /\ a.lowered.exact)
  BY GoodFields DEF GoodLowering
<1>2. ASSUME ok
      PROVE  (\A l \in S : l.sql # NoSql) /\ exact
  BY <1>1, <1>2
<1>3. CASE \E l \in S : l.sql = NoSql
  <2>1. LowerAnyHorizontal(S) = NoLowering
    BY <1>3 DEF LowerAnyHorizontal
  <2>2. GoodLowering(NoLowering, AnyOf(values))
    BY GoodDeclined
  <2>3. ~ok
    BY <1>2, <1>3
  <2>4. QED BY <2>1, <2>2, <2>3
<1>4. CASE \A l \in S : l.sql # NoSql
  <2>1. LowerAnyHorizontal(S) = Lowering(sql, exact)
    BY <1>4 DEF LowerAnyHorizontal
  <2>2. sql \in Columns
    BY AnyOfType
  <2>3. ASSUME exact PROVE sql = AnyOf(values)
    <3>1. {l.sql : l \in S} = values
      <4>1. \A a \in args : a.lowered.sql = a.value
        BY <1>1, <2>3 DEF Sound
      <4>2. {l.sql : l \in S} = {a.lowered.sql : a \in args}
        OBVIOUS
      <4>3. \A x : x \in {a.lowered.sql : a \in args} <=> x \in values
        BY <4>1
      <4>4. QED BY <4>2, <4>3
    <3>2. QED BY <3>1
  <2>4. ASSUME NEW row \in Rows, AnyOf(values)[row] = "true" PROVE sql[row] = "true"
    <3>1. Disj({w[row] : w \in values}) = "true"
      BY <2>4 DEF AnyOf
    <3>2. "true" \in {w[row] : w \in values}
      BY <3>1 DEF Disj
    <3>3. PICK a \in args : a.value[row] = "true"
      BY <3>2
    <3>4. a.lowered \in S /\ a.lowered.sql[row] = "true"
      BY <1>1, <1>4, <3>3 DEF Sound
    <3>5. "true" \in {w[row] : w \in {l.sql : l \in S}}
      BY <3>4
    <3>6. QED BY <3>5 DEF AnyOf, Disj
  <2>5. GoodLowering(Lowering(sql, exact), AnyOf(values))
    <3> exact \in BOOLEAN
      OBVIOUS
    <3> HIDE DEF sql, exact, values
    <3>1. QED
      BY <2>2, <2>3, <2>4, NoSqlAssumption DEF Lowering, Lowerings, GoodLowering, Sound
  <2>6. sql # NoSql
    BY <2>2, NoSqlAssumption
  <2>7. Lowering(sql, exact).sql = sql /\ Lowering(sql, exact).exact = exact
    BY DEF Lowering
  <2>8. ok => exact
    BY <1>2
  <2> HIDE DEF sql, exact, values, S, ok
  <2>9. QED BY <2>1, <2>5, <2>6, <2>7, <2>8
<1>5. QED BY <1>3, <1>4

-----------------------------------------------------------------------------
(* The walk.  IInv says that every pending subtree is good, and that a      *)
(* finished walk returned the lowering of its root, or nothing.             *)

IInv ==
  /\ TypeOK
  /\ \A i \in 1..Len(pending) : Good(pending[i])
  /\ ~walking => \/ result = NoLowering
                 \/ Len(pending) = 1 /\ result = pending[1].lowered

\* What keeping the first n of a sequence's elements, and adding one, returns.
LEMMA PrefixFacts ==
  ASSUME NEW S, NEW s \in Seq(S), NEW n \in 0..Len(s)
  PROVE  /\ SubSeq(s, 1, n) \in Seq(S) /\ Len(SubSeq(s, 1, n)) = n
         /\ \A i \in 1..n : SubSeq(s, 1, n)[i] = s[i]
OBVIOUS

LEMMA AppendFacts ==
  ASSUME NEW S, NEW s \in Seq(S), NEW e \in S
  PROVE  /\ Append(s, e) \in Seq(S)
         /\ Len(Append(s, e)) = Len(s) + 1
         /\ Append(s, e)[Len(s) + 1] = e
         /\ \A i \in 1..Len(s) : Append(s, e)[i] = s[i]
OBVIOUS

LEMMA PushGood ==
  ASSUME IInv, NEW t, Good(t), Push(t), walking, UNCHANGED <<walking, result>>
  PROVE  IInv'
<1>1. pending \in Seq(Subtrees) /\ t \in Subtrees /\ pending' = Append(pending, t)
  BY DEF IInv, TypeOK, Push, Good
<1>2. pending' \in Seq(Subtrees) /\ Len(pending') = Len(pending) + 1
  BY <1>1
<1>3. ASSUME NEW i \in 1..Len(pending') PROVE Good(pending'[i])
  <2>1. CASE i = Len(pending) + 1
    BY <1>1, <2>1
  <2>2. CASE i \in 1..Len(pending)
    BY <1>1, <2>2 DEF IInv
  <2>3. QED BY <1>1, <1>2, <2>1, <2>2
<1>4. QED BY <1>2, <1>3 DEF IInv, TypeOK, Good

LEMMA ReduceGood ==
  ASSUME IInv, NEW k \in 1..Len(pending), NEW value \in Columns, NEW l,
         GoodLowering(l, value),
         (\A i \in 1..k : Args(k)[i].translatable) => l.sql # NoSql /\ l.exact,
         Reduce(k, value, l), walking, UNCHANGED <<walking, result>>
  PROVE  IInv'
<1> DEFINE b == \A i \in 1..k : Args(k)[i].translatable
           t == Subtree(value, l, b)
           rest == SubSeq(pending, 1, Len(pending) - k)
<1>1. Good(t)
  <2>1. b \in BOOLEAN
    OBVIOUS
  <2> HIDE DEF b
  <2>2. QED BY <2>1, GoodSubtree DEF b
<1>2. t \in Subtrees /\ pending \in Seq(Subtrees) /\ pending' = Append(rest, t)
  BY <1>1 DEF IInv, TypeOK, Good, Reduce
<1> HIDE DEF t
<1>3. Len(pending) \in Nat /\ Len(pending) - k \in 0..Len(pending)
  BY <1>2
<1> DEFINE kept == Len(pending) - k
<1>4. kept \in 0..Len(pending) /\ rest = SubSeq(pending, 1, kept)
  BY <1>3
<1> HIDE DEF rest, kept
<1>5. /\ rest \in Seq(Subtrees) /\ Len(rest) = kept
      /\ \A i \in 1..kept : rest[i] = pending[i]
  BY <1>2, <1>4, PrefixFacts
<1>6. /\ Append(rest, t) \in Seq(Subtrees)
      /\ Len(Append(rest, t)) = Len(rest) + 1
      /\ Append(rest, t)[Len(rest) + 1] = t
      /\ \A i \in 1..Len(rest) : Append(rest, t)[i] = rest[i]
  BY <1>2, <1>5, AppendFacts
<1>7. /\ pending' \in Seq(Subtrees) /\ Len(pending') = kept + 1
      /\ pending'[kept + 1] = t
      /\ \A i \in 1..kept : pending'[i] = pending[i]
  BY <1>2, <1>5, <1>6, Zenon
<1>8. ASSUME NEW i \in 1..Len(pending') PROVE Good(pending'[i])
  <2>1. CASE i = kept + 1
    BY <1>1, <1>7, <2>1
  <2>2. CASE i \in 1..kept
    <3>1. i \in 1..Len(pending)
      BY <1>3, <1>4, <2>2
    <3>2. pending'[i] = pending[i]
      BY <1>7, <2>2
    <3>3. QED BY <3>1, <3>2 DEF IInv
  <2>3. QED BY <1>4, <1>7, <1>3, <2>1, <2>2
<1>9. QED BY <1>7, <1>8 DEF IInv, TypeOK, Good

LEMMA ArgsGood ==
  ASSUME IInv, NEW k \in 1..Len(pending)
  PROVE  \A i \in 1..k : Good(Args(k)[i])
<1>1. pending \in Seq(Subtrees) /\ Len(pending) \in Nat
  BY DEF IInv, TypeOK
<1>2. ASSUME NEW i \in 1..k PROVE Good(Args(k)[i])
  <2>1. Len(pending) - k + i \in 1..Len(pending)
    BY <1>1
  <2>2. Args(k)[i] = pending[Len(pending) - k + i]
    BY DEF Args
  <2>3. QED BY <2>1, <2>2 DEF IInv
<1>3. QED BY <1>2

\* A walk that is over leaves its result alone; one that ends keeps the stack.
LEMMA InitIInv == Init => IInv
<1> SUFFICES ASSUME Init PROVE IInv
  OBVIOUS
<1>1. NoLowering \in Lowerings
  BY DEF NoLowering, Lowering, Lowerings
<1>2. QED BY <1>1 DEF Init, IInv, TypeOK

LEMMA NextIInv == IInv /\ [Next]_vars => IInv'
<1> SUFFICES ASSUME IInv, [Next]_vars PROVE IInv'
  OBVIOUS
<1> USE DEF GoodLowering
<1>1. CASE ExactLeaf
  <2>1. PICK value \in Columns : Push(Subtree(value, Lowering(value, TRUE), TRUE))
    BY <1>1 DEF ExactLeaf
  <2>2. Good(Subtree(value, Lowering(value, TRUE), TRUE))
    BY GoodExact, GoodSubtree, NoSqlAssumption DEF Lowering
  <2>3. QED BY <1>1, <2>1, <2>2, PushGood DEF ExactLeaf
<1>2. CASE Literal
  <2>1. PICK item \in TruthValues :
          Push(Subtree([r \in Rows |-> item], LowerLiteral(item), TRUE))
    BY <1>2 DEF Literal
  <2>2. [r \in Rows |-> item] \in Columns
    BY ConstantType
  <2>3. Good(Subtree([r \in Rows |-> item], LowerLiteral(item), TRUE))
    BY <2>2, GoodExact, GoodSubtree, NoSqlAssumption DEF Lowering, LowerLiteral
  <2>4. QED BY <1>2, <2>1, <2>3, PushGood DEF Literal
<1>3. CASE UntranslatableLeaf
  <2>1. PICK value \in Columns : Push(Subtree(value, NoLowering, FALSE))
    BY <1>3 DEF UntranslatableLeaf
  <2>2. Good(Subtree(value, NoLowering, FALSE))
    BY GoodDeclined, GoodSubtree
  <2>3. QED BY <1>3, <2>1, <2>2, PushGood DEF UntranslatableLeaf
<1>4. CASE NotNode
  <2> DEFINE a == Args(1)
  <2>1. walking /\ UNCHANGED <<walking, result>> /\ Len(pending) >= 1
        /\ Reduce(1, Negated(a[1].value), LowerNot(a[1].lowered))
    BY <1>4 DEF NotNode
  <2>2. 1 \in 1..Len(pending) /\ Good(a[1])
    BY <2>1, ArgsGood DEF IInv, TypeOK
  <2>3. GoodLowering(LowerNot(a[1].lowered), Negated(a[1].value))
        /\ (a[1].translatable
              => LowerNot(a[1].lowered).sql # NoSql /\ LowerNot(a[1].lowered).exact)
    <3> HIDE DEF a, GoodLowering
    <3>1. QED BY <2>2, GoodFields, GoodNot
  <2>4. Negated(a[1].value) \in Columns
    BY NegatedType
  <2> HIDE DEF GoodLowering
  <2>5. QED BY <2>1, <2>2, <2>3, <2>4, ReduceGood
<1>5. CASE BinaryNode
  <2> DEFINE a == Args(2)
             u == a[1].value
             v == a[2].value
             l == a[1].lowered
             r == a[2].lowered
  <2>1. walking /\ UNCHANGED <<walking, result>> /\ Len(pending) >= 2
    BY <1>5 DEF BinaryNode
  <2>2. 2 \in 1..Len(pending) /\ Good(a[1]) /\ Good(a[2])
    BY <2>1, ArgsGood DEF IInv, TypeOK
  <2> DEFINE both == \A i \in 1..2 : a[i].translatable
  <2>3. both => l.sql # NoSql /\ l.exact /\ r.sql # NoSql /\ r.exact
    <3>1. both => a[1].translatable /\ a[2].translatable
      OBVIOUS
    <3> HIDE DEF a, both
    <3>2. QED BY <2>2, <3>1, GoodFields
  <2>4. u \in Columns /\ v \in Columns /\ GoodLowering(l, u) /\ GoodLowering(r, v)
    <3> HIDE DEF a, GoodLowering
    <3>1. QED BY <2>2, GoodFields
  <2> HIDE DEF GoodLowering
  <2>5. CASE Reduce(2, AllOf({u, v}), LowerAnd(l, r))
    <3>1. GoodLowering(LowerAnd(l, r), AllOf({u, v})) /\ AllOf({u, v}) \in Columns
          /\ (both => LowerAnd(l, r).sql # NoSql /\ LowerAnd(l, r).exact)
      <4> HIDE DEF u, v, l, r, both
      <4>1. QED BY <2>3, <2>4, GoodAnd, AllOfType
    <3>2. QED BY <2>1, <2>2, <2>5, <3>1, ReduceGood
  <2>6. CASE Reduce(2, AnyOf({u, v}), LowerOr(l, r))
    <3>1. GoodLowering(LowerOr(l, r), AnyOf({u, v})) /\ AnyOf({u, v}) \in Columns
          /\ (both => LowerOr(l, r).sql # NoSql /\ LowerOr(l, r).exact)
      <4> HIDE DEF u, v, l, r, both
      <4>1. QED BY <2>3, <2>4, GoodOr, AnyOfType
    <3>2. QED BY <2>1, <2>2, <2>6, <3>1, ReduceGood
  <2>7. CASE Reduce(2, Exclusive(u, v), LowerXor(l, r))
    <3>1. GoodLowering(LowerXor(l, r), Exclusive(u, v)) /\ Exclusive(u, v) \in Columns
          /\ (both => LowerXor(l, r).sql # NoSql /\ LowerXor(l, r).exact)
      <4> HIDE DEF u, v, l, r, both
      <4>1. QED BY <2>3, <2>4, GoodXor, ExclusiveType
    <3>2. QED BY <2>1, <2>2, <2>7, <3>1, ReduceGood
  <2>8. QED BY <1>5, <2>5, <2>6, <2>7 DEF BinaryNode
<1>6. CASE TernaryNode
  <2> DEFINE a == Args(3)
             c == a[1].lowered
             t == a[2].lowered
             f == a[3].lowered
             all == \A i \in 1..3 : a[i].translatable
             chosen == Chosen(a[1].value, a[2].value, a[3].value)
  <2>1. walking /\ UNCHANGED <<walking, result>> /\ Len(pending) >= 3
        /\ Reduce(3, chosen, LowerTernary(c, t, f))
    BY <1>6 DEF TernaryNode
  <2>2. 3 \in 1..Len(pending) /\ Good(a[1]) /\ Good(a[2]) /\ Good(a[3])
    BY <2>1, ArgsGood DEF IInv, TypeOK
  <2>3. all => c.sql # NoSql /\ c.exact /\ t.sql # NoSql /\ t.exact /\ f.sql # NoSql /\ f.exact
    <3>1. all => a[1].translatable /\ a[2].translatable /\ a[3].translatable
      OBVIOUS
    <3> HIDE DEF a, all
    <3>2. QED BY <2>2, <3>1, GoodFields
  <2> HIDE DEF GoodLowering
  <2>4. /\ GoodLowering(LowerTernary(c, t, f), chosen) /\ chosen \in Columns
        /\ (all => LowerTernary(c, t, f).sql # NoSql /\ LowerTernary(c, t, f).exact)
    <3> HIDE DEF a, all
    <3>1. QED BY <2>2, <2>3, GoodFields, GoodTernary, ChosenType
  <2>5. QED BY <2>1, <2>2, <2>4, ReduceGood
<1>7. CASE ValueTernaryNode
  <2> DEFINE a == Args(1)
  <2>1. PICK t \in Columns, f \in Columns :
          Reduce(1, Chosen(a[1].value, t, f), LowerValueTernary(a[1].lowered, t, f))
    BY <1>7 DEF ValueTernaryNode
  <2>2. walking /\ UNCHANGED <<walking, result>> /\ Len(pending) >= 1
    BY <1>7 DEF ValueTernaryNode
  <2>3. 1 \in 1..Len(pending) /\ Good(a[1])
    BY <2>2, ArgsGood DEF IInv, TypeOK
  <2> DEFINE l == LowerValueTernary(a[1].lowered, t, f)
  <2> HIDE DEF GoodLowering
  <2>4. /\ GoodLowering(l, Chosen(a[1].value, t, f))
        /\ Chosen(a[1].value, t, f) \in Columns
        /\ (a[1].translatable => l.sql # NoSql /\ l.exact)
    <3> HIDE DEF a
    <3>1. QED BY <2>3, GoodFields, GoodValueTernary, ChosenType
  <2>5. QED BY <2>1, <2>2, <2>3, <2>4, ReduceGood
<1>8. CASE HorizontalNode
  <2>1. walking /\ UNCHANGED <<walking, result>>
    BY <1>8 DEF HorizontalNode
  <2>2. PICK k \in 1..Len(pending) :
          LET args == {Args(k)[i] : i \in 1..k}
              values == {a.value : a \in args}
              lowerings == {a.lowered : a \in args}
          IN  \/ Reduce(k, AllOf(values), LowerAllHorizontal(lowerings))
              \/ Reduce(k, AnyOf(values), LowerAnyHorizontal(lowerings))
    BY <1>8 DEF HorizontalNode
  <2> DEFINE args == {Args(k)[i] : i \in 1..k}
             values == {a.value : a \in args}
             S == {a.lowered : a \in args}
             all == \A i \in 1..k : Args(k)[i].translatable
  <2>3. \A a \in args : Good(a)
    BY ArgsGood
  <2>4. args # {}
    <3>1. 1 \in 1..k
      BY DEF IInv, TypeOK
    <3>2. QED BY <3>1
  <2>5. all => \A a \in args : a.translatable
    OBVIOUS
  <2> HIDE DEF GoodLowering
  <2>6. CASE Reduce(k, AllOf(values), LowerAllHorizontal(S))
    <3>1. /\ GoodLowering(LowerAllHorizontal(S), AllOf(values)) /\ AllOf(values) \in Columns
          /\ (all => LowerAllHorizontal(S).sql # NoSql /\ LowerAllHorizontal(S).exact)
      <4> HIDE DEF args, all
      <4>1. QED BY <2>3, <2>4, <2>5, GoodAllHorizontal, AllOfType
    <3> HIDE DEF values, S
    <3>2. QED BY <2>1, <2>6, <3>1, ReduceGood
  <2>7. CASE Reduce(k, AnyOf(values), LowerAnyHorizontal(S))
    <3>1. /\ GoodLowering(LowerAnyHorizontal(S), AnyOf(values)) /\ AnyOf(values) \in Columns
          /\ (all => LowerAnyHorizontal(S).sql # NoSql /\ LowerAnyHorizontal(S).exact)
      <4> HIDE DEF args, all
      <4>1. QED BY <2>3, <2>4, <2>5, GoodAnyHorizontal, AnyOfType
    <3> HIDE DEF values, S
    <3>2. QED BY <2>1, <2>7, <3>1, ReduceGood
  <2>8. QED BY <2>2, <2>6, <2>7
<1>9. CASE Finish
  <2>1. Len(pending) = 1 /\ pending' = pending /\ walking' = FALSE
        /\ result' = pending[1].lowered
    BY <1>9 DEF Finish
  <2>2. pending[1].lowered \in Lowerings
    BY <2>1, GoodFields DEF IInv
  <2>3. QED BY <2>1, <2>2 DEF IInv, TypeOK, Good
<1>10. CASE RecursionOverflow
  <2>1. NoLowering \in Lowerings
    BY DEF NoLowering, Lowering, Lowerings
  <2>2. QED BY <1>10, <2>1 DEF RecursionOverflow, IInv, TypeOK, Good
<1>11. CASE UNCHANGED vars
  BY <1>11 DEF vars, IInv, TypeOK, Good
<1>12. QED
  BY <1>1, <1>2, <1>3, <1>4, <1>5, <1>6, <1>7, <1>8, <1>9, <1>10, <1>11 DEF Next

LEMMA IInvHolds == Spec => []IInv
<1>1. QED BY InitIInv, NextIInv, PTL DEF Spec

\* The walk's state is well typed, whatever the rows and the bound.
THEOREM TypeCorrect == Spec => []TypeOK
<1>1. IInv => TypeOK
  BY DEF IInv
<1>2. QED BY <1>1, IInvHolds, PTL

\* Every lowering the walk of _predicate.py builds is sound: exact ones have the
\* predicate's value, relaxed ones keep at least its rows.
THEOREM LoweringIsSound == Spec => []LoweringSound
<1>1. IInv => LoweringSound
  BY DEF IInv, Good, LoweringSound
<1>2. QED BY <1>1, IInvHolds, PTL

\* An expression with no declined leaf is pushed whole and exactly.
THEOREM TranslatableIsPushedExactly == Spec => []TranslatableIsExact
<1>1. IInv => TranslatableIsExact
  BY DEF IInv, Good, TranslatableIsExact
<1>2. QED BY <1>1, IInvHolds, PTL

\* The filter lower_predicate returns, with the residual an inexact one leaves to
\* Polars, keeps the predicate's rows and no others.
THEOREM ResultIsFaithful == Spec => []ResultKeepsTheRows
<1>1. IInv => ResultKeepsTheRows
  <2> SUFFICES ASSUME IInv, ~walking, Len(pending) = 1
               PROVE  LET kept(u) == {r \in Rows : u[r] = "true"}
                          value == pending[1].value
                          read == IF result.sql = NoSql THEN Rows ELSE kept(result.sql)
                      IN  kept(value) = IF result.exact THEN read ELSE read \cap kept(value)
    BY DEF ResultKeepsTheRows
  <2>1. Good(pending[1])
    BY DEF IInv
  <2>2. CASE result = NoLowering
    BY <2>2 DEF NoLowering, Lowering
  <2>3. CASE result = pending[1].lowered
    <3>1. result.exact \in BOOLEAN /\ pending[1].value \in Columns
          /\ Sound(result, pending[1].value)
      BY <2>1, <2>3, GoodFields DEF GoodLowering
    <3>2. QED BY <3>1, NoSqlAssumption DEF Sound
  <2>4. QED BY <2>2, <2>3 DEF IInv
<1>2. QED BY <1>1, IInvHolds, PTL
=============================================================================
