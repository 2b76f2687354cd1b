--------------------------- MODULE RuleTreeProofs ---------------------------
(* The two evaluators agree on every rule the validator lets through, for all *)
(* payloads, facts and clocks, and the query of every stored rule can run.   *)
EXTENDS RuleTree, SequenceTheorems, WellFoundedInduction, TLAPS

LEMMA TheOnly == ASSUME NEW x PROVE The({x}) = x
BY DEF The

LEMMA TheIn == ASSUME NEW S, S # {} PROVE The(S) \in S
BY DEF The

-----------------------------------------------------------------------------
(* The validator                                                             *)

\* A literal that passes normalize_value is one of its target's kind.
LEMMA NormalizedIsLiteral ==
  ASSUME NEW target \in Target, NEW raw \in Value, NEW v \in NormalizeValue(target, raw)
  PROVE  Literal(target, v)
<1>1. CASE Kind(target) = "bool"
  BY <1>1 DEF NormalizeValue, Literal, Value, Option
<1>2. CASE Kind(target) # "bool"
  BY <1>2 DEF NormalizeValue, Literal, Value, Option, IntValue
<1> QED BY <1>1, <1>2

\* A condition that passes validate_condition is a good one.
LEMMA ValidatedIsGood ==
  ASSUME NEW raw, raw.value \in Value, raw.value_end \in Option(Value),
         NEW c \in ValidateCondition(raw)
  PROVE  GoodCondition(c)
<1> DEFINE ends == UNION {NormalizeValue(raw.target, e) : e \in raw.value_end}
<1>1. /\ raw.target \in Target /\ raw.operator \in Operator
      /\ ValidFor(raw.operator, Kind(raw.target))
  BY DEF ValidateCondition
<1>2. PICK v \in NormalizeValue(raw.target, raw.value),
           e \in IF raw.operator = "between" THEN {{x} : x \in ends} ELSE {{}} :
             c = [target |-> raw.target, operator |-> raw.operator, value |-> v, value_end |-> e]
  BY DEF ValidateCondition
<1>3. Literal(raw.target, v)
  BY <1>1, NormalizedIsLiteral
<1>4. \A x \in ends : Literal(raw.target, x)
  BY <1>1, NormalizedIsLiteral DEF Option
<1>5. CASE raw.operator = "between"
  BY <1>1, <1>2, <1>3, <1>4, <1>5 DEF GoodCondition
<1>6. CASE raw.operator # "between"
  BY <1>1, <1>2, <1>3, <1>6 DEF GoodCondition
<1> QED BY <1>5, <1>6

\* A function on 1..n is a list of length n.
LEMMA Listed ==
  ASSUME NEW S, NEW n \in Nat, NEW f \in [1..n -> S]
  PROVE  f \in Seq(S) /\ Len(f) = n /\ IsList(f)
<1>1. f \in Seq(S)
  BY SeqDef
<1> QED BY <1>1, LenProperties DEF IsList

\* So is what is made of a list element by element.
LEMMA MappedList ==
  ASSUME NEW s, IsList(s), NEW f, f = [i \in DOMAIN s |-> f[i]]
  PROVE  IsList(f)
<1> DEFINE S == {f[i] : i \in DOMAIN s}
<1>1. Len(s) \in Nat /\ DOMAIN s = 1..Len(s)
  BY DEF IsList
<1>2. f \in [1..Len(s) -> S]
  BY <1>1
<1> QED BY <1>1, <1>2, Listed

\* What parse_rule_tree returns is well formed.
LEMMA ParsedIsWellFormed ==
  ASSUME NEW body \in Body, NEW t \in ParseRuleTree(body)
  PROVE  WellFormed(t)
<1>1. CASE body.any
  <2>1. t = [any |-> TRUE, groups |-> <<>>]
    BY <1>1 DEF ParseRuleTree
  <2>2. IsList(<<>>)
    BY EmptySeq DEF IsList
  <2> QED BY <2>1, <2>2 DEF WellFormed
<1>2. CASE ~body.any
  <2> DEFINE group(i) == [j \in DOMAIN body.groups[i] |->
                            The(ValidateCondition(body.groups[i][j]))]
  <2>1. /\ Accepted(body)
        /\ t = [any |-> FALSE, groups |-> [i \in DOMAIN body.groups |-> group(i)]]
    BY <1>2 DEF ParseRuleTree
  <2>2. ASSUME NEW i \in DOMAIN body.groups, NEW j \in DOMAIN body.groups[i]
        PROVE  GoodCondition(The(ValidateCondition(body.groups[i][j])))
    <3>1. ValidateCondition(body.groups[i][j]) # {}
      BY <2>1 DEF Accepted
    <3>2. The(ValidateCondition(body.groups[i][j])) \in ValidateCondition(body.groups[i][j])
      BY <3>1, TheIn
    <3> QED BY <3>2, BodyAssumption, ValidatedIsGood
  <2>3. IsList(t.groups)
    BY <2>1, BodyAssumption, MappedList
  <2>4. ASSUME NEW i \in DOMAIN body.groups PROVE GoodGroup(group(i))
    <3>1. IsList(group(i))
      BY BodyAssumption, MappedList
    <3> QED BY <2>2, <3>1 DEF GoodGroup
  <2> QED BY <2>1, <2>3, <2>4 DEF WellFormed
<1> QED BY <1>1, <1>2

-----------------------------------------------------------------------------
(* The two evaluators                                                        *)

\* The facts a decision starts from: the row's, or none.
Facts(r) == IF r = {} THEN NoFacts ELSE The(r)

InThePast(r, n) == \A f \in r : \A t \in f.followed_at : t <= n

LEMMA FactsTyped ==
  ASSUME NEW r, r \in Option(CacheRow)
  PROVE  Facts(r) \in CacheRow
<1>1. CASE r = {}
  BY <1>1 DEF Facts, NoFacts, CacheRow, Option
<1>2. CASE r # {}
  <2>1. PICK f \in r : r = {f} /\ f \in CacheRow
    BY <1>2 DEF Option
  <2> QED BY <1>2, <2>1, TheOnly DEF Facts
<1> QED BY <1>1, <1>2

\* COALESCE and the LEFT JOIN read what the fallback facts say.
LEMMA SameFacts ==
  ASSUME NEW r, r \in Option(CacheRow), NEW n \in Int, InThePast(r, n)
  PROVE  /\ SqlBool("is_follower", r) <=> Facts(r).is_following
         /\ SqlBool("is_subscriber", r) <=> Facts(r).is_subscribed
         /\ SqlInt("sub_tier", r, n) = {Facts(r).sub_tier \div 1000}
         /\ SqlInt("follow_age_days", r, n) = DaysSince(Facts(r).followed_at, n)
<1>1. CASE r = {}
  <2>1. 0 \div 1000 = 0
    OBVIOUS
  <2>2. Facts(r) = NoFacts
    BY <1>1 DEF Facts
  <2>3. SqlInt("sub_tier", r, n) = {0} /\ SqlInt("follow_age_days", r, n) = {}
    BY <1>1 DEF SqlInt
  <2>4. DaysSince({}, n) = {}
    BY DEF DaysSince
  <2> QED BY <1>1, <2>1, <2>2, <2>3, <2>4 DEF SqlBool, NoFacts
<1>2. CASE r # {}
  <2>1. PICK f \in r : r = {f} /\ f \in CacheRow
    BY <1>2 DEF Option
  <2>2. Facts(r) = f /\ The(r) = f
    BY <1>2, <2>1, TheOnly DEF Facts
  <2>3. SqlInt("sub_tier", r, n) = {f.sub_tier \div 1000}
    BY <1>2, <2>2 DEF SqlInt
  <2>4. SqlInt("follow_age_days", r, n) = {(n - t) \div Day : t \in f.followed_at}
    BY <2>1 DEF SqlInt
  <2>5. \A t \in f.followed_at : t <= n
    BY <2>1 DEF InThePast
  <2>6. DaysSince(f.followed_at, n) = {(n - t) \div Day : t \in f.followed_at}
    BY <2>5 DEF DaysSince
  <2>7. /\ SqlBool("is_follower", r) <=> f.is_following
        /\ SqlBool("is_subscriber", r) <=> f.is_subscribed
    BY <2>1 DEF SqlBool
  <2> QED BY <2>2, <2>3, <2>4, <2>6, <2>7
<1> QED BY <1>1, <1>2

\* What a good integer condition compares.
LEMMA IntCondition ==
  ASSUME NEW c, GoodCondition(c), Kind(c.target) = "int", NEW A \in Option(Int),
         NEW r, NEW n, SqlInt(c.target, r, n) = A
  PROVE  IntMatch(c, A) <=>
           \A k \in DOMAIN BuildCondition(c) : Holds(BuildCondition(c)[k], r, n)
<1>1. PICK lo \in Int : c.value = IntValue(lo)
  BY DEF GoodCondition, Literal
<1>2. AsI64(c.value) = {lo} /\ AsBool(c.value) = {}
  BY <1>1 DEF AsI64, AsBool, IntValue
<1>3. OrZero(AsI64(c.value)) = lo
  BY <1>2, TheOnly DEF OrZero
<1>4. ASSUME NEW op, NEW k \in Int
      PROVE  Holds([target |-> c.target, op |-> op, bind |-> IntValue(k)], r, n)
               <=> \E a \in A : Compare(op, a, k)
  BY DEF Holds, IntValue
<1>5. CASE c.operator = "between"
  <2>1. PICK e \in c.value_end : c.value_end = {e} /\ Literal(c.target, e)
    BY <1>5 DEF GoodCondition
  <2>2. PICK hi \in Int : e = IntValue(hi)
    BY <2>1 DEF Literal
  <2>3. AsI64(e) = {hi}
    BY <2>2 DEF AsI64, IntValue
  <2>4. UNION {AsI64(x) : x \in c.value_end} = {hi} /\ OrZero({hi}) = hi
    BY <2>1, <2>3, TheOnly DEF OrZero
  <2>5. BuildCondition(c) =
          <<[target |-> c.target, op |-> "gte", bind |-> IntValue(lo)],
            [target |-> c.target, op |-> "lte", bind |-> IntValue(hi)]>>
    BY <1>3, <1>5, <2>4 DEF BuildCondition
  <2>6. (\A k \in DOMAIN BuildCondition(c) : Holds(BuildCondition(c)[k], r, n))
          <=> /\ \E a \in A : Compare("gte", a, lo)
              /\ \E a \in A : Compare("lte", a, hi)
    BY <1>4, <2>5
  <2>7. IntMatch(c, A) <=> \E a \in A : lo <= a /\ a <= hi
    BY <1>2, <1>5, <2>1, <2>3 DEF IntMatch
  <2> QED BY <2>6, <2>7 DEF Compare, Option
<1>6. CASE c.operator # "between"
  <2>1. BuildCondition(c) = <<[target |-> c.target, op |-> c.operator, bind |-> IntValue(lo)]>>
    BY <1>2, <1>3, <1>6 DEF BuildCondition
  <2>2. (\A k \in DOMAIN BuildCondition(c) : Holds(BuildCondition(c)[k], r, n))
          <=> \E a \in A : Compare(c.operator, a, lo)
    BY <1>4, <2>1
  <2> QED BY <1>2, <1>6, <2>2 DEF IntMatch
<1> QED BY <1>5, <1>6

\* What a good boolean condition compares.
LEMMA BoolCondition ==
  ASSUME NEW c, GoodCondition(c), Kind(c.target) = "bool", NEW a \in BOOLEAN,
         NEW r, NEW n, SqlBool(c.target, r) <=> a
  PROVE  BoolMatch(c, a) <=>
           \A k \in DOMAIN BuildCondition(c) : Holds(BuildCondition(c)[k], r, n)
<1>1. PICK b \in BOOLEAN : c.value = BoolValue(b)
  BY DEF GoodCondition, Literal
<1>2. c.operator = "eq"
  BY DEF GoodCondition, ValidFor
<1>3. AsBool(c.value) = {b}
  BY <1>1 DEF AsBool, BoolValue
<1>4. The({b}) = b
  BY TheOnly
<1>5. BuildCondition(c) = <<[target |-> c.target, op |-> "eq", bind |-> BoolValue(b)]>>
  BY <1>2, <1>3, <1>4 DEF BuildCondition
<1>6. Holds(BuildCondition(c)[1], r, n) <=> SqlBool(c.target, r) \in {b}
  BY <1>5 DEF Holds, BoolValue
<1>7. BoolMatch(c, a) <=> a \in {b}
  BY <1>2, <1>3 DEF BoolMatch
<1>8. SqlBool(c.target, r) \in BOOLEAN
  BY DEF SqlBool
<1>9. SqlBool(c.target, r) \in {b} <=> a \in {b}
  BY <1>8
<1>10. DOMAIN BuildCondition(c) = {1}
  BY <1>5
<1> QED BY <1>6, <1>7, <1>9, <1>10

\* One condition: the Rust evaluator and the SQL comparisons agree.
LEMMA SingleAgree ==
  ASSUME NEW c, GoodCondition(c), NEW r \in Option(CacheRow), NEW n \in Int, InThePast(r, n)
  PROVE  EvaluateSingle(c, Facts(r), n) <=>
           \A k \in DOMAIN BuildCondition(c) : Holds(BuildCondition(c)[k], r, n)
<1> USE SameFacts, FactsTyped
<1>1. CASE c.target = "is_follower"
  <2>1. Facts(r).is_following \in BOOLEAN
    BY DEF CacheRow
  <2> QED BY <1>1, <2>1, BoolCondition DEF EvaluateSingle, Kind
<1>2. CASE c.target = "is_subscriber"
  <2>1. Facts(r).is_subscribed \in BOOLEAN
    BY DEF CacheRow
  <2> QED BY <1>2, <2>1, BoolCondition DEF EvaluateSingle, Kind
<1>3. CASE c.target = "sub_tier"
  <2>1. {Facts(r).sub_tier \div 1000} \in Option(Int)
    <3>1. Facts(r).sub_tier \in Int
      BY DEF CacheRow
    <3>2. ASSUME NEW k \in Int PROVE k \div 1000 \in Int
      OBVIOUS
    <3>3. Facts(r).sub_tier \div 1000 \in Int
      BY <3>1, <3>2
    <3> QED BY <3>3 DEF Option
  <2>2. /\ Kind(c.target) = "int"
        /\ SqlInt(c.target, r, n) = {Facts(r).sub_tier \div 1000}
    BY <1>3 DEF Kind
  <2>3. EvaluateSingle(c, Facts(r), n) <=> IntMatch(c, {Facts(r).sub_tier \div 1000})
    BY <1>3 DEF EvaluateSingle
  <2>4. ASSUME NEW A \in Option(Int), SqlInt(c.target, r, n) = A
        PROVE  IntMatch(c, A) <=>
                 \A k \in DOMAIN BuildCondition(c) : Holds(BuildCondition(c)[k], r, n)
    BY <2>2, <2>4, IntCondition
  <2> QED BY <2>1, <2>2, <2>3, <2>4
<1>4. CASE c.target = "follow_age_days"
  <2>1. Facts(r).followed_at \in Option(Int)
    BY DEF CacheRow
  <2>2. DaysSince(Facts(r).followed_at, n) \in Option(Int)
    BY <2>1, ClockAssumption DEF DaysSince, Option
  <2> QED BY <1>4, <2>2, IntCondition DEF EvaluateSingle, Kind
<1> QED BY <1>1, <1>2, <1>3, <1>4 DEF GoodCondition, Target

\* A whole rule.
LEMMA RulesAgree ==
  ASSUME NEW t, WellFormed(t), NEW on \in BOOLEAN, NEW r \in Option(CacheRow), NEW n \in Int,
         InThePast(r, n)
  PROVE  Qualifies(t, on, r, n) <=> Selected(t, on, r, n)
<1>1. ASSUME NEW i \in DOMAIN t.groups, NEW j \in DOMAIN t.groups[i]
      PROVE  EvaluateSingle(t.groups[i][j], Facts(r), n) <=>
               \A k \in DOMAIN BuildCondition(t.groups[i][j]) :
                 Holds(BuildCondition(t.groups[i][j])[k], r, n)
  BY SingleAgree DEF WellFormed, GoodGroup
<1>2. Evaluate(t, Facts(r), n) <=> Where(t, r, n)
  BY <1>1 DEF Evaluate, Where
<1> QED BY <1>2 DEF Qualifies, Selected, Facts, Where

-----------------------------------------------------------------------------
(* The state                                                                 *)

LEMMA TypeInit == Init => TypeOK
<1> SUFFICES ASSUME Init PROVE TypeOK
  OBVIOUS
<1>1. WellFormed(Unconfigured)
  BY EmptySeq DEF WellFormed, Unconfigured, IsList
<1>2. WellFormed(tree)
  BY <1>1, MigratedAssumption DEF Init
<1>3. row \in Option(CacheRow)
  <2>1. {} \in Option(CacheRow) /\ {} \in Option(Int)
    BY DEF Option
  <2>2. NoFacts \in CacheRow
    BY <2>1 DEF NoFacts, CacheRow
  <2>3. {NoFacts} \in Option(CacheRow)
    BY <2>2 DEF Option
  <2> QED BY <2>1, <2>3 DEF Init
<1> QED BY <1>2, <1>3 DEF Init, TypeOK

LEMMA KnownTyped == TypeOK => Known \in CacheRow
BY FactsTyped DEF TypeOK, Known, Facts

LEMMA SubscriptionTyped ==
  ASSUME NEW f \in CacheRow, NEW b \in BOOLEAN, NEW tier \in Int
  PROVE  [f EXCEPT !.is_subscribed = b, !.sub_tier = tier] \in CacheRow
BY DEF CacheRow

LEMMA TypeStep == TypeOK /\ [Next]_vars => TypeOK'
<1> SUFFICES ASSUME TypeOK, [Next]_vars PROVE TypeOK'
  OBVIOUS
<1> USE DEF TypeOK
<1>s. ASSUME NEW f \in CacheRow PROVE {f} \in Option(CacheRow)
  BY DEF Option
<1>1. ASSUME NEW body \in Body, Save(body) PROVE TypeOK'
  BY <1>1, ParsedIsWellFormed DEF Save
<1>2. CASE Connect
  <2>1. NoFacts \in CacheRow
    BY DEF NoFacts, CacheRow, Option
  <2> QED BY <1>2, <1>s, <2>1 DEF Connect
<1>3. CASE Disconnect
  <2>1. {} \in Option(CacheRow)
    BY DEF Option
  <2> QED BY <1>3, <2>1 DEF Disconnect
<1>4. CASE SubscriptionEnd
  <2>1. ASSUME NEW f \in row
        PROVE  [f EXCEPT !.is_subscribed = FALSE, !.sub_tier = 0] \in CacheRow
    <3>1. f \in CacheRow
      BY DEF Option
    <3>2. FALSE \in BOOLEAN /\ 0 \in Int
      OBVIOUS
    <3> QED BY <3>1, <3>2, SubscriptionTyped, Zenon
  <2>2. row' \in Option(CacheRow)
    BY <1>4, <2>1, ZenonT(60) DEF SubscriptionEnd, Option
  <2> QED BY <1>4, <2>2 DEF SubscriptionEnd
<1>5. CASE TimePasses
  BY <1>5 DEF TimePasses
<1>6. ASSUME NEW at \in Option(Int), Follow(at) PROVE TypeOK'
  <2>1. [Known EXCEPT !.is_following = TRUE, !.followed_at = IF at = {} THEN @ ELSE at] \in CacheRow
    BY KnownTyped DEF CacheRow
  <2> QED BY <1>6, <1>s, <2>1 DEF Follow
<1>7. ASSUME NEW tier \in Int, Subscribe(tier) PROVE TypeOK'
  <2>1. [Known EXCEPT !.is_subscribed = TRUE, !.sub_tier = tier] \in CacheRow
    BY KnownTyped DEF CacheRow
  <2> QED BY <1>7, <1>s, <2>1 DEF Subscribe
<1>8. ASSUME NEW fact \in Fact, Refresh(fact) PROVE TypeOK'
  BY <1>8, <1>s, FactAssumption DEF Refresh
<1>9. ASSUME NEW fact \in Fact
      PROVE  /\ fact.sub_tier \in Int /\ {} \in Option(Int)
             /\ \A t \in fact.followed_at : {t} \in Option(Int)
  BY FactAssumption DEF CacheRow, Option
<1>10. CASE UNCHANGED vars
  BY <1>10 DEF vars
<1> QED BY <1>1, <1>2, <1>3, <1>4, <1>5, <1>6, <1>7, <1>8, <1>9, <1>10 DEF Next

\* The stored rule is always one the validator, or the migration, could have written.
THEOREM StoredRuleWellFormed == Spec => []TypeOK
BY TypeInit, TypeStep, PTL DEF Spec

\* The two evaluators agree about every stored rule and every member, whatever has
\* been posted and whatever Twitch reported, unless somebody followed in the future.
THEOREM AgreementCorrect == Spec => []EvaluatorsAgree
<1>1. TypeOK => EvaluatorsAgree
  BY RulesAgree DEF TypeOK, EvaluatorsAgree, FollowedBefore, InThePast
<1> QED BY <1>1, TypeInit, TypeStep, PTL DEF Spec

-----------------------------------------------------------------------------
(* Induction and lists                                                       *)

\* A set of natural numbers has a least element: the order is well founded.
LEMMA Least ==
  ASSUME NEW T \in SUBSET Nat, T # {}
  PROVE  \E x \in T : \A y \in T : x <= y
<1> DEFINE R == OpToRel(<, Nat)
<1>1. PICK x \in T : \A y \in T : <<y, x>> \notin R
  <2> HIDE DEF R
  <2> QED BY NatLessThanWellFounded, WFMin DEF R
<1>2. \A y \in T : ~(y < x)
  BY <1>1 DEF OpToRel
<1> QED BY <1>2

\* Induction up to N, over a set of numbers: nothing in it is an operator parameter.
LEMMA Induction ==
  ASSUME NEW N \in Nat, NEW P, 0 \in P, \A n \in 0..N : n < N /\ n \in P => n + 1 \in P
  PROVE  \A n \in 0..N : n \in P
<1> SUFFICES ASSUME (0..N) \ P # {} PROVE FALSE
  OBVIOUS
<1>0. (0..N) \ P \in SUBSET Nat
  OBVIOUS
<1>1. PICK x \in (0..N) \ P : \A y \in (0..N) \ P : x <= y
  BY <1>0, Least
<1>2. x # 0 /\ x - 1 \in 0..N /\ x - 1 < N
  BY <1>1
<1>3. x - 1 \in P
  BY <1>1, <1>2
<1> QED BY <1>1, <1>2, <1>3

\* The place a left fold takes last.
LEMMA MaxOfRange ==
  ASSUME NEW n \in Nat, NEW s \in SUBSET (1..n), n \in s
  PROVE  Max(s) = n
<1>1. \A x \in s : (\A y \in s : x >= y) <=> x = n
  OBVIOUS
<1>2. Max(s) \in s /\ \A y \in s : Max(s) >= y
  BY <1>1 DEF Max
<1> QED BY <1>1, <1>2

\* longer begins with binds.
Extends(s, longer) ==
  /\ Len(s) <= Len(longer)
  /\ \A k \in 1..Len(s) : longer[k] = s[k]

\* A list of one element.
LEMMA Singleton ==
  ASSUME NEW S, NEW x \in S
  PROVE  <<x>> \in Seq(S) /\ DOMAIN <<x>> = {1} /\ <<x>>[1] = x
OBVIOUS

\* A list of two.
LEMMA Pair ==
  ASSUME NEW S, NEW x \in S, NEW y \in S
  PROVE  <<x, y>> \in Seq(S) /\ DOMAIN <<x, y>> = {1, 2} /\ <<x, y>>[1] = x /\ <<x, y>>[2] = y
OBVIOUS

\* Append adds one element at the end and leaves the others.
LEMMA Appended ==
  ASSUME NEW S, NEW s \in Seq(S), NEW x \in S
  PROVE  /\ Append(s, x) \in Seq(S) /\ Len(Append(s, x)) = Len(s) + 1
         /\ Extends(s, Append(s, x)) /\ Append(s, x)[Len(s) + 1] = x
BY AppendProperties DEF Extends

\* The first list is where it was, the second behind it.
LEMMA Concatenated ==
  ASSUME NEW S, NEW s \in Seq(S), NEW t \in Seq(S)
  PROVE  /\ s \o t \in Seq(S) /\ Len(s \o t) = Len(s) + Len(t)
         /\ Extends(s, s \o t) /\ \A k \in 1..Len(t) : (s \o t)[Len(s) + k] = t[k]
<1>1. Len(s) \in Nat /\ Len(t) \in Nat
  BY LenProperties
<1> QED BY <1>1, ConcatProperties DEF Extends

-----------------------------------------------------------------------------
(* The folds of build_group and build_rule_where, round by round             *)

\* The function FoldLeft defines over the sets of the first places of a group.
IsGroupIter(h, n, base, offset, group) ==
  h = [s \in SUBSET (1..n) |->
         IF s = {} THEN base ELSE PushCondition(h[s \ {Max(s)}], group[Max(s)], offset)]

\* That function exists, by induction on the number of places.
LEMMA GroupIter ==
  ASSUME NEW N \in Nat, NEW base, NEW offset, NEW group
  PROVE  \E f : IsGroupIter(f, N, base, offset, group)
<1> DEFINE P == {n \in 0..N : \E f : IsGroupIter(f, n, base, offset, group)}
<1>1. 0 \in P
  <2>1. IsGroupIter([s \in SUBSET (1..0) |-> base], 0, base, offset, group)
    BY \A s \in SUBSET (1..0) : s = {} DEF IsGroupIter
  <2> QED BY <2>1
<1>2. ASSUME NEW n \in 0..N, n < N, n \in P PROVE n + 1 \in P
  <2>1. PICK f : IsGroupIter(f, n, base, offset, group)
    BY <1>2
  <2> DEFINE m == n + 1
             g == [s \in SUBSET (1..m) |->
                     IF m \in s THEN PushCondition(f[s \ {m}], group[m], offset) ELSE f[s]]
  <2>2. ASSUME NEW s \in SUBSET (1..m)
        PROVE  g[s] = IF s = {} THEN base ELSE PushCondition(g[s \ {Max(s)}], group[Max(s)], offset)
    <3>1. CASE m \in s
      <4>1. Max(s) = m
        BY <3>1, MaxOfRange
      <4>2. s \ {m} \in SUBSET (1..n) /\ m \notin s \ {m}
        OBVIOUS
      <4>3. g[s \ {m}] = f[s \ {m}]
        BY <4>2
      <4> QED BY <3>1, <4>1, <4>3
    <3>2. CASE m \notin s
      <4>1. s \in SUBSET (1..n)
        BY <3>2
      <4>2. g[s] = f[s]
        BY <3>2
      <4>3. s # {} => s \ {Max(s)} \in SUBSET (1..n) /\ m \notin s \ {Max(s)}
        BY <3>2, <4>1
      <4>4. s # {} => g[s \ {Max(s)}] = f[s \ {Max(s)}]
        BY <4>3
      <4> QED BY <2>1, <4>1, <4>2, <4>4 DEF IsGroupIter
    <3> QED BY <3>1, <3>2
  <2>3. IsGroupIter(g, m, base, offset, group)
    BY <2>2 DEF IsGroupIter
  <2>4. n + 1 \in 0..N
    BY <1>2
  <2> HIDE DEF g
  <2> QED BY <2>3, <2>4
<1>3. N \in P
  <2> HIDE DEF P
  <2> QED BY <1>1, <1>2, Induction
<1> QED BY <1>3

\* The states BuildGroup goes through.
GroupStates(acc, N, group, offset, binds) ==
  /\ acc[0] = [clause |-> <<>>, binds |-> binds]
  /\ \A n \in 1..N : acc[n] = PushCondition(acc[n - 1], group[n], offset)
  /\ BuildGroup(group, offset, binds) = acc[N]

\* So BuildGroup pushes the conditions one by one, the first one first.
LEMMA GroupFold ==
  ASSUME NEW N \in Nat, NEW binds, NEW offset, NEW group, DOMAIN group = 1..N
  PROVE  \E acc : GroupStates(acc, N, group, offset, binds)
<1> DEFINE base == [clause |-> <<>>, binds |-> binds]
           f == CHOOSE h : IsGroupIter(h, N, base, offset, group)
           acc == [n \in 0..N |-> f[1..n]]
<1>1. IsGroupIter(f, N, base, offset, group)
  <2> HIDE DEF base
  <2> QED BY GroupIter
<1>2. BuildGroup(group, offset, binds) = f[1..N]
  BY DEF BuildGroup, FoldLeft, MapThenFoldSet, IsGroupIter
<1> HIDE DEF f, base
<1>3. ASSUME NEW s \in SUBSET (1..N)
      PROVE  f[s] = IF s = {} THEN base
                    ELSE PushCondition(f[s \ {Max(s)}], group[Max(s)], offset)
  BY <1>1 DEF IsGroupIter
<1>4. acc[0] = base
  <2>1. 1..0 = {} /\ 1..0 \in SUBSET (1..N)
    OBVIOUS
  <2>2. f[1..0] = base
    BY <1>3, <2>1
  <2> QED BY <2>2
<1>5. ASSUME NEW n \in 1..N
      PROVE  acc[n] = PushCondition(acc[n - 1], group[n], offset)
  <2>1. 1..n \in SUBSET (1..N) /\ n \in 1..n /\ n - 1 \in 0..N /\ n \in 0..N
    BY SMT
  <2>2. Max(1..n) = n
    BY MaxOfRange, <2>1
  <2>3. (1..n) \ {n} = 1..(n - 1)
    OBVIOUS
  <2>4. f[1..n] = PushCondition(f[(1..n) \ {Max(1..n)}], group[Max(1..n)], offset)
    BY <1>3, <2>1
  <2> QED BY <2>1, <2>2, <2>3, <2>4
<1>6. acc[N] = f[1..N]
  OBVIOUS
<1>7. GroupStates(acc, N, group, offset, binds)
  <2> HIDE DEF acc
  <2> QED BY <1>2, <1>4, <1>5, <1>6 DEF GroupStates, base
<1> QED BY <1>7

\* The function FoldLeft defines over the sets of the first places of a rule.
IsRuleIter(h, n, base, offset, groups) ==
  h = [s \in SUBSET (1..n) |->
         IF s = {} THEN base ELSE PushGroup(h[s \ {Max(s)}], groups[Max(s)], offset)]

\* That function exists.
LEMMA RuleIter ==
  ASSUME NEW N \in Nat, NEW base, NEW offset, NEW groups
  PROVE  \E f : IsRuleIter(f, N, base, offset, groups)
<1> DEFINE P == {n \in 0..N : \E f : IsRuleIter(f, n, base, offset, groups)}
<1>1. 0 \in P
  <2>1. IsRuleIter([s \in SUBSET (1..0) |-> base], 0, base, offset, groups)
    BY \A s \in SUBSET (1..0) : s = {} DEF IsRuleIter
  <2> QED BY <2>1
<1>2. ASSUME NEW n \in 0..N, n < N, n \in P PROVE n + 1 \in P
  <2>1. PICK f : IsRuleIter(f, n, base, offset, groups)
    BY <1>2
  <2> DEFINE m == n + 1
             g == [s \in SUBSET (1..m) |->
                     IF m \in s THEN PushGroup(f[s \ {m}], groups[m], offset) ELSE f[s]]
  <2>2. ASSUME NEW s \in SUBSET (1..m)
        PROVE  g[s] = IF s = {} THEN base ELSE PushGroup(g[s \ {Max(s)}], groups[Max(s)], offset)
    <3>1. CASE m \in s
      <4>1. Max(s) = m
        BY <3>1, MaxOfRange
      <4>2. s \ {m} \in SUBSET (1..n) /\ m \notin s \ {m}
        OBVIOUS
      <4>3. g[s \ {m}] = f[s \ {m}]
        BY <4>2
      <4> QED BY <3>1, <4>1, <4>3
    <3>2. CASE m \notin s
      <4>1. s \in SUBSET (1..n)
        BY <3>2
      <4>2. g[s] = f[s]
        BY <3>2
      <4>3. s # {} => s \ {Max(s)} \in SUBSET (1..n) /\ m \notin s \ {Max(s)}
        BY <3>2, <4>1
      <4>4. s # {} => g[s \ {Max(s)}] = f[s \ {Max(s)}]
        BY <4>3
      <4> QED BY <2>1, <4>1, <4>2, <4>4 DEF IsRuleIter
    <3> QED BY <3>1, <3>2
  <2>3. IsRuleIter(g, m, base, offset, groups)
    BY <2>2 DEF IsRuleIter
  <2>4. n + 1 \in 0..N
    BY <1>2
  <2> HIDE DEF g
  <2> QED BY <2>3, <2>4
<1>3. N \in P
  <2> HIDE DEF P
  <2> QED BY <1>1, <1>2, Induction
<1> QED BY <1>3

\* The states BuildRuleWhere goes through.
RuleStates(acc, N, t, offset) ==
  /\ acc[0] = [clause |-> <<>>, binds |-> <<>>]
  /\ \A n \in 1..N : acc[n] = PushGroup(acc[n - 1], t.groups[n], offset)
  /\ BuildRuleWhere(t, offset) = acc[N]

\* So BuildRuleWhere pushes the groups one by one.
LEMMA RuleFold ==
  ASSUME NEW N \in Nat, NEW t, NEW offset, DOMAIN t.groups = 1..N
  PROVE  \E acc : RuleStates(acc, N, t, offset)
<1> DEFINE base == [clause |-> <<>>, binds |-> <<>>]
           f == CHOOSE h : IsRuleIter(h, N, base, offset, t.groups)
           acc == [n \in 0..N |-> f[1..n]]
<1>1. IsRuleIter(f, N, base, offset, t.groups)
  <2> HIDE DEF base
  <2> QED BY RuleIter
<1>2. BuildRuleWhere(t, offset) = f[1..N]
  BY DEF BuildRuleWhere, FoldLeft, MapThenFoldSet, IsRuleIter
<1> HIDE DEF f, base
<1>3. ASSUME NEW s \in SUBSET (1..N)
      PROVE  f[s] = IF s = {} THEN base
                    ELSE PushGroup(f[s \ {Max(s)}], t.groups[Max(s)], offset)
  BY <1>1 DEF IsRuleIter
<1>4. acc[0] = base
  <2>1. 1..0 = {} /\ 1..0 \in SUBSET (1..N)
    OBVIOUS
  <2>2. f[1..0] = base
    BY <1>3, <2>1
  <2> QED BY <2>2
<1>5. ASSUME NEW n \in 1..N
      PROVE  acc[n] = PushGroup(acc[n - 1], t.groups[n], offset)
  <2>1. 1..n \in SUBSET (1..N) /\ n \in 1..n /\ n - 1 \in 0..N /\ n \in 0..N
    BY SMT
  <2>2. Max(1..n) = n
    BY MaxOfRange, <2>1
  <2>3. (1..n) \ {n} = 1..(n - 1)
    OBVIOUS
  <2>4. f[1..n] = PushGroup(f[(1..n) \ {Max(1..n)}], t.groups[Max(1..n)], offset)
    BY <1>3, <2>1
  <2> QED BY <2>1, <2>2, <2>3, <2>4
<1>6. acc[N] = f[1..N]
  OBVIOUS
<1>7. RuleStates(acc, N, t, offset)
  <2> HIDE DEF acc
  <2> QED BY <1>2, <1>4, <1>5, <1>6 DEF RuleStates, base
<1> QED BY <1>7

-----------------------------------------------------------------------------
(* The numbers of the placeholders                                           *)

\* What a condition is compared with, and its part of the clause.
Bind == {BoolValue(b) : b \in BOOLEAN} \cup {IntValue(n) : n \in Int}
Comparison == [target : Target, op : Operator, bind : Bind]
Placeholder == [target : Target, op : Operator, param : Int]

\* Every placeholder of a condition's part of the clause names the bind of its comparison.
Names(part, comparisons, offset, binds) ==
  \A k \in DOMAIN comparisons :
    /\ part[k].target = comparisons[k].target
    /\ part[k].param \in Int /\ part[k].param - offset \in 1..Len(binds)
    /\ binds[part[k].param - offset] = comparisons[k].bind

\* The comparisons of a good condition bind values of the type of their column.
LEMMA ConditionBuilt ==
  ASSUME NEW c, GoodCondition(c)
  PROVE  /\ BuildCondition(c) \in Seq(Comparison)
         /\ \A k \in DOMAIN BuildCondition(c) :
              BuildCondition(c)[k].bind.type = Kind(BuildCondition(c)[k].target)
<1>1. CASE Kind(c.target) = "int"
  <2>1. PICK lo \in Int : c.value = IntValue(lo)
    BY <1>1 DEF GoodCondition, Literal
  <2>2. AsI64(c.value) = {lo} /\ AsBool(c.value) = {}
    BY <2>1 DEF AsI64, AsBool, IntValue
  <2>3. OrZero(AsI64(c.value)) = lo
    BY <2>2, TheOnly DEF OrZero
  <2>4. CASE c.operator = "between"
    <3>1. PICK e \in c.value_end : c.value_end = {e} /\ Literal(c.target, e)
      BY <2>4 DEF GoodCondition
    <3>2. PICK hi \in Int : e = IntValue(hi)
      BY <1>1, <3>1 DEF Literal
    <3>3. AsI64(e) = {hi}
      BY <3>2 DEF AsI64, IntValue
    <3>4. UNION {AsI64(x) : x \in c.value_end} = {hi} /\ OrZero({hi}) = hi
      BY <3>1, <3>3, TheOnly DEF OrZero
    <3>5. BuildCondition(c) =
            <<[target |-> c.target, op |-> "gte", bind |-> IntValue(lo)],
              [target |-> c.target, op |-> "lte", bind |-> IntValue(hi)]>>
      BY <2>3, <2>4, <3>4 DEF BuildCondition
    <3>6. /\ [target |-> c.target, op |-> "gte", bind |-> IntValue(lo)] \in Comparison
          /\ [target |-> c.target, op |-> "lte", bind |-> IntValue(hi)] \in Comparison
      BY DEF GoodCondition, Comparison, Bind, Operator
    <3>7. IntValue(lo).type = "int" /\ IntValue(hi).type = "int"
      BY DEF IntValue
    <3> QED BY <1>1, <3>5, <3>6, <3>7, Pair
  <2>5. CASE c.operator # "between"
    <3>1. BuildCondition(c) = <<[target |-> c.target, op |-> c.operator, bind |-> IntValue(lo)]>>
      BY <2>2, <2>3, <2>5 DEF BuildCondition
    <3>2. [target |-> c.target, op |-> c.operator, bind |-> IntValue(lo)] \in Comparison
      BY DEF GoodCondition, Comparison, Bind
    <3>3. IntValue(lo).type = "int"
      BY DEF IntValue
    <3> QED BY <1>1, <3>1, <3>2, <3>3, Singleton
  <2> QED BY <2>4, <2>5
<1>2. CASE Kind(c.target) = "bool"
  <2>1. PICK b \in BOOLEAN : c.value = BoolValue(b)
    BY <1>2 DEF GoodCondition, Literal
  <2>2. c.operator = "eq"
    BY <1>2 DEF GoodCondition, ValidFor
  <2>3. AsBool(c.value) = {b}
    BY <2>1 DEF AsBool, BoolValue
  <2>4. The({b}) = b
    BY TheOnly
  <2>5. BuildCondition(c) = <<[target |-> c.target, op |-> "eq", bind |-> BoolValue(b)]>>
    BY <2>2, <2>3, <2>4 DEF BuildCondition
  <2>6. [target |-> c.target, op |-> "eq", bind |-> BoolValue(b)] \in Comparison
    BY DEF GoodCondition, Comparison, Bind, Operator
  <2>7. BoolValue(b).type = "bool"
    BY DEF BoolValue
  <2> QED BY <1>2, <2>5, <2>6, <2>7, Singleton
<1> QED BY <1>1, <1>2 DEF Kind

\* A condition that is pushed is numbered by its own binds; what was there stays.
LEMMA ConditionPushed ==
  ASSUME NEW r, r.clause \in Seq(Seq(Placeholder)), r.binds \in Seq(Bind),
         NEW c, GoodCondition(c), NEW offset \in Int,
         NEW acc, acc = PushCondition(r, c, offset)
  PROVE  /\ acc.clause \in Seq(Seq(Placeholder)) /\ acc.binds \in Seq(Bind)
         /\ Len(acc.clause) = Len(r.clause) + 1 /\ Extends(r.clause, acc.clause)
         /\ Extends(r.binds, acc.binds)
         /\ Names(acc.clause[Len(r.clause) + 1], BuildCondition(c), offset, acc.binds)
<1> DEFINE clause == r.clause
           binds == r.binds
<1>t. clause \in Seq(Seq(Placeholder)) /\ binds \in Seq(Bind)
  OBVIOUS
<1> DEFINE built == BuildCondition(c)
           part == Numbered(built, offset, Len(binds))
           new == Binds(built)
<1>1. built \in Seq(Comparison) /\ Len(built) \in Nat /\ DOMAIN built = 1..Len(built)
  BY ConditionBuilt, LenProperties
<1>n. Len(binds) \in Nat /\ Len(clause) \in Nat
  BY <1>t, LenProperties
<1>4. acc.clause = Append(clause, part) /\ acc.binds = binds \o new
  BY DEF PushCondition
<1> HIDE DEF built, clause, binds
<1>2. /\ part \in Seq(Placeholder)
      /\ \A k \in 1..Len(built) : part[k].target = built[k].target /\ part[k].param = offset + Len(binds) + k
  <2>1. \A k \in 1..Len(built) : built[k] \in Comparison
    BY <1>1, ElementOfSeq
  <2>2. \A k \in 1..Len(built) :
          [target |-> built[k].target, op |-> built[k].op, param |-> offset + Len(binds) + k] \in Placeholder
    BY <2>1, <1>n DEF Comparison, Placeholder
  <2>3. part \in [1..Len(built) -> Placeholder]
    BY <1>1, <2>2 DEF Numbered
  <2>4. part \in Seq(Placeholder)
    BY <1>1, <2>3, Listed
  <2> QED BY <1>1, <2>4 DEF Numbered
<1>3. new \in Seq(Bind) /\ Len(new) = Len(built) /\ \A k \in 1..Len(built) : new[k] = built[k].bind
  <2>0. \A k \in 1..Len(built) : built[k] \in Comparison
    BY <1>1, ElementOfSeq
  <2>1. \A k \in 1..Len(built) : built[k].bind \in Bind
    BY <2>0 DEF Comparison
  <2>2. new \in [1..Len(built) -> Bind]
    BY <1>1, <2>1 DEF Binds
  <2> QED BY <1>1, <2>2, Listed DEF Binds
<1> HIDE DEF part, new
<1>6. acc.clause \in Seq(Seq(Placeholder)) /\ Len(acc.clause) = Len(clause) + 1
      /\ Extends(clause, acc.clause) /\ acc.clause[Len(clause) + 1] = part
  <2> DEFINE S == Seq(Placeholder)
  <2>1. clause \in Seq(S) /\ part \in S
    BY <1>t, <1>2
  <2> HIDE DEF S
  <2>2. /\ Append(clause, part) \in Seq(S) /\ Len(Append(clause, part)) = Len(clause) + 1
        /\ Extends(clause, Append(clause, part)) /\ Append(clause, part)[Len(clause) + 1] = part
    BY <2>1, Appended, Zenon
  <2> QED BY <1>4, <2>2, Zenon DEF S
<1>7. acc.binds \in Seq(Bind) /\ Extends(binds, acc.binds) /\ Len(acc.binds) = Len(binds) + Len(built)
      /\ \A k \in 1..Len(built) : acc.binds[Len(binds) + k] = new[k]
  <2>2. /\ binds \o new \in Seq(Bind) /\ Len(binds \o new) = Len(binds) + Len(new)
        /\ Extends(binds, binds \o new) /\ \A k \in 1..Len(new) : (binds \o new)[Len(binds) + k] = new[k]
    <3>1. binds \in Seq(Bind) /\ new \in Seq(Bind)
      BY <1>t, <1>3
    <3> QED BY <3>1, Concatenated
  <2> QED BY <1>3, <1>4, <2>2, Zenon
<1>8. Names(part, built, offset, acc.binds)
  <2> SUFFICES ASSUME NEW k \in 1..Len(built)
               PROVE  /\ part[k].target = built[k].target
                      /\ part[k].param \in Int /\ part[k].param - offset \in 1..Len(acc.binds)
                      /\ acc.binds[part[k].param - offset] = built[k].bind
    BY <1>1 DEF Names
  <2>1. part[k].param \in Int /\ part[k].param - offset = Len(binds) + k
    BY <1>n, <1>2
  <2>2. Len(binds) + k \in 1..Len(acc.binds)
    BY <1>1, <1>n, <1>7
  <2> QED BY <1>2, <1>3, <1>7, <2>1, <2>2
<1> QED BY <1>6, <1>7, <1>8 DEF built, clause, binds

\* More binds behind them do not disturb the numbers that were given out.
LEMMA NamesKept ==
  ASSUME NEW part, NEW comparisons, NEW offset, NEW binds \in Seq(Bind), NEW longer \in Seq(Bind),
         Names(part, comparisons, offset, binds), Extends(binds, longer)
  PROVE  Names(part, comparisons, offset, longer)
<1>1. Len(binds) \in Nat /\ Len(longer) \in Nat /\ Len(binds) <= Len(longer)
  BY LenProperties DEF Extends
<1>2. 1..Len(binds) \subseteq 1..Len(longer)
  BY <1>1
<1> QED BY <1>2 DEF Names, Extends

\* Extending twice is extending.
LEMMA ExtendsFurther ==
  ASSUME NEW S, NEW a \in Seq(S), NEW b \in Seq(S), NEW c \in Seq(S), Extends(a, b), Extends(b, c)
  PROVE  Extends(a, c)
<1>1. Len(a) \in Nat /\ Len(b) \in Nat /\ Len(c) \in Nat
  BY LenProperties
<1> QED BY <1>1 DEF Extends

\* The invariant of build_group's loop, after n conditions.
GroupBuilt(r, n, group, offset, binds) ==
  /\ r.clause \in Seq(Seq(Placeholder)) /\ Len(r.clause) = n
  /\ r.binds \in Seq(Bind) /\ Extends(binds, r.binds)
  /\ \A j \in 1..n : Names(r.clause[j], BuildCondition(group[j]), offset, r.binds)

\* One round of that loop.
LEMMA GroupPushed ==
  ASSUME NEW n \in Nat, NEW group, NEW offset \in Int, NEW binds \in Seq(Bind),
         NEW r, GroupBuilt(r, n, group, offset, binds), GoodCondition(group[n + 1])
  PROVE  GroupBuilt(PushCondition(r, group[n + 1], offset), n + 1, group, offset, binds)
<1> DEFINE acc == PushCondition(r, group[n + 1], offset)
<1>0. /\ r.clause \in Seq(Seq(Placeholder)) /\ Len(r.clause) = n
      /\ r.binds \in Seq(Bind) /\ Extends(binds, r.binds)
  BY DEF GroupBuilt
<1>1. /\ acc.clause \in Seq(Seq(Placeholder)) /\ acc.binds \in Seq(Bind)
      /\ Len(acc.clause) = n + 1 /\ Extends(r.clause, acc.clause)
      /\ Extends(r.binds, acc.binds)
      /\ Names(acc.clause[n + 1], BuildCondition(group[n + 1]), offset, acc.binds)
  BY <1>0, ConditionPushed
<1> HIDE DEF acc
<1>2. Extends(binds, acc.binds)
  BY <1>0, <1>1, ExtendsFurther
<1>3. ASSUME NEW j \in 1..(n + 1)
      PROVE  Names(acc.clause[j], BuildCondition(group[j]), offset, acc.binds)
  <2>1. CASE j = n + 1
    BY <1>1, <2>1
  <2>2. CASE j \in 1..n
    <3>1. acc.clause[j] = r.clause[j]
      BY <1>0, <1>1, <2>2 DEF Extends
    <3>2. Names(r.clause[j], BuildCondition(group[j]), offset, r.binds)
      BY <2>2 DEF GroupBuilt
    <3> QED BY <1>0, <1>1, <3>1, <3>2, NamesKept
  <2> QED BY <2>1, <2>2
<1> QED BY <1>1, <1>2, <1>3 DEF GroupBuilt, acc

\* The whole loop, however many conditions the group has.
LEMMA GroupNumbered ==
  ASSUME NEW N \in Nat, NEW group, DOMAIN group = 1..N, \A j \in 1..N : GoodCondition(group[j]),
         NEW offset \in Int, NEW binds \in Seq(Bind)
  PROVE  GroupBuilt(BuildGroup(group, offset, binds), N, group, offset, binds)
<1>0. PICK acc : GroupStates(acc, N, group, offset, binds)
  BY GroupFold
<1>1. /\ acc[0] = [clause |-> <<>>, binds |-> binds]
      /\ \A n \in 1..N : acc[n] = PushCondition(acc[n - 1], group[n], offset)
      /\ BuildGroup(group, offset, binds) = acc[N]
  BY <1>0 DEF GroupStates
<1> DEFINE P == {n \in 0..N : GroupBuilt(acc[n], n, group, offset, binds)}
<1>2. 0 \in P
  <2>1. <<>> \in Seq(Seq(Placeholder)) /\ Len(<<>>) = 0
    BY EmptySeq
  <2>2. Extends(binds, binds)
    BY LenProperties DEF Extends
  <2>3. acc[0].clause = <<>> /\ acc[0].binds = binds
    BY <1>1
  <2>4. GroupBuilt(acc[0], 0, group, offset, binds)
    BY <2>1, <2>2, <2>3 DEF GroupBuilt
  <2> QED BY <2>4
<1>3. ASSUME NEW n \in 0..N, n < N, n \in P PROVE n + 1 \in P
  <2>1. n + 1 \in 1..N /\ (n + 1) - 1 = n /\ n \in Nat /\ n + 1 \in 0..N
    BY <1>3
  <2>2. acc[n + 1] = PushCondition(acc[n], group[n + 1], offset)
    BY <1>1, <2>1
  <2>3. GroupBuilt(acc[n], n, group, offset, binds)
    BY <1>3
  <2>4. GroupBuilt(acc[n + 1], n + 1, group, offset, binds)
    BY <2>1, <2>2, <2>3, GroupPushed
  <2> QED BY <2>1, <2>4
<1>4. N \in P
  <2> HIDE DEF P
  <2>1. \A n \in 0..N : n < N /\ n \in P => n + 1 \in P
    BY <1>3
  <2>2. \A n \in 0..N : n \in P
    BY <1>2, <2>1, Induction
  <2> QED BY <2>2
<1> QED BY <1>1, <1>4

\* The invariant of build_rule_where's loop, after n groups.
RuleBuilt(r, n, groups, offset) ==
  /\ r.clause \in Seq(Seq(Seq(Placeholder))) /\ Len(r.clause) = n
  /\ r.binds \in Seq(Bind)
  /\ \A i \in 1..n : \A j \in DOMAIN groups[i] :
       Names(r.clause[i][j], BuildCondition(groups[i][j]), offset, r.binds)

\* One round of that loop: a group goes on numbering where the last one stopped.
LEMMA GroupPushedOnRule ==
  ASSUME NEW n \in Nat, NEW groups, NEW offset \in Int,
         NEW r, RuleBuilt(r, n, groups, offset), GoodGroup(groups[n + 1])
  PROVE  RuleBuilt(PushGroup(r, groups[n + 1], offset), n + 1, groups, offset)
<1> DEFINE group == groups[n + 1]
           built == BuildGroup(group, offset, r.binds)
           acc == PushGroup(r, group, offset)
<1>0. /\ r.clause \in Seq(Seq(Seq(Placeholder))) /\ Len(r.clause) = n /\ r.binds \in Seq(Bind)
  BY DEF RuleBuilt
<1>1. GroupBuilt(built, Len(group), group, offset, r.binds)
  BY <1>0, GroupNumbered DEF GoodGroup, IsList
<1>2. acc.clause = Append(r.clause, built.clause) /\ acc.binds = built.binds
  BY DEF PushGroup
<1> HIDE DEF built, acc
<1>3. /\ built.clause \in Seq(Seq(Placeholder)) /\ built.binds \in Seq(Bind)
      /\ Extends(r.binds, built.binds)
      /\ \A j \in 1..Len(group) : Names(built.clause[j], BuildCondition(group[j]), offset, built.binds)
  BY <1>1 DEF GroupBuilt
<1>4. /\ acc.clause \in Seq(Seq(Seq(Placeholder))) /\ Len(acc.clause) = n + 1
      /\ Extends(r.clause, acc.clause) /\ acc.clause[n + 1] = built.clause
  <2> DEFINE S == Seq(Seq(Placeholder))
             clause == r.clause
  <2>1. clause \in Seq(S) /\ built.clause \in S
    BY <1>0, <1>3
  <2> HIDE DEF S, clause
  <2>2. /\ Append(clause, built.clause) \in Seq(S)
        /\ Len(Append(clause, built.clause)) = Len(clause) + 1
        /\ Extends(clause, Append(clause, built.clause))
        /\ Append(clause, built.clause)[Len(clause) + 1] = built.clause
    BY <2>1, Appended, Zenon
  <2>3. acc.clause = Append(clause, built.clause) /\ Len(clause) = n
    BY <1>0, <1>2 DEF clause
  <2>4. /\ acc.clause \in Seq(S) /\ Len(acc.clause) = n + 1
        /\ Extends(clause, acc.clause) /\ acc.clause[n + 1] = built.clause
    BY <2>2, <2>3, Zenon
  <2> QED BY <2>4 DEF S, clause
<1>5. ASSUME NEW i \in 1..(n + 1), NEW j \in DOMAIN groups[i]
      PROVE  Names(acc.clause[i][j], BuildCondition(groups[i][j]), offset, acc.binds)
  <2>1. CASE i = n + 1
    <3>1. j \in 1..Len(group)
      BY <2>1 DEF GoodGroup, IsList
    <3>2. acc.clause[i] = built.clause /\ groups[i] = group
      BY <1>4, <2>1
    <3> QED BY <1>2, <1>3, <3>1, <3>2
  <2>2. CASE i \in 1..n
    <3>1. acc.clause[i] = r.clause[i]
      BY <1>0, <1>4, <2>2 DEF Extends
    <3>2. Names(r.clause[i][j], BuildCondition(groups[i][j]), offset, r.binds)
      BY <2>2 DEF RuleBuilt
    <3> QED BY <1>0, <1>2, <1>3, <3>1, <3>2, NamesKept
  <2> QED BY <2>1, <2>2
<1> QED BY <1>2, <1>3, <1>4, <1>5 DEF RuleBuilt, acc

\* The whole loop, however many groups the rule has.
LEMMA RuleNumbered ==
  ASSUME NEW N \in Nat, NEW t, DOMAIN t.groups = 1..N, \A i \in 1..N : GoodGroup(t.groups[i]),
         NEW offset \in Int
  PROVE  RuleBuilt(BuildRuleWhere(t, offset), N, t.groups, offset)
<1>0. PICK acc : RuleStates(acc, N, t, offset)
  BY RuleFold
<1>1. /\ acc[0] = [clause |-> <<>>, binds |-> <<>>]
      /\ \A n \in 1..N : acc[n] = PushGroup(acc[n - 1], t.groups[n], offset)
      /\ BuildRuleWhere(t, offset) = acc[N]
  BY <1>0 DEF RuleStates
<1> DEFINE P == {n \in 0..N : RuleBuilt(acc[n], n, t.groups, offset)}
<1>2. 0 \in P
  <2>1. <<>> \in Seq(Seq(Seq(Placeholder))) /\ Len(<<>>) = 0 /\ <<>> \in Seq(Bind)
    BY EmptySeq
  <2>3. acc[0].clause = <<>> /\ acc[0].binds = <<>>
    BY <1>1
  <2>4. RuleBuilt(acc[0], 0, t.groups, offset)
    BY <2>1, <2>3 DEF RuleBuilt
  <2> QED BY <2>4
<1>3. ASSUME NEW n \in 0..N, n < N, n \in P PROVE n + 1 \in P
  <2>1. n + 1 \in 1..N /\ (n + 1) - 1 = n /\ n \in Nat /\ n + 1 \in 0..N
    BY <1>3
  <2>2. acc[n + 1] = PushGroup(acc[n], t.groups[n + 1], offset)
    BY <1>1, <2>1
  <2>3. RuleBuilt(acc[n], n, t.groups, offset)
    BY <1>3
  <2>4. RuleBuilt(acc[n + 1], n + 1, t.groups, offset)
    BY <2>1, <2>2, <2>3, GroupPushedOnRule
  <2> QED BY <2>1, <2>4
<1>4. N \in P
  <2> HIDE DEF P
  <2>1. \A n \in 0..N : n < N /\ n \in P => n + 1 \in P
    BY <1>3
  <2>2. \A n \in 0..N : n \in P
    BY <1>2, <2>1, Induction
  <2> QED BY <2>2
<1> QED BY <1>1, <1>4

\* The binds are the parameters from the third on, and the limit comes after them.
LEMMA ParameterOfBind ==
  ASSUME NEW binds \in Seq(Bind)
  PROVE  /\ \A k \in 1..Len(binds) : /\ 2 + k \in DOMAIN Parameters(binds)
                                     /\ Parameters(binds)[2 + k] = binds[k]
         /\ Parameters(binds)[LimitIndex(binds)] = Other("limit")
<1> DEFINE S == Bind \cup {Other("broadcaster"), Other("members"), Other("limit")}
           head == <<Other("broadcaster"), Other("members")>>
           limit == <<Other("limit")>>
<1>1. head \in Seq(S) /\ Len(head) = 2 /\ limit \in Seq(S) /\ Len(limit) = 1 /\ limit[1] = Other("limit")
  OBVIOUS
<1>2. binds \in Seq(S)
  BY SeqMonotonic
<1>3. Parameters(binds) = (head \o binds) \o limit /\ LimitIndex(binds) = 2 + Len(binds) + 1
  BY DEF Parameters, LimitIndex
<1> HIDE DEF S, head, limit
<1>4. /\ head \o binds \in Seq(S) /\ Len(head \o binds) = 2 + Len(binds)
      /\ \A k \in 1..Len(binds) : (head \o binds)[2 + k] = binds[k]
  <2>1. head \in Seq(S) /\ binds \in Seq(S)
    BY <1>1, <1>2
  <2>2. /\ head \o binds \in Seq(S) /\ Len(head \o binds) = Len(head) + Len(binds)
        /\ \A k \in 1..Len(binds) : (head \o binds)[Len(head) + k] = binds[k]
    BY <2>1, Concatenated, Zenon
  <2> QED BY <1>1, <2>2, Zenon
<1>5. /\ (head \o binds) \o limit \in Seq(S) /\ Len((head \o binds) \o limit) = 2 + Len(binds) + 1
      /\ Extends(head \o binds, (head \o binds) \o limit)
      /\ ((head \o binds) \o limit)[2 + Len(binds) + 1] = Other("limit")
  <2> DEFINE hb == head \o binds
  <2>1. hb \in Seq(S) /\ Len(hb) = 2 + Len(binds)
    BY <1>4
  <2> HIDE DEF hb
  <2>2. hb \in Seq(S) /\ limit \in Seq(S) /\ 1 \in 1..Len(limit)
    BY <1>1, <2>1
  <2>3. /\ hb \o limit \in Seq(S) /\ Len(hb \o limit) = Len(hb) + Len(limit)
        /\ Extends(hb, hb \o limit)
        /\ \A k \in 1..Len(limit) : (hb \o limit)[Len(hb) + k] = limit[k]
    BY <2>2, Concatenated, Zenon
  <2> QED BY <1>1, <2>1, <2>2, <2>3, Zenon DEF hb
<1>6. Len(binds) \in Nat /\ DOMAIN Parameters(binds) = 1..(2 + Len(binds) + 1)
  BY <1>3, <1>5, LenProperties
<1>7. ASSUME NEW k \in 1..Len(binds)
      PROVE  2 + k \in DOMAIN Parameters(binds) /\ Parameters(binds)[2 + k] = binds[k]
  <2>1. 2 + k \in 1..(2 + Len(binds))
    BY <1>6
  <2>2. ((head \o binds) \o limit)[2 + k] = (head \o binds)[2 + k]
    BY <1>4, <1>5, <2>1 DEF Extends
  <2> QED BY <1>3, <1>4, <1>6, <2>1, <2>2
<1> QED BY <1>3, <1>5, <1>7

\* What BuildRuleWhere makes of a well-formed rule can be run.
LEMMA BuiltQueryRuns ==
  ASSUME NEW t, WellFormed(t), NEW query, query = BuildRuleWhere(t, 2),
         NEW i \in DOMAIN t.groups, NEW j \in DOMAIN t.groups[i],
         NEW k \in DOMAIN BuildCondition(t.groups[i][j])
  PROVE  LET params == Parameters(query.binds)
             x == query.clause[i][j][k]
         IN /\ x.param \in DOMAIN params
            /\ params[x.param] = BuildCondition(t.groups[i][j])[k].bind
            /\ params[x.param].type = Kind(x.target)
<1> DEFINE x == query.clause[i][j][k]
           built == BuildCondition(t.groups[i][j])
           N == Len(t.groups)
<1>1. N \in Nat /\ DOMAIN t.groups = 1..N /\ \A h \in 1..N : GoodGroup(t.groups[h])
  BY DEF WellFormed, IsList
<1>2. RuleBuilt(query, N, t.groups, 2)
  BY <1>1, RuleNumbered
<1>3. query.binds \in Seq(Bind) /\ Names(query.clause[i][j], built, 2, query.binds)
  BY <1>1, <1>2 DEF RuleBuilt
<1>4. /\ x.target = built[k].target
      /\ x.param \in Int /\ x.param - 2 \in 1..Len(query.binds)
      /\ query.binds[x.param - 2] = built[k].bind
  BY <1>3 DEF Names
<1>5. GoodCondition(t.groups[i][j])
  BY DEF WellFormed, GoodGroup
<1>6. built[k].bind.type = Kind(built[k].target)
  BY <1>5, ConditionBuilt
<1> HIDE DEF x, built
<1>7. 2 + (x.param - 2) = x.param
  BY <1>4
<1>8. x.param \in DOMAIN Parameters(query.binds) /\ Parameters(query.binds)[x.param] = built[k].bind
  BY <1>3, <1>4, <1>7, ParameterOfBind
<1> QED BY <1>4, <1>6, <1>8 DEF x, built

\* The query of every stored rule can run: every placeholder names a parameter, which is
\* the bind its comparison was built with and has the type of its column, and LIMIT gets
\* the limit, however many groups and conditions the rule has.
THEOREM QueryCorrect == Spec => []QueryRuns
<1>1. TypeOK => QueryRuns
  <2> SUFFICES ASSUME TypeOK PROVE QueryRuns
    OBVIOUS
  <2> DEFINE query == BuildRuleWhere(tree, 2)
  <2>1. WellFormed(tree)
    BY DEF TypeOK
  <2>2. Parameters(query.binds)[LimitIndex(query.binds)] = Other("limit")
    <3>1. RuleBuilt(query, Len(tree.groups), tree.groups, 2)
      BY <2>1, RuleNumbered DEF WellFormed, IsList
    <3>2. query.binds \in Seq(Bind)
      BY <3>1 DEF RuleBuilt
    <3> QED BY <3>2, ParameterOfBind
  <2> QED BY <2>1, <2>2, BuiltQueryRuns DEF QueryRuns
<1> QED BY <1>1, TypeInit, TypeStep, PTL DEF Spec
=============================================================================
