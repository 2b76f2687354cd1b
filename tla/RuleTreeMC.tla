----------------------------- MODULE RuleTreeMC -----------------------------
(* RuleTree with a handful of payloads that reach every path of the validator *)
(* and every operator.                                                       *)
EXTENDS RuleTree

Text(b, n) == [type |-> "text", bool |-> b, int |-> n]
Float(n)   == [type |-> "float", bool |-> {}, int |-> {n}]
Null       == [type |-> "other", bool |-> {}, int |-> {}]

Raw(target, operator, v, end) ==
  [target |-> target, operator |-> operator, value |-> v, value_end |-> end]

Bools ==
  {Raw(t, "eq", v, {}) : t \in {"is_follower", "is_subscriber"},
                         v \in {BoolValue(TRUE), BoolValue(FALSE), Text({TRUE}, {1})}}

Ints ==
  {Raw("follow_age_days", op, IntValue(1), {}) : op \in Operator}
    \cup {Raw("follow_age_days", "gte", v, {}) : v \in {IntValue(0), Text({TRUE}, {1}), Float(0)}}
    \cup {Raw("sub_tier", op, IntValue(n), {}) : op \in {"neq", "gte", "lt"}, n \in 2..3}
    \cup {Raw(t, "between", IntValue(1), {e}) : t \in {"follow_age_days", "sub_tier"},
                                               e \in {IntValue(2), Null}}

Refused ==
  {Raw("is_follower", "gt", IntValue(0), {}), Raw("sub_tier", "gte", IntValue(4), {}),
   Raw("follow_age_days", "lt", IntValue(-1), {}), Raw("is_follower", "eq", Text({}, {}), {}),
   Raw("views", "eq", IntValue(1), {}), Raw("sub_tier", "like", IntValue(1), {}),
   Raw("sub_tier", "eq", Null, {}), Raw("is_subscriber", "eq", IntValue(1), {})}

\* One condition of each kind that takes two binds, one, and a boolean.
Pieces == {Raw("follow_age_days", "between", IntValue(0), {IntValue(1)}),
           Raw("sub_tier", "gte", IntValue(2), {}), Raw("is_follower", "eq", BoolValue(TRUE), {})}

Shapes(S) == {<<<<x>>>> : x \in S} \cup {<<<<x, y>>>> : x \in S, y \in S}
               \cup {<<<<x>>, <<y>>>> : x \in S, y \in S}

SmallBodies ==
  {[any |-> any, groups |-> g] :
     any \in BOOLEAN,
     g \in {<<<<x>>>> : x \in Bools \cup Ints \cup Refused} \cup Shapes(Pieces)
             \cup {<<<<x, y>>, <<z, x>>>> : x \in Pieces, y \in Pieces, z \in Pieces}
             \cup {<<>>, <<<<>>>>} \cup {<<<<x>>, <<y>>, <<x>>>> : x \in Pieces, y \in Pieces}}

\* Rules of legacy rows: any of the four conditions, in one group.
LegacyRules ==
  {[any |-> FALSE, groups |-> <<g>>] :
     g \in {<<[target |-> "is_follower", operator |-> "eq", value |-> BoolValue(TRUE), value_end |-> {}],
              [target |-> "follow_age_days", operator |-> "gte", value |-> IntValue(2), value_end |-> {}]>>,
            <<[target |-> "is_subscriber", operator |-> "eq", value |-> BoolValue(TRUE), value_end |-> {}],
              [target |-> "sub_tier", operator |-> "gte", value |-> IntValue(5), value_end |-> {}]>>}}

SomeFacts ==
  {[is_following |-> TRUE, followed_at |-> {t}, is_subscribed |-> tier > 0, sub_tier |-> tier] :
     t \in {0, 1, 3}, tier \in {0, 1000, 2000}}
    \cup {[is_following |-> FALSE, followed_at |-> {}, is_subscribed |-> tier > 0, sub_tier |-> tier] :
            tier \in {0, 1000, 3000}}
=============================================================================
