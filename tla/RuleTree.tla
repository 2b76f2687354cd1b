------------------------------ MODULE RuleTree ------------------------------
(***************************************************************************)
(* The rule of a role link, from the body the dashboard posts to the two    *)
(* evaluators that decide who gets the role: the Rust one, which            *)
(* sync_for_user applies to one viewer, and the SQL clause with numbered    *)
(* parameters that sync_for_role_link sends for the whole guild.            *)
(* One role link and one linked member are enough: neither evaluator looks  *)
(* at two links or two viewers together.                                   *)
(***************************************************************************)
EXTENDS Integers, Sequences, FiniteSets, SequencesExt

CONSTANTS
  Body,         \* the payloads the dashboard may post
  Migrated,     \* the rules migration 004 made of legacy rows
  Fact,         \* the relationships Twitch may report
  MaxGroups, MaxConditions,
  Day,          \* seconds in a day
  Skew,         \* bound: how far Twitch's clock is ahead of ours
  MaxNow        \* bound: the clock

Target   == {"is_follower", "follow_age_days", "is_subscriber", "sub_tier"}
Operator == {"eq", "neq", "gt", "gte", "lt", "lte", "between"}

Kind(target) == IF target \in {"is_follower", "is_subscriber"} THEN "bool" ELSE "int"

ValidFor(operator, kind) == kind = "int" \/ operator = "eq"

-----------------------------------------------------------------------------
(* Options and JSON values                                                   *)

Option(S) == {T \in SUBSET S : \A x, y \in T : x = y}

The(option) == CHOOSE x \in option : TRUE

OrZero(option) == IF option = {} THEN 0 ELSE The(option)

\* bool and int are what the value reads as, {} when it does not: true or "yes"
\* as a boolean, 3, 3.7 (cut to 3) or "3" as an integer.  A string may read as both.
Value == [type : {"bool", "int", "float", "text", "other"},
          bool : Option(BOOLEAN), int : Option(Int)]

BoolValue(b) == [type |-> "bool", bool |-> {b}, int |-> {}]
IntValue(n)  == [type |-> "int", bool |-> {}, int |-> {n}]

\* serde_json's as_bool and as_i64 do not convert.
AsBool(v) == IF v.type = "bool" THEN v.bool ELSE {}
AsI64(v)  == IF v.type = "int" THEN v.int ELSE {}

-----------------------------------------------------------------------------
(* The validator                                                             *)

InRange(target, n) ==
  /\ target = "sub_tier" => n \in 1..3
  /\ target = "follow_age_days" => n >= 0

\* The literal a condition on this target is stored with, if any.
NormalizeValue(target, v) ==
  IF Kind(target) = "bool"
  THEN IF v.type \in {"bool", "text"} THEN {BoolValue(b) : b \in v.bool} ELSE {}
  ELSE IF v.type \in {"int", "float", "text"}
       THEN {IntValue(n) : n \in {k \in v.int : InRange(target, k)}} ELSE {}

\* Faulty variant: "between" is accepted without its second value.
ValidateConditionOpenEnded(raw) ==
  {[target |-> raw.target, operator |-> raw.operator, value |-> v, value_end |-> {}] :
     v \in IF /\ raw.target \in Target /\ raw.operator \in Operator
              /\ ValidFor(raw.operator, Kind(raw.target))
           THEN NormalizeValue(raw.target, raw.value) ELSE {}}

\* The stored condition, if any; its value_end is an option.
ValidateCondition(raw) ==
  IF /\ raw.target \in Target /\ raw.operator \in Operator
     /\ ValidFor(raw.operator, Kind(raw.target))
  THEN LET ends == UNION {NormalizeValue(raw.target, e) : e \in raw.value_end} IN
       {[target |-> raw.target, operator |-> raw.operator, value |-> v, value_end |-> e] :
          v \in NormalizeValue(raw.target, raw.value),
          e \in IF raw.operator = "between" THEN {{x} : x \in ends} ELSE {{}}}
  ELSE {}

Accepted(body) ==
  /\ Len(body.groups) \in 1..MaxGroups
  /\ \A i \in DOMAIN body.groups :
       /\ Len(body.groups[i]) \in 1..MaxConditions
       /\ \A j \in DOMAIN body.groups[i] : ValidateCondition(body.groups[i][j]) # {}

Unconfigured == [any |-> FALSE, groups |-> <<>>]

\* The rule tree to store, if any.  Groups sent along with "anyone" are dropped.
ParseRuleTree(body) ==
  IF body.any THEN {[any |-> TRUE, groups |-> <<>>]}
  ELSE IF Accepted(body)
  THEN {[any |-> FALSE,
         groups |-> [i \in DOMAIN body.groups |->
                       [j \in DOMAIN body.groups[i] |->
                          The(ValidateCondition(body.groups[i][j]))]]]}
  ELSE {}

\* What validate_condition stores, and all that is ever stored.
Literal(target, v) ==
  IF Kind(target) = "bool" THEN \E b \in BOOLEAN : v = BoolValue(b)
  ELSE \E n \in v.int : n \in Int /\ v = IntValue(n)

GoodCondition(c) ==
  /\ c.target \in Target /\ c.operator \in Operator
  /\ ValidFor(c.operator, Kind(c.target))
  /\ Literal(c.target, c.value)
  /\ IF c.operator = "between"
     THEN \E e \in c.value_end : c.value_end = {e} /\ Literal(c.target, e)
     ELSE c.value_end = {}

IsList(s) == Len(s) \in Nat /\ DOMAIN s = 1..Len(s)

GoodGroup(group) == IsList(group) /\ \A j \in DOMAIN group : GoodCondition(group[j])

WellFormed(t) ==
  /\ t.any \in BOOLEAN
  /\ IsList(t.groups) /\ \A i \in DOMAIN t.groups : GoodGroup(t.groups[i])

ASSUME BodyAssumption ==
  \A body \in Body :
    /\ body.any \in BOOLEAN /\ IsList(body.groups)
    /\ \A i \in DOMAIN body.groups :
         /\ IsList(body.groups[i])
         /\ \A j \in DOMAIN body.groups[i] :
              body.groups[i][j].value \in Value /\ body.groups[i][j].value_end \in Option(Value)

ASSUME MigratedAssumption == \A t \in Migrated : WellFormed(t)

-----------------------------------------------------------------------------
(* The Rust evaluator                                                        *)

CacheRow == [is_following : BOOLEAN, followed_at : Option(Int), is_subscribed : BOOLEAN,
             sub_tier : Int]

NoFacts == [is_following |-> FALSE, followed_at |-> {}, is_subscribed |-> FALSE, sub_tier |-> 0]

ASSUME FactAssumption == Fact \subseteq CacheRow

Compare(operator, a, n) ==
  \/ operator = "eq" /\ a = n
  \/ operator = "neq" /\ a # n
  \/ operator = "gt" /\ a > n
  \/ operator = "gte" /\ a >= n
  \/ operator = "lt" /\ a < n
  \/ operator = "lte" /\ a <= n

\* chrono's num_days cuts toward zero.
DaysSince(followed_at, now) ==
  {IF t <= now THEN (now - t) \div Day ELSE -((t - now) \div Day) : t \in followed_at}

BoolMatch(c, actual) == c.operator = "eq" /\ actual \in AsBool(c.value)

\* Faulty variant: the upper bound of "between" is exclusive.
IntMatchHalfOpen(c, actual) ==
  \E a \in actual : \E n \in AsI64(c.value) :
    IF c.operator = "between"
    THEN n <= a /\ \E e \in c.value_end : \E hi \in AsI64(e) : a < hi
    ELSE Compare(c.operator, a, n)

\* A missing fact matches nothing.
IntMatch(c, actual) ==
  \E a \in actual : \E n \in AsI64(c.value) :
    IF c.operator = "between"
    THEN n <= a /\ \E e \in c.value_end : \E hi \in AsI64(e) : a <= hi
    ELSE Compare(c.operator, a, n)

EvaluateSingle(c, facts, now) ==
  \/ c.target = "is_follower" /\ BoolMatch(c, facts.is_following)
  \/ c.target = "is_subscriber" /\ BoolMatch(c, facts.is_subscribed)
  \/ c.target = "follow_age_days" /\ IntMatch(c, DaysSince(facts.followed_at, now))
  \/ c.target = "sub_tier" /\ IntMatch(c, {facts.sub_tier \div 1000})

Evaluate(tree, facts, now) ==
  \/ tree.any
  \/ \E i \in DOMAIN tree.groups :
       /\ tree.groups[i] # <<>>
       /\ \A j \in DOMAIN tree.groups[i] : EvaluateSingle(tree.groups[i][j], facts, now)

\* sync_for_user's decision; row is the viewer's cache row, if any.
Qualifies(tree, connected, row, now) ==
  \/ tree.any
  \/ /\ connected /\ tree.groups # <<>>
     /\ Evaluate(tree, IF row = {} THEN NoFacts ELSE The(row), now)

-----------------------------------------------------------------------------
(* The SQL clause                                                            *)

\* build_condition: the comparisons of a condition with what it pushes for each, in
\* the order it does.
BuildCondition(c) ==
  LET lo == OrZero(AsI64(c.value))
      hi == UNION {AsI64(e) : e \in c.value_end}
      with(op, bind) == [target |-> c.target, op |-> op, bind |-> bind]
  IN IF c.operator = "between"
     THEN <<with("gte", IntValue(lo)),
            with("lte", IntValue(IF hi = {} THEN lo ELSE OrZero(hi)))>>
     ELSE IF c.operator = "eq" /\ AsBool(c.value) # {}
     THEN <<with("eq", BoolValue(The(AsBool(c.value))))>>
     ELSE <<with(c.operator, IntValue(lo))>>

\* The columns of the LEFT JOIN: no row reads as NULL, which COALESCE turns into
\* false or 0; the follow age stays NULL ({}), and floors.
SqlBool(target, row) ==
  \E f \in row : IF target = "is_follower" THEN f.is_following ELSE f.is_subscribed

SqlInt(target, row, now) ==
  IF target = "sub_tier" THEN {IF row = {} THEN 0 ELSE The(row).sub_tier \div 1000}
  ELSE UNION {{(now - t) \div Day : t \in f.followed_at} : f \in row}

\* Whether a comparison is TRUE (neither FALSE nor NULL).  The clause has no NOT, so
\* this is all WHERE can tell apart.
Holds(x, row, now) ==
  IF Kind(x.target) = "bool" THEN SqlBool(x.target, row) \in x.bind.bool
  ELSE \E a \in SqlInt(x.target, row, now) : \E n \in x.bind.int : Compare(x.op, a, n)

Where(tree, row, now) ==
  \/ tree.any
  \/ \E i \in DOMAIN tree.groups :
       /\ tree.groups[i] # <<>>
       /\ \A j \in DOMAIN tree.groups[i] :
            \A k \in DOMAIN BuildCondition(tree.groups[i][j]) :
              Holds(BuildCondition(tree.groups[i][j])[k], row, now)

\* sync_for_role_link's decision about a linked member.
Selected(tree, connected, row, now) ==
  /\ tree.any \/ (connected /\ tree.groups # <<>>)
  /\ Where(tree, row, now)

\* The text of the clause: in place of each bind the number of its parameter, which
\* counts the binds pushed before it, in this group and in earlier ones.
Numbered(comparisons, offset, pushed) ==
  [k \in DOMAIN comparisons |-> [target |-> comparisons[k].target, op |-> comparisons[k].op,
                                 param |-> offset + pushed + k]]

Binds(comparisons) == [k \in DOMAIN comparisons |-> comparisons[k].bind]

PushCondition(acc, c, offset) ==
  [clause |-> Append(acc.clause, Numbered(BuildCondition(c), offset, Len(acc.binds))),
   binds  |-> acc.binds \o Binds(BuildCondition(c))]

BuildGroup(group, offset, binds) ==
  FoldLeft(LAMBDA acc, c : PushCondition(acc, c, offset), [clause |-> <<>>, binds |-> binds], group)

\* Faulty variant: the numbering starts anew in every group.
BuildRuleWherePerGroup(tree, offset) ==
  LET built == [i \in DOMAIN tree.groups |-> BuildGroup(tree.groups[i], offset, <<>>)] IN
    [clause |-> [i \in DOMAIN built |-> built[i].clause],
     binds  |-> FlattenSeq([i \in DOMAIN built |-> built[i].binds])]

PushGroup(acc, group, offset) ==
  LET built == BuildGroup(group, offset, acc.binds) IN
    [clause |-> Append(acc.clause, built.clause), binds |-> built.binds]

BuildRuleWhere(tree, offset) ==
  FoldLeft(LAMBDA acc, group : PushGroup(acc, group, offset), [clause |-> <<>>, binds |-> <<>>],
           tree.groups)

\* The parameters sync_for_role_link binds around the clause's own, in order, and the
\* number it writes behind LIMIT.
Other(what) == [type |-> what, bool |-> {}, int |-> {}]
Parameters(binds) == <<Other("broadcaster"), Other("members")>> \o binds \o <<Other("limit")>>
LimitIndex(binds) == 2 + Len(binds) + 1

-----------------------------------------------------------------------------
(* A link, a member and the clock                                            *)

ASSUME ClockAssumption == Day \in Nat \ {0} /\ Skew \in Nat /\ MaxNow \in Nat

VARIABLES
  tree,        \* role_links.rule_tree
  connected,   \* whether role_links.broadcaster_id is set
  row,         \* the member's cache row for the connected channel, an option
  now

vars == <<tree, connected, row, now>>

Init ==
  /\ tree \in Migrated \cup {Unconfigured}
  /\ connected \in BOOLEAN
  /\ row \in {{}, {NoFacts}}
  /\ now = 0

\* role_config_save.
Save(body) ==
  /\ connected \/ body.any
  /\ tree' \in ParseRuleTree(body)
  /\ UNCHANGED <<connected, row, now>>

\* connect_callback; the members get rows without facts unless they have one.
Connect ==
  /\ connected' = TRUE
  /\ row' = IF row = {} THEN {NoFacts} ELSE row
  /\ UNCHANGED <<tree, now>>

\* broadcaster_disconnect, which drops the facts about a channel no link uses.
Disconnect ==
  /\ connected' = FALSE
  /\ row' \in {row, {}}
  /\ UNCHANGED <<tree, now>>

\* What an upsert starts from.
Known == IF row = {} THEN NoFacts ELSE The(row)

\* handle_follow: an unreadable followed_at leaves the stored one.
Follow(followed_at) ==
  /\ row' = {[Known EXCEPT !.is_following = TRUE,
                                 !.followed_at = IF followed_at = {} THEN @ ELSE followed_at]}
  /\ UNCHANGED <<tree, connected, now>>

\* handle_subscribe, handle_subscription_end.
Subscribe(tier) ==
  /\ row' = {[Known EXCEPT !.is_subscribed = TRUE, !.sub_tier = tier]}
  /\ UNCHANGED <<tree, connected, now>>

SubscriptionEnd ==
  /\ row' = {[f EXCEPT !.is_subscribed = FALSE, !.sub_tier = 0] : f \in row}
  /\ UNCHANGED <<tree, connected, now>>

\* The refresh worker or the OAuth callback updates the row there is.
Refresh(fact) ==
  /\ row # {}
  /\ row' = {fact}
  /\ UNCHANGED <<tree, connected, now>>

TimePasses ==
  /\ now < MaxNow
  /\ now' = now + 1
  /\ UNCHANGED <<tree, connected, row>>

Next ==
  \/ \E body \in Body : Save(body)
  \/ Connect \/ Disconnect \/ SubscriptionEnd \/ TimePasses
  \/ \E fact \in Fact :
       \/ \E t \in fact.followed_at : t <= now + Skew /\ Follow({t})
       \/ Follow({})
       \/ Subscribe(fact.sub_tier)
       \/ (\A t \in fact.followed_at : t <= now + Skew) /\ Refresh(fact)

Spec == Init /\ [][Next]_vars

-----------------------------------------------------------------------------
(* Properties                                                                *)

\* The stored rule is one the editor, or the migration, could mean: no condition
\* whose operator or literal its target cannot have.
TypeOK ==
  /\ WellFormed(tree)
  /\ connected \in BOOLEAN
  /\ row \in Option(CacheRow)
  /\ now \in Nat

FollowedBefore(facts) == \A f \in facts : \A t \in f.followed_at : t <= now

\* The decision about one viewer after a fact changed is the decision about the whole
\* guild after the rule changed, whether the viewer has a cache row or not, as long
\* as nobody followed in the future.
EvaluatorsAgree ==
  FollowedBefore(row) => (Qualifies(tree, connected, row, now) <=> Selected(tree, connected, row, now))

\* The query can run and means what was built: every placeholder names a parameter,
\* which holds the very bind its comparison was built with, of the type its column
\* has; LIMIT gets the limit.
QueryRuns ==
  ~tree.any =>
    LET query == BuildRuleWhere(tree, 2)
        params == Parameters(query.binds)
    IN /\ params[LimitIndex(query.binds)] = Other("limit")
       /\ \A i \in DOMAIN tree.groups : \A j \in DOMAIN tree.groups[i] :
            LET built == BuildCondition(tree.groups[i][j]) IN
              \A k \in DOMAIN built :
                LET x == query.clause[i][j][k] IN
                  /\ x.param \in DOMAIN params /\ params[x.param] = built[k].bind
                  /\ params[x.param].type = Kind(x.target)

-----------------------------------------------------------------------------
(* What the repository says and the code does not keep                       *)

\* "pushes the same predicates down into Postgres, and the two MUST agree",
\* condition_eval.rs.  When Twitch's clock is ahead and the follow is not a moment old
\* yet, num_days cuts the negative age to 0 and FLOOR makes it -1.
MustAgree == Qualifies(tree, connected, row, now) <=> Selected(tree, connected, row, now)
=============================================================================
