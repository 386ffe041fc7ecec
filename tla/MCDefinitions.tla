---------------------------- MODULE MCDefinitions ----------------------------
(* Two names, three runs of seeding (one with two files of the same id, one  *)
(* with a bad second file), definitions with every kind of element, omitted  *)
(* fields at every level, and action lists that read what they write.        *)
EXTENDS Definitions, TLC

CONSTANTS one, two, many, kid   \* literals; "many" is not a number

MCRank == [v \in {one, two} |-> IF v = one THEN 1 ELSE 2]

\* An element and the trees of its members.
Tree(e, members) ==
  [p \in {<<>>} \cup UNION {{<<s>> \o q : q \in DOMAIN members[s]} :
                              s \in DOMAIN members} |->
     IF p = <<>> THEN e ELSE members[Head(p)][Tail(p)]]

\* The members of a list, given their trees.
In(list, trees) ==
  [s \in {<<list, n>> : n \in DOMAIN trees} |-> trees[s[2]]]

Omitted(kind) == [f \in Fields(kind) |-> Unset]

State(kind, id, members) ==
  Tree([kind |-> kind, field |-> [Omitted(kind) EXCEPT !.id = id]], members)

Action(kind, expect, v, child) ==
  Tree([kind |-> kind, field |-> Omitted(kind), vars |-> v, expect |-> expect],
       In("childWorkflow", child))
Http(expect, v) == Action("HTTP", expect, v, <<>>)
Set(v) == Action("SET", FALSE, v, <<>>)
Child(w) == Action("CHILD", FALSE, Empty, <<w>>)

Move(guard, actions, forks) ==
  Tree([kind |-> "transition", field |-> Omitted("transition"), guard |-> guard],
       In("entryActions", actions) @@ In("forkTargets", forks))

Common == Tree([kind |-> "common", field |-> Omitted("common")],
               In("entryActions", <<Http(FALSE, Empty)>>))

Workflow(id, states, moves) ==
  Tree([kind |-> "workflow",
        field |-> [Omitted("workflow") EXCEPT !.id = id, !.kind = "SYSTEM"]],
       In("states", states) @@ In("transitions", moves)
         @@ In("commonTransitions", <<Common>>))

Simple == State("SimpleState", "s", Empty)
Leaf == Workflow("leaf", <<Simple>>, <<>>)

\* A composite whose entry action creates a child, with an action state inside.
Nest ==
  LET a == State("ActionState", "a", In("doActions", <<Http(TRUE, Empty)>>))
  IN State("CompositeState", "c",
       In("entryActions", <<Child(Leaf)>>) @@ In("substates", <<a>>)
         @@ In("subTransitions", <<Move(NoGuard, <<>>, <<>>)>>))

When(k, op, v) == [key |-> k, op |-> op, value |-> v]

Order1 == Workflow("order", <<Nest>>,
  <<Move(NoGuard, <<Set("x" :> one), Http(FALSE, "x" :> Ref("x")),
                    Set("x" :> two @@ "y" :> many), Child(Leaf)>>, <<Leaf>>)>>)

\* A choice on a number, with a default for what is not one.
Order2 == Workflow("order", <<State("ActionState", "a", Empty)>>,
  <<Move(When("x", "GTE", two), <<Set("x" :> many)>>, <<>>),
    Move(When("x", "LT", two), <<Set("x" :> two @@ "y" :> Ref("x"))>>, <<>>),
    Move(When("x", "EXISTS", one), <<Http(TRUE, "y" :> Ref("y"))>>, <<>>),
    Move(When("y", "NEQ", two), <<Http(TRUE, "y" :> Ref("x"))>>, <<>>)>>)

\* Its second action sets x from y and y from x, in either order.
Refund == Workflow("refund", <<Simple>>,
  <<Move(NoGuard, <<Http(TRUE, Empty), Set("x" :> Ref("y") @@ "y" :> Ref("x")),
                    Http(FALSE, "x" :> Ref("y"))>>, <<>>)>>)

MCFiles == [s \in Seeders |->
  CASE s = "s1" -> <<Order2, Order1>>
    [] s = "s2" -> <<Order2, Refund>>
    [] OTHER    -> <<Refund, Bad>>]

MCAnswers == {"x" :> one, "x" :> many @@ "y" :> two}
\* The last request has no effect on what can happen next.
MCView == <<table, seeder, inst, run, jobs>>
=============================================================================
