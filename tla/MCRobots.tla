------------------------------ MODULE MCRobots ------------------------------
(***************************************************************************)
(* Two origins and three checks; one permit, one cache entry, and a        *)
(* longer lifetime for a parsed file than for other policies.              *)
(***************************************************************************)
EXTENDS RobotsPolicyProperties

Agents(tokens) == [field |-> "user-agent", value |-> tokens]
Disallow(value) == [field |-> "disallow", value |-> value]
Allow(value) == [field |-> "allow", value |-> value]

MCPath == {<<"/">>, <<"/", "a">>}
MCAsks == [c \in Check |-> [origin |-> IF c = 3 THEN "y" ELSE "x",
                            path |-> IF c = 2 THEN <<"/">> ELSE <<"/", "a">>]]
MCTtl == [kind \in Kinds |-> IF kind = "rules" THEN 2 ELSE 1]

\* One that allows one path and denies the other, and one beyond the limits.
MCFiles == { << Agents({Product}), Disallow(<<"/">>), Allow(<<"/", "a">>) >>,
             << Agents({Product}), Allow(<<"/">>), Allow(<<"/", "a">>), Allow(<<"/", "a", "$">>) >> }

MCLines == {Agents({Product}), Agents({"other"}), Agents({"*"}), Agents({}),
            Disallow(<<"/">>), Disallow(<<"/", "*", "b", "$">>), Allow(<<"/", "a">>),
            Disallow(<<"/", "%", "a", "b">>), Allow(<<"/", "%", "*">>),
            Disallow(<< >>), Disallow(<<"*">>), [field |-> "sitemap", value |-> <<"/">>]}
MCTestPaths == {<<"/">>, <<"/", "a">>, <<"/", "a", "b">>, <<"/", "b">>, <<"/", "%", "a", "b">>}
=============================================================================
