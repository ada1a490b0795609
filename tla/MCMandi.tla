------------------------------ MODULE MCMandi ------------------------------
EXTENDS Mandi
CONSTANTS m1, m2, near, far

MCSources == {"data_gov_in", "manual_seed"}
MCPrecedence == [s \in MCSources |-> IF s = "data_gov_in" THEN 1 ELSE 4]
MCMarkets == {m1, m2}

Quote(m, s, g, p, q, a) ==
  [market |-> m, source |-> s, general |-> g, price |-> p, qty |-> q, age |-> a]
MCQuotes == {Quote(m1, "data_gov_in", TRUE, 20, 5, 0), Quote(m1, "data_gov_in", TRUE, 26, 1, -1),
             Quote(m2, "data_gov_in", FALSE, 26, 12, 0)}
MCFailSets == {{}, {m2}}

MCBand == [min |-> 18, max |-> 30]
MCGodowns == {[name |-> near, distance |-> 10, same_district |-> FALSE],
              [name |-> far, distance |-> 90, same_district |-> FALSE]}
=============================================================================
