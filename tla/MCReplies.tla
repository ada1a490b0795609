----------------------------- MODULE MCReplies -----------------------------
EXTENDS Replies
CONSTANTS m1, m2

\* Of stamps with the oldest first, InWindow keeps those within the window.
ASSUME WindowIsFilter ==
  \A n \in 0 .. 3 : \A s \in [1 .. n -> 0 .. OUTBOUND_WINDOW] :
    (\A i, j \in 1 .. n : i <= j => s[i] >= s[j]) =>
      InWindow(s) = SelectSeq(s, LAMBDA a : a < OUTBOUND_WINDOW)

MCSources == {"data_gov_in"}
MCPrecedence == [s \in MCSources |-> 1]
MCMarkets == {m1, m2}

Quote(m, p) == [market |-> m, source |-> "data_gov_in", general |-> TRUE, price |-> p]
MCReports == {Quote(m1, 20), Quote(m1, 26), Quote(m2, 23)}

MCProfiles == {[registered |-> TRUE, near |-> m1], [registered |-> TRUE, near |-> Unstated],
               [registered |-> FALSE, near |-> Unstated]}

MCAlertMarkets == {m1, Unstated}

Lot(q, ask, s) == [commodity |-> "onion", district |-> "home", asking_price |-> ask,
                   quantity |-> q, grade |-> "A", status |-> s]
MCLots == {Lot(10, 25, "open"), Lot(20, 25, "closed"), Lot(10, Unstated, "offered"),
           [Lot(5, 25, "open") EXCEPT !.commodity = "maize"],
           [Lot(10, Unstated, "open") EXCEPT !.district = "away"]}

Buyer(d, km, bid) == [verified |-> TRUE, commodity |-> "onion", district |-> d,
                      distance |-> km, max_price |-> bid, demand |-> 10,
                      reliability |-> "high", grades |-> {"A"}]
MCBuyers == {Buyer("home", 10, 20), Buyer("home", 25, 20), Buyer("away", 120, 40),
             Buyer("away", 110, 40), Buyer("away", 100, 20),
             [Buyer("home", 0, 30) EXCEPT !.verified = FALSE],
             [Buyer("home", Unstated, 30) EXCEPT !.commodity = "maize"]}
=============================================================================
