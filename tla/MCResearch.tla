------------------------------ MODULE MCResearch ------------------------------
EXTENDS Research

Quote(low, high, close, distance) ==
    [low |-> low, high |-> high, close |-> close, stopDistance |-> distance]

\* Extensions from below 0.25 to above 1.00, with 0.25, 0.50 and 1.00 hit.
MCQuotes == {Quote(0, 4, 1, 5), Quote(0, 8, 4, 5)}
MCQuietQuotes == {Quote(0, 4, 2, 2)}

\* The second one stops the shorts, and makes winners of 2R and more of the longs.
MCExitQuotes == MCQuietQuotes \cup {Quote(0, 16, 14, 2)}

\* Date 0 is history; its last bar already decides in the development window.
MCWindows ==
    [role \in {"development", "validation", "final_oos"} |->
        CASE role = "development" -> [start |-> 1, end |-> 1]
          [] role = "validation" -> [start |-> 2, end |-> 3]
          [] role = "final_oos" -> [start |-> 4, end |-> 4]]

MCParts ==
    [role \in {"development", "validation", "final_oos"} |->
        CASE role = "development" -> {[start |-> 1, end |-> 1]}
          [] role = "validation" -> {[start |-> 2, end |-> 2], [start |-> 3, end |-> 3]}
          [] role = "final_oos" -> {[start |-> 4, end |-> 4]}]

MCFloor == <<1, 4>>

\* Bars 1, 3 and 7 are the last of dates 0, 1 and 3 and decide on the next date,
\* the first of another window; bar 4 decides inside the validation window.
MCFlipBars == {1, 3, 4, 7}

\* Runs of two and three bars are rejected.
MCPersistenceIqr == <<1, 3>>
=============================================================================
