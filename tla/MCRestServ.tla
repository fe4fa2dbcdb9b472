------------------------------ MODULE MCRestServ ------------------------------
EXTENDS RestServ

\* The tokens a URI may carry at each position: the top-level resources
\* and a foreign word; the entities, an entity list, a mnemonic and an id
\* list; then markets, contracts or ids; then ids.  Every route of the
\* table is reachable, with the wrong-entity, wrong-method and too-long
\* cases around it.
MCPositions ==
    << { <<"rec">>, <<"sess">>, <<"view">>, <<"1">> },
       { <<"asset">>, <<"contr">>, <<"market">>, <<"trader">>, <<"order">>,
         <<"trade">>, <<"posn">>, <<"view">>, <<"order", "trade">>, <<"1">>,
         <<"2", "3">> },
       { <<"1">>, <<"2", "3">>, <<"order">> },
       { <<"1">>, <<"2", "3">> } >>

MCURIs ==
    LET P == MCPositions
    IN {<<>>} \cup {<<a>> : a \in P[1]} \cup {<<a, b>> : a \in P[1], b \in P[2]}
       \cup {<<a, b, c>> : a \in P[1], b \in P[2], c \in P[3]}
       \cup {<<a, b, c, d>> : a \in P[1], b \in P[2], c \in P[3], d \in P[4]}

\* stou64 on the items of MCPositions; a non-numeral gives 0.
MCStou64(x) == CASE x = "1" -> 1 [] x = "2" -> 2 [] x = "3" -> 3 [] OTHER -> 0

\* Client DNs: an absent header; "/CN=alice/emailAddress=alice";
\* "/CN=bob" without an email; "/emailAddress=/emailAddress=carol", whose
\* first email is empty; "emailAddress=dan=x", without the leading slash
\* and with an '=' in the value; "/emailAddress", a key without a value.
MCDNs ==
    { <<>>,
      << <<"">>, <<"CN", "alice">>, <<"emailAddress", "alice">> >>,
      << <<"">>, <<"CN", "bob">> >>,
      << <<"">>, <<"emailAddress", "">>, <<"emailAddress", "carol">> >>,
      << <<"emailAddress", "dan", "x">> >>,
      << <<"">>, <<"emailAddress">> >> }

====
