----------------------------- MODULE MCBackend -----------------------------
(* Small instances: one browser, one guide, two requests for servers. *)
EXTENDS Backend

CONSTANTS s1, m1, m2, u1, u2, u3, d1, t1, t2

MCOwner == [d \in Devices |-> u1]

MCTitles == {<<>>, <<1>>}
MCBegun == {<<m1, u1, <<>>, None>>, <<m1, u1, <<>>, u2>>}
MCMenus == LET others == Ops \ {"create"} IN
           {<<{"create"}, {"create", "erase", "ban"}>>,
            <<others, others \union {"ban"}, {"unvote"}>>}

MCEntries == [r \in Nominations |-> IF r = 1 THEN <<"a", "b">> ELSE <<"b", "c">>]
MCIpOf == [e \in {"a", "b", "c"} |-> IF e = "c" THEN "ip2" ELSE "ip1"]
MCPortOf == [e \in {"a", "b", "c"} |-> IF e = "b" THEN 27015 ELSE 40000]
=============================================================================
