------------------------------- MODULE MCTable -------------------------------
(***************************************************************************)
(* Instances of NftTable: two mappings on neighbouring ports, a TCP and a  *)
(* UDP mapping on the same port, the retirement of the first, and a new    *)
(* epoch on its port beside the fence.                                     *)
(***************************************************************************)
EXTENDS NftTable

DefaultGuards == [maxConn |-> 1, rate |-> 0, burst |-> 0, psRate |-> 1, psBurst |-> 1]

M(id, proto, port, mark, policy, over) ==
    [id |-> id, proto |-> proto, port |-> port, target |-> id, mark |-> mark,
     policy |-> policy, over |-> over]

All == {<<[addr |-> 0, bits |-> 0]>>}
None == [x \in {} |-> 0]

First == M(1, "tcp", 80, 1, All, None)
Other == M(2, "udp", 80, 2, {}, [psRate |-> 0, rate |-> 1, maxConn |-> 0])
Again == M(3, "tcp", 80, 3, {}, None)
Beside == M(4, "tcp", 81, 4, {}, None)

Retired(id, mark) == [id |-> id, proto |-> "tcp", port |-> 80, mark |-> mark]

PlanSet ==
    {[rules |-> <<First>>, rets |-> <<>>, quarantine |-> FALSE],
     [rules |-> <<First, Beside>>, rets |-> <<>>, quarantine |-> FALSE],
     [rules |-> <<Other>>, rets |-> <<Retired(1, 1)>>, quarantine |-> FALSE],
     [rules |-> <<Other, Again>>, rets |-> <<Retired(1, 1)>>, quarantine |-> FALSE],
     [rules |-> <<Other>>, rets |-> <<Retired(1, 1), Retired(2, 3)>>, quarantine |-> FALSE]}
=============================================================================
