------------------------------- MODULE MCPath -------------------------------
(***************************************************************************)
(* An instance of PacketPath with two-bit addresses and ports scaled down  *)
(* to 0..9, of which 1 is the lowest of a band and 2 and 6 are the relay's *)
(* own.  Four environments load, and each of the others is wrong in one    *)
(* way.                                                                    *)
(***************************************************************************)
EXTENDS PacketPath

Omitted == [form |-> "omitted", cidrs |-> <<>>]
Null == [form |-> "null", cidrs |-> <<>>]
List(l) == [form |-> "list", cidrs |-> l]
P(a, b) == [addr |-> a, bits |-> b]

Plain == [psRate |-> 0, rate |-> 1, burst |-> 1, maxConn |-> 1]

Tcp(port, target, policy, over) ==
    [id |-> 1, proto |-> "tcp", port |-> port, target |-> target, mark |-> 0,
     policy |-> policy, over |-> over]
Udp(port) ==
    [id |-> 2, proto |-> "udp", port |-> port, target |-> "b", mark |-> 0,
     policy |-> List(<<P(0, 2)>>),
     over |-> [psRate |-> 0, maxConn |-> 0, rate |-> 1, burst |-> 1]]

(***************************************************************************)
(* Policies: legacy, deny-all, nested and adjacent networks out of order,  *)
(* everything; null, host bits and repetitions are refused.  The second    *)
(* mapping has the same port number and the other protocol.                *)
(***************************************************************************)
PolicyDocuments ==
    {<<Tcp(8, "a", p, [maxConn |-> 0]), Udp(8)>> :
        p \in {Omitted, Null, List(<<>>), List(<<P(2, 2), P(0, 2)>>), List(<<P(0, 0)>>),
               List(<<P(2, 1), P(3, 2)>>), List(<<P(1, 1)>>), List(<<P(2, 2), P(2, 2)>>)}}

(***************************************************************************)
(* Guards: the defaults, a wider override, guards disabled; a burst        *)
(* without its rate and an override above the ceiling are refused.         *)
(***************************************************************************)
GuardDocuments ==
    {<<Tcp(4, "a", Omitted, o)>> :
        o \in {[maxConn |-> 0], [psRate |-> 1, psBurst |-> 2, maxConn |-> 0],
               [rate |-> 1, burst |-> 0, maxConn |-> 0], [maxConn |-> 1],
               [burst |-> 2], [rate |-> MaxGuardValue + 1]}}

(***************************************************************************)
(* Limits: one port more, one target more than the narrow environment      *)
(* allows, and a port of the relay itself; a port and an id that repeat.   *)
(***************************************************************************)
LimitDocuments ==
    {<<>>} \cup {<<Tcp(pt[1], pt[2], Omitted, Plain)>> :
        pt \in {<<2, "a">>, <<3, "a">>, <<3, "b">>, <<5, "a">>, <<7, "c">>}}
    \cup {<<Udp(3), [Udp(3) EXCEPT !.id = 1]>>, <<Udp(3), Udp(4)>>}

MCDocuments == PolicyDocuments \cup GuardDocuments \cup LimitDocuments

-----------------------------------------------------------------------------
MCGuards == [maxConn |-> 2, rate |-> 1, burst |-> 3, psRate |-> 1, psBurst |-> 1]

Unset == [k \in DOMAIN MCGuards |-> {}]
Band(a, b) == {[min |-> a, max |-> b]}

Base ==
    [targetCidr |-> {{"a", "b"}}, band |-> Band(3, 5), publicIface |-> {4},
     stateDir |-> {"state"}, maxAgeHours |-> {24}, pollSeconds |-> {},
     syncURL |-> {"http"}, syncToken |-> {"token"}, sourceFile |-> {}, guards |-> Unset]

MCEnvironments ==
    {Base,
     [Base EXCEPT !.band = Band(3, 3), !.targetCidr = {{"a"}},
                  !.syncURL = {}, !.syncToken = {}, !.sourceFile = {"doc"}],
     [Base EXCEPT !.band = Band(7, 9), !.pollSeconds = {5}, !.guards.burst = {1}],
     [Base EXCEPT !.syncURL = {}, !.syncToken = {}],
     [Base EXCEPT !.sourceFile = {"doc"}],
     [Base EXCEPT !.syncURL = {"ftp"}],
     [Base EXCEPT !.syncToken = {}],
     [Base EXCEPT !.syncURL = {}, !.sourceFile = {"doc"}],
     [Base EXCEPT !.band = Band(1, 3)],
     [Base EXCEPT !.band = Band(0, 1)],
     [Base EXCEPT !.band = Band(5, 3)],
     [Base EXCEPT !.band = {}],
     [Base EXCEPT !.targetCidr = {}],
     [Base EXCEPT !.publicIface = {}],
     [Base EXCEPT !.publicIface = {16}],
     [Base EXCEPT !.stateDir = {}],
     [Base EXCEPT !.maxAgeHours = {}],
     [Base EXCEPT !.maxAgeHours = {721}],
     [Base EXCEPT !.pollSeconds = {4}],
     [Base EXCEPT !.pollSeconds = {301}],
     [Base EXCEPT !.guards.rate = {MaxUint32 + 1}]}
=============================================================================
