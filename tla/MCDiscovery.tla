----------------------------- MODULE MCDiscovery -----------------------------
(***************************************************************************)
(* Inputs for Discovery: one guest for each check of the selector, and for *)
(* each source an answer for each way it can be searched through.          *)
(***************************************************************************)
EXTENDS Discovery

CONSTANTS a1, a2, loop, k1, k2, n1, n2, h1, h2, raw1, raw2, blank, p1, p2, t1, t2

MCHostnameOf == raw1 :> h1 @@ raw2 :> h2 @@ blank :> Nothing

MCIPKeys == <<k1, k2>>

MCNameKeys == <<n1, n2>>

AnyGuest ==
    [includeTypes |-> GuestTypes, requireRunning |-> FALSE, includeNames |-> {},
     excludeNames |-> {}, includeTags |-> {}, excludeTags |-> {}]

MCFilterConfigs ==
    { AnyGuest,
      [AnyGuest EXCEPT !.requireRunning = TRUE, !.includeTypes = {"lxc"}],
      [AnyGuest EXCEPT !.includeNames = {p1}, !.excludeNames = {p2}],
      [AnyGuest EXCEPT !.includeTags = {t1}, !.excludeTags = {t2}] }

MCOrders ==
    { [qemu |-> <<"guest-agent", "description", "cloudinit">>,
       lxc  |-> <<"config", "description">>],
      [qemu |-> <<"cloudinit", "description", "guest-agent">>,
       lxc  |-> <<"description", "config">>],
      [qemu |-> <<"description", "cloudinit">>, lxc |-> <<"description">>],
      [qemu |-> <<"guest-agent">>, lxc |-> <<"config">>] }

Plain ==
    [type |-> "qemu", template |-> FALSE, identified |-> TRUE, running |-> TRUE,
     matches |-> {}, tags |-> {}]

Container == [Plain EXCEPT !.type = "lxc"]

MCListedGuests ==
    {[name |-> raw1, facts |-> facts] : facts \in
        { Plain, Container,
          [Plain EXCEPT !.template = TRUE],
          [Plain EXCEPT !.identified = FALSE],
          [Container EXCEPT !.running = FALSE],
          [Plain EXCEPT !.matches = {p1}],
          [Plain EXCEPT !.matches = {p1, p2}],
          [Container EXCEPT !.tags = {t1}],
          [Container EXCEPT !.tags = {t1, t2}] }}
    \cup {[name |-> blank, facts |-> Plain]}

Says(k, v) == [key |-> k, value |-> v]

MCDescriptions ==
    { <<>>,
      <<Says(k2, a2), Says(k1, a1)>>,
      <<Says(k1, a1), Says(k1, NotIPv4)>>,
      <<Says(k1, NotIPv4), Says(k2, loop)>>,
      <<Says(n1, raw2)>>,
      <<Says(n2, raw1), Says(n1, raw2), Says(n1, Nothing)>>,
      <<Says(n1, blank), Says(k2, a1)>>,
      <<Says(n2, raw1), Says(n1, raw2), Says(k1, a2), Says(k1, a1)>> }

MCNetworks ==
    { <<>>,
      << <<a1>> >>,
      << <<NotIPv4, a1>>, <<a2>> >>,
      << <<loop>>, <<a1>> >>,
      << <<>>, <<a2>>, <<a1>> >> }

Reported(loopback, addresses) == [loopback |-> loopback, addresses |-> addresses]

MCReports ==
    { <<>>,
      <<Reported(TRUE, <<a1>>)>>,
      <<Reported(TRUE, <<loop, a1>>), Reported(FALSE, <<NotIPv4, loop, a2>>)>>,
      <<Reported(FALSE, <<loop>>)>>,
      <<Reported(FALSE, <<NotIPv4>>), Reported(FALSE, <<a1, a2>>)>> }
=============================================================================
