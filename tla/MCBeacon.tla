------------------------------ MODULE MCBeacon ------------------------------
(***************************************************************************)
(* Two nodes on hosts of their own, the broadcasts of one of them heard by *)
(* the other and not the other way round, an address of the network where  *)
(* nobody is and one outside of it.                                        *)
(***************************************************************************)
EXTENDS Beacon

OwnHosts == [n \in {"a", "b"} |-> IF n = "a" THEN "h1" ELSE "h2"]
OneWay == {<<"a", "b">>}

\* Announcements under the address of every host, of one that is not there and
\* of one that is not local.
Strangers ==
    {[kind |-> "announce", node |-> "s", from |-> h, to |-> "b"] : h \in {"h1", "h2", "h3", "far"}}
    \cup {[kind |-> "junk", node |-> "s", from |-> "h2", to |-> "a"]}
=============================================================================
