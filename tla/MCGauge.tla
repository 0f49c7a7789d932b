------------------------------- MODULE MCGauge ------------------------------
(***************************************************************************)
(* Gauge with one datapath.  The second watcher of a kind does not poll,   *)
(* and the third configuration has a database there is none of.            *)
(***************************************************************************)
EXTENDS Gauge

CONSTANTS d1, d2

W(d, t, db) == [dp |-> d, type |-> t, db |-> db]
MCConfigs == {"a", "b", "bad"}
MCInitial == {"a", "bad"}
MCWatchers ==
  [c \in MCConfigs |->
    CASE c = "a" -> <<W(d1, "port_stats", "text"), W(d1, "port_stats", "prometheus"),
                      W(d1, "port_state", "prometheus")>>
      [] c = "b" -> <<W(d1, "port_state", "prometheus"), W(d2, "port_stats", "text"),
                      W(d1, "meter_stats", "prometheus")>>
      [] OTHER -> <<W(d1, "port_stats", "influx")>>]
=============================================================================
