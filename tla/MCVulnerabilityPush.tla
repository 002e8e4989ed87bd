------------------------- MODULE MCVulnerabilityPush -------------------------
(* Small projects for VulnerabilityPush.                                    *)
EXTENDS VulnerabilityPush

\* Every domain is reachable, or only the last one is, because the first has
\* a controller without an address or no controller at all.
MCLabs ==
  {[dm \in Domains |-> "ok"]} \cup
  {[dm \in Domains |-> IF dm = 1 THEN r ELSE "ok"] : r \in {"no_ip", "missing"}}
=============================================================================
