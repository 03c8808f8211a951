----------------------------- MODULE MCWebConsole -----------------------------
(* Small instances of WebConsole for TLC: sessions of one or two tabs, and   *)
(* one tab that visits the screens, under users who wait more or less.       *)
EXTENDS WebConsole

CONSTANTS t1, t2, k1, k2, m1, l1, l2

MCTabs   == {t1, t2}
MCTokens == {k1, k2}
MCNames  == {"p1", "p2"}
MCPaths  == {m1}
MCLeases == {l1, l2}
MCPairs  == {"a=b"}
MCLines  == {<<"kv", "put", "x", "a=b">>, <<"write", "x", "a">>}

In(tabs, manner, tokens, visits, faults) ==
  [tabs |-> tabs, manner |-> manner, tokens |-> tokens, visits |-> visits,
   faults |-> faults]

MCWorlds ==
  {In({t1}, "browsing", {k1}, {}, {"seal"}),
   In({t1}, "browsing", {k1, k2}, {}, {"sealed", "revoke", "lose"}),
   In({t1, t2}, "patient", {k1}, {}, {}),
   In({t1}, "patient", {k1}, {"secrets", "console"}, {}),
   In({t1}, "patient", {k1}, {"tokens", "leases", "audit", "about"}, {}),
   In({t1}, "browsing", {k1}, {"policies"}, {}),
   In({t1}, "browsing", {k1}, {"tokens", "leases"}, {}),
   In({t1}, "hasty", {k1}, {"console"}, {}),
   In({t1}, "patient", {k1}, {"leases", "about"}, {"refuse"}),
   In({t1}, "patient", {k1}, {"policies"}, {"seal"}),
   In({t1}, "patient", {k1}, {"leases"}, {"lose"})}
==============================================================================
