-------------------------- MODULE MCServiceManager --------------------------
(* Services for checking ServiceManager with TLC: three in one process, one  *)
(* of them disabled, and one that is not installed.                          *)
EXTENDS ServiceManager

OneProcess == [s \in Services |-> "p"]

Calls(ops, s) == ops \X {s} \X {None}
Binds(s, conns) == {"bind"} \X {s} \X conns

\* Clients that do not wait have one connection.
AllUses ==
  [p \in BOOLEAN |->
     IF p THEN Calls({"start", "stop"}, "s1") \cup Calls({"start", "stop"}, "s2")
                 \cup Calls({"start"}, "off") \cup Calls({"start"}, "ghost")
                 \cup Binds("s1", Connections) \cup Binds("ghost", Connections)
          ELSE Calls({"start", "stop"}, "s1") \cup Binds("s1", {"c1"})]
=============================================================================
