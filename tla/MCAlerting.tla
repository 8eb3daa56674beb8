----------------------------- MODULE MCAlerting -----------------------------
(* Alerting with the rule file of the repository, for TLC. *)
EXTENDS Alerting

Word(w) == <<"word", w>>

MCHasText(s, t) == s = t
MCCompiles(t) == TRUE
MCMatches(re, t) == MCHasText(t, re)

Exec(uid, comm) == [type |-> "exec", fields |-> [f \in {"uid", "comm"} |->
                       IF f = "uid" THEN <<"number", uid>> ELSE <<"string", comm>>]]
Tcp(port) == [type |-> "tcp", fields |-> [f \in {"dst_port"} |-> <<"number", port>>]]

MCEvents ==
    {Exec(uid, comm) : uid \in {0, 1000}, comm \in {Word("bash"), Word("mock-proc")}}
    \cup {Tcp(0), Tcp(80), Tcp(20000)}

Rule(id, type, f, op, v) ==
    [id |-> id, type |-> type, conditions |-> <<[field |-> <<f>>, operator |-> op, value |-> v]>>]

\* The four rules of rules.yaml.
ShippedRules ==
    <<Rule("mock_proc_detection", "exec", "comm", "eq", Word("mock-proc")),
      Rule("high_uid_exec", "exec", "uid", "gt", <<"dec", 500>>),
      Rule("bash_execution", "exec", "comm", "eq", Word("bash")),
      Rule("tcp_to_suspicious_port", "tcp", "dport", "gt", <<"dec", 10000>>)>>

MCShipped == {ShippedRules}
=============================================================================
