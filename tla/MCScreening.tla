---------------------------- MODULE MCScreening -----------------------------
(* Screening on a small instance, for TLC.  One rule file holds a rule for *)
(* every operator on every field; the others are refused.  A tick refills  *)
(* two units of the bucket and an event costs three, so the bucket often   *)
(* holds a fraction of an event.  Two events are too many for the short    *)
(* window and for the long one.                                            *)
EXTENDS Screening, TLC

Num(n) == <<"number", n>>
Str(t) == <<"string", t>>
Word(w) == <<"word", w>>
Large == 1000000

MCHasText(s, t) ==
    \/ s = t \/ t = EmptyText
    \/ <<s, t>> \in {<<Word("bash"), Word("as")>>, <<<<"dec", 15>>, <<"dec", 5>>>>,
                     <<<<"exp", Large>>, Word("e")>>}
MCCompiles(t) == t # Word("(")
MCMatches(re, t) == MCHasText(t, re)

MCWindows == <<[dur |-> 1, threshold |-> 1], [dur |-> 2, threshold |-> 1]>>

\* Two events with every kind of value in their fields.
Exec(pid, ppid, uid, comm, cmdline) ==
    [type |-> "exec",
     fields |-> [f \in {"pid", "ppid", "uid", "comm", "cmdline"} |->
         CASE f = "pid" -> Num(pid) [] f = "ppid" -> Num(ppid) [] f = "uid" -> Num(uid)
           [] f = "comm" -> Str(comm) [] f = "cmdline" -> Str(cmdline)]]
MCEvents == {Exec(Large, 5, 15, Word("bash"), <<"dec", 15>>),
             Exec(15, Large, 0, <<"dec", 15>>, EmptyText)}

Cond(f, op, v) == [field |-> f, operator |-> op, value |-> v]
Rule(id, type, cs) == [id |-> id, type |-> type, conditions |-> cs]

\* A rule for every field and operator, the texts in turn, and for every pair
\* of some conditions, the types in turn, each with an id of its own.  The
\* last two conditions look where no message has anything.
At(s, i) == s[1 + (i % Len(s))]
Fields == << <<"pid">>, <<"ppid">>, <<"uid">>, <<"comm">>, <<"cmdline">> >>
Operators == <<"eq", "contains", "regex", "gt", "lt">>
Values == << <<"dec", 5>>, <<"dec", 15>>, Word("as") >>
Single == [i \in 1 .. 25 |->
    Rule(ToString(i), "exec", <<Cond(At(Fields, i), At(Operators, i \div 5), At(Values, i))>>)]

Some == <<Cond(<<"pid">>, "gt", <<"dec", 5>>), Cond(<<"uid">>, "lt", <<"dec", 15>>),
          Cond(<<"comm">>, "eq", Word("bash")), Cond(<<"comm", "x">>, "contains", EmptyText),
          Cond(<<"dport">>, "gt", <<"dec", 5>>)>>
Double == [i \in 1 .. 10 |->
    Rule(ToString(25 + i), At(<<"exec", "*", "tcp">>, i),
         <<At(Some, i), At(Some, i + 1 + (i \div 5))>>)]

Wide == Single \o Double

Plain == Rule("a", "exec", <<Cond(<<"comm">>, "eq", Word("bash"))>>)
Refused ==
    {<<Plain, [Plain EXCEPT !.type = "*"]>>, <<[Plain EXCEPT !.id = ""]>>,
     <<[Plain EXCEPT !.type = "dns"]>>, <<[Plain EXCEPT !.conditions = <<>>]>>,
     <<[Plain EXCEPT !.conditions[1].operator = "bogus"]>>,
     <<[Plain EXCEPT !.conditions[1] = Cond(<<"comm">>, "regex", Word("("))]>>}

MCFiles == Refused \cup {Wide}
=============================================================================
