------------------------------ MODULE Alerting ------------------------------
(***************************************************************************)
(* The rules engine (internal/alerting) between the agent's message and    *)
(* the alerts of one event.  The rule file is read and validated once,     *)
(* before the collector serves; after that Evaluate is asked for every     *)
(* stored event.                                                           *)
(*                                                                         *)
(* What a condition sees is not the agent's message but what is left of it *)
(* after two conversions: eventPayload encodes the message as JSON, whose  *)
(* omitempty tags leave out zero fields, and a number read back from JSON  *)
(* is a float64, which %v prints with an exponent from 10^6 on.            *)
(*                                                                         *)
(* A text is <<"dec", n>> or <<"exp", n>> (the number n written plainly or *)
(* with an exponent) or <<"word", w>>; a value is <<"number", n>>,         *)
(* <<"string", text>> or <<"object", fields>>.  An alert is the id of its  *)
(* rule; node, message and severity are copied.  The alerts of an event    *)
(* are a set: nothing here depends on their order, which is the file's.    *)
(***************************************************************************)
EXTENDS Integers, Sequences

CONSTANTS
    Files,           \* the rule sets a --rules file may hold
    Events,          \* the events agents may send
    ExpFrom,         \* the least number printed with an exponent (10^6)
    HasText(_, _),  \* strings.Contains on texts
    Compiles(_),     \* is the text a regular expression
    Matches(_, _)    \* MatchString of a compiled one

Texts == ({"dec", "exp"} \X Int) \cup ({"word"} \X STRING)

\* The messages of the protocol have numbers and strings only.
Scalars == ({"number"} \X Int) \cup ({"string"} \X Texts)

\* A path has at least one part (strings.Split).
Condition == [field: Seq(STRING) \ {<<>>}, operator: STRING, value: Texts]
RuleSet == Seq([id: STRING, type: STRING, conditions: Seq(Condition)])

ASSUME AlertingAssumption ==
    /\ Files \subseteq RuleSet
    /\ \A e \in Events : \A f \in DOMAIN e.fields : e.fields[f] \in Scalars
    /\ ExpFrom \in Nat

VARIABLES
    phase,   \* "start", "serving" or "refused"
    rules,   \* Engine.rules
    event,   \* the event evaluated last, or NoEvent
    alerts   \* the rules whose alerts Evaluate returned for it

vars == <<phase, rules, event, alerts>>

NoFields == [f \in {} |-> <<"number", 0>>]
NoEvent == [type |-> "none", fields |-> NoFields]
Missing == <<"missing">>

Init ==
    /\ phase = "start" /\ rules = <<>>
    /\ event = NoEvent /\ alerts = {}
-----------------------------------------------------------------------------
(* Start-up. *)

validEventTypes == {"exec", "tcp", "file", "*"}
validOperators == {"eq", "contains", "regex", "gt", "lt"}

ValidCondition(c) ==
    /\ c.operator \in validOperators
    /\ c.operator = "regex" => Compiles(c.value)

Validate(rs) ==
    \A i \in DOMAIN rs :
        /\ rs[i].id # ""
        /\ \A k \in 1 .. i - 1 : rs[k].id # rs[i].id
        /\ rs[i].type \in validEventTypes
        /\ rs[i].conditions # <<>>
        /\ \A j \in DOMAIN rs[i].conditions : ValidCondition(rs[i].conditions[j])

\* LoadRules without a path: no rules, and nothing to validate.
StartWithoutRules ==
    /\ phase = "start"
    /\ phase' = "serving"
    /\ UNCHANGED <<rules, event, alerts>>

\* LoadRules finds no file, cannot read it or cannot parse it.
LoadFails ==
    /\ phase = "start"
    /\ phase' = "refused"
    /\ UNCHANGED <<rules, event, alerts>>

\* LoadRules, Validate and New: serve stops at the first error.
StartWithRules(rs) ==
    /\ phase = "start"
    /\ phase' = IF Validate(rs) THEN "serving" ELSE "refused"
    /\ rules' = IF Validate(rs) THEN rs ELSE <<>>
    /\ UNCHANGED <<event, alerts>>
-----------------------------------------------------------------------------
(* From the message to the value a condition compares. *)

EmptyText == <<"word", "">>

IsZero(v) == v = <<"number", 0>> \/ v = <<"string", EmptyText>>

\* eventPayload, encoded and decoded again: zero fields are omitted, and an
\* unknown type, or one whose message is not set, has no fields at all.
eventPayload(e) ==
    LET kept == IF e.type \in {"exec", "tcp", "file"}
                THEN {f \in DOMAIN e.fields : ~IsZero(e.fields[f])} ELSE {}
    IN  <<"object", [f \in kept |-> e.fields[f]]>>

\* One part of a dotted path.
Descend(v, part) ==
    IF v[1] = "object" /\ part \in DOMAIN v[2] THEN v[2][part] ELSE Missing

getFieldValue(payload, path) ==
    LET current[i \in 0 .. Len(path)] ==
            IF i = 0 THEN payload ELSE Descend(current[i - 1], path[i])
    IN  current[Len(path)]

\* fmt.Sprintf("%v", value)
Sprint(v) ==
    IF v[1] = "number"
    THEN <<IF v[2] < ExpFrom /\ -v[2] < ExpFrom THEN "dec" ELSE "exp", v[2]>>
    ELSE IF v[1] = "string" THEN v[2] ELSE <<"word", "map">>

\* The number a text stands for, if any.
ParseFloat(text) == IF text[1] \in {"dec", "exp"} THEN {text[2]} ELSE {}

toFloat64(v) ==
    IF v[1] = "number" THEN {v[2]}
    ELSE IF v[1] = "string" THEN ParseFloat(v[2]) ELSE {}

\* The two numbers compared; none if one of the sides is not a number.
compareNumeric(v, target) == toFloat64(v) \X ParseFloat(target)

\* The switch of matchCondition: an operator it does not know, or a regular
\* expression that does not compile, matches nothing.
Holds(v, c) ==
    \/ c.operator = "eq" /\ Sprint(v) = c.value
    \/ c.operator = "contains" /\ HasText(Sprint(v), c.value)
    \/ c.operator = "regex" /\ Compiles(c.value) /\ Matches(c.value, Sprint(v))
    \/ c.operator = "gt" /\ \E p \in compareNumeric(v, c.value) : p[1] > p[2]
    \/ c.operator = "lt" /\ \E p \in compareNumeric(v, c.value) : p[1] < p[2]

matchCondition(payload, c) ==
    LET v == getFieldValue(payload, c.field)
    IN  v # Missing /\ Holds(v, c)

\* Mutated form: one condition that matches is enough.
matchAnyCondition(e, cs) ==
    \E i \in DOMAIN cs : matchCondition(eventPayload(e), cs[i])

matchConditions(e, cs) ==
    cs # <<>> /\ \A i \in DOMAIN cs : matchCondition(eventPayload(e), cs[i])

Fires(r, e) ==
    (r.type = "*" \/ r.type = e.type) /\ matchConditions(e, r.conditions)

Evaluate(e) ==
    /\ phase = "serving"
    /\ event' = e
    /\ alerts' = {rules[i].id : i \in {j \in DOMAIN rules : Fires(rules[j], e)}}
    /\ UNCHANGED <<phase, rules>>

Next ==
    \/ StartWithoutRules \/ LoadFails
    \/ \E rs \in Files : StartWithRules(rs)
    \/ \E e \in Events : Evaluate(e)

Spec == Init /\ [][Next]_vars
-----------------------------------------------------------------------------
Small(v) == v[1] # "number" \/ (v[2] < ExpFrom /\ -v[2] < ExpFrom)

\* A value as whoever writes the rule would write it down.
Written(v) == IF v[1] = "number" THEN <<"dec", v[2]>> ELSE v[2]

\* What a condition says about the value the agent sent.
Says(v, c) ==
    \/ c.operator = "eq" /\ Written(v) = c.value
    \/ c.operator = "contains" /\ HasText(Written(v), c.value)
    \/ c.operator = "regex" /\ Matches(c.value, Written(v))
    \/ c.operator = "gt" /\ \E a \in toFloat64(v), b \in ParseFloat(c.value) : a > b
    \/ c.operator = "lt" /\ \E a \in toFloat64(v), b \in ParseFloat(c.value) : a < b

\* Is the condition true of the message the agent sent?  The fields of the
\* messages are flat.
TrueOf(e, c) ==
    /\ Len(c.field) = 1 /\ c.field[1] \in DOMAIN e.fields
    /\ Says(e.fields[c.field[1]], c)

\* Does the field reach the engine as the agent sent it?  A zero is left out
\* of the payload, and text comparisons see large numbers with an exponent.
InSight(e, c) ==
    c.field[1] \in DOMAIN e.fields =>
        LET v == e.fields[c.field[1]]
        IN  ~IsZero(v) /\ (c.operator \in {"gt", "lt"} \/ Small(v))

(***************************************************************************)
(* On every event whose compared fields survive the two conversions        *)
(* (eventPayload, Sprintf), a rule fires exactly when its type and all its *)
(* conditions are true of the message the agent sent (Evaluate).  Nothing  *)
(* is said of fields that do not survive them.                             *)
(***************************************************************************)
FiresAsWritten ==
    event # NoEvent => \A i \in DOMAIN rules :
        LET r == rules[i]
        IN  (\A j \in DOMAIN r.conditions : InSight(event, r.conditions[j])) =>
                (r.id \in alerts <=>
                    /\ event.type \in {"exec", "tcp", "file"}
                    /\ r.type \in {"*", event.type}
                    /\ \A j \in DOMAIN r.conditions : TrueOf(event, r.conditions[j]))

HighPortRule == "tcp_to_suspicious_port"

HighPortEvents ==
    {e \in Events : /\ e.type = "tcp" /\ "dst_port" \in DOMAIN e.fields
                    /\ e.fields["dst_port"][2] > 10000}

(***************************************************************************)
(* What rules.yaml says of its rule tcp_to_suspicious_port: it alerts on   *)
(* connections to high ports.  Its condition names the field dport, and    *)
(* the payload's key is dst_port.                                          *)
(***************************************************************************)
HighPortAlerts ==
    event \in HighPortEvents /\ (\E i \in DOMAIN rules : rules[i].id = HighPortRule)
        => HighPortRule \in alerts
=============================================================================
