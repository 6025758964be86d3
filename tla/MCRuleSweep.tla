----------------------------- MODULE MCRuleSweep -----------------------------
(* Two labels of log lines and one kind of telemetry event; a seeded rule, *)
(* a rule an admin may add and may rewrite to the other label, and a       *)
(* telemetry rule.                                                         *)
EXTENDS RuleSweep

CONSTANTS g1

Logins == <<Correlation, "SSH failed login">>
Sudo == <<Correlation, "Unauthorized sudo attempt">>
Execs == <<Telemetry, "process_exec">>

TwoLabels == {Logins, Sudo, Execs}
OneLabel == {Logins, Execs}

Rule(name, on, window) ==
  [table |-> on[1], name |-> name, on |-> on, threshold |-> 2, window |-> window]

Seed == Rule("default", Logins, 2)

ThreeKeys == {<<Correlation, 1>>, <<Correlation, 2>>, <<Telemetry, 1>>}

Few == {Seed, Rule("own", Execs, 2)}
Many == Few \cup {Rule("default", Logins, 1)}

=============================================================================
