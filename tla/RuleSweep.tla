------------------------------ MODULE RuleSweep ------------------------------
(***************************************************************************)
(* Correlation rules and telemetry rules: their tables, edited through the *)
(* admin handlers, and the 60-second loop that alerts when a group (a host *)
(* or a user) has threshold_count events within window_minutes, once per   *)
(* burst.                                                                  *)
(*                                                                         *)
(* Every SQL statement and every alert is one step.  A rule is its table   *)
(* and its id; AUTO_INCREMENT gives no id out twice.  An event is counted  *)
(* by its age, in a unit that all windows are multiples of, and forgotten  *)
(* when it is older than all of them.  What a rule matches on (its label,  *)
(* or a kind and a filter, and the column it groups by) is one value.      *)
(***************************************************************************)
EXTENDS Integers, FiniteSetsExt

CONSTANTS
  Groups,    \* the hosts and users of events
  Matches,   \* <<table, what>>: what a rule of that table can match on
  RuleTexts,   \* the rules an admin may write
  Default,   \* the rule seeded on every start
  Span,      \* the longest window
  Keys,      \* bound: the table and id of the rules ever inserted
  MaxEvents, \* bound: events of a match and a group within Span
  MaxFaults  \* bound: restarts and failing statements

Correlation == "correlation"
Telemetry == "telemetry"
Tables == {Correlation, Telemetry}

Ages == 0 .. Span - 1

(* validate_correlation_rule asks for a threshold of two at least and a    *)
(* window of one minute at least.                                          *)
RuleText ==
  [table : Tables, name : STRING, on : Matches, threshold : Nat \ {0, 1}, window : 1 .. Span]

ASSUME RuleSweepAssumption ==
  /\ \A c \in RuleTexts : c \in RuleText /\ c.on[1] = c.table
  /\ Default \in RuleTexts /\ Default.table = Correlation
  /\ Span \in Nat \ {0}
  /\ Keys \subseteq Tables \X (Nat \ {0}) /\ <<Correlation, 1>> \in Keys
  /\ MaxEvents \in Nat /\ MaxFaults \in Nat

VARIABLES
  recent,    \* recent[m][g][k]: events of group g that match m and are k old
  rules,     \* the rows of both tables
  nextId,
  firing,    \* firing[k]: firing[id] and telemetry_firing[id]
  \* the loop
  pc,        \* "sleep", "list", "rule" or "alert"
  phase,     \* the table it is working through
  todo,      \* the rows it read and has yet to deal with
  current,   \* the row in hand
  pending,   \* groups it has yet to alert on
  still,     \* still_firing
  \* history, read by properties only
  noted,     \* noted[k]: groups alerted on in the burst that goes on under rule k
  handled,   \* handled[k]: groups alerted on and over the threshold in every query since
  faults

NoRule == [text |-> Default, enabled |-> FALSE, present |-> FALSE]
NoRow == [id |-> 0, as |-> NoRule]

loopVars == <<pc, phase, todo, current, pending, still>>
ruleVars == <<rules, nextId>>
vars == <<recent, rules, nextId, firing, pc, phase, todo, current, pending,
          still, noted, handled, faults>>

Fault == faults < MaxFaults /\ faults' = faults + 1

-----------------------------------------------------------------------------
(* Queries.                                                                *)

Within(ages, window) == MapThenSumSet(LAMBDA k : ages[k], 0 .. window - 1)

(* correlation_rule_hits and telemetry_rule_hits.                          *)
Hits(text) == {g \in Groups : Within(recent[text.on][g], text.window) >= text.threshold}

Bursting(k) == IF rules[k].enabled THEN Hits(rules[k].text) ELSE {}

Present == {k \in Keys : rules[k].present}

Rows(table) == {[id |-> k[2], as |-> rules[k]] : k \in {j \in Present : j[1] = table}}

Row(text, enabled) == [text |-> text, enabled |-> enabled, present |-> TRUE]

(* The UNIQUE KEY on name.                                                 *)
NameTaken(text, keys) ==
  \E k \in keys : k[1] = text.table /\ rules[k].text.name = text.name

-----------------------------------------------------------------------------
Seeded == [k \in Keys |-> IF k = <<Correlation, 1>> THEN Row(Default, TRUE) ELSE NoRule]

Init ==
  /\ recent = [m \in Matches |-> [g \in Groups |-> [k \in Ages |-> 0]]]
  /\ rules = Seeded
  /\ nextId = [t \in Tables |-> IF t = Correlation THEN 2 ELSE 1]
  /\ firing = [k \in Keys |-> {}]
  /\ pc = "sleep" /\ phase = Correlation
  /\ todo = {} /\ current = NoRow /\ pending = {} /\ still = {}
  /\ noted = [k \in Keys |-> {}] /\ handled = [k \in Keys |-> {}]
  /\ faults = 0

(* History: what was noted of a burst holds as long as the burst lasts.    *)
BurstsGoOn == noted' = [k \in Keys |-> noted[k] \cap Bursting(k)']

(* A log line or a telemetry event is stored.                              *)
Event(m, g) ==
  /\ Within(recent[m][g], Span) < MaxEvents
  /\ recent' = [recent EXCEPT ![m][g][0] = @ + 1]
  /\ UNCHANGED <<ruleVars, firing, loopVars, handled, faults>> /\ BurstsGoOn

Older(ages) == [k \in Ages |-> IF k = 0 THEN 0 ELSE ages[k - 1]]

Tick ==
  /\ recent' = [m \in Matches |-> [g \in Groups |-> Older(recent[m][g])]]
  /\ UNCHANGED <<ruleVars, firing, loopVars, handled, faults>> /\ BurstsGoOn

(* create_correlation_rule and create_telemetry_rule; payload.enabled is   *)
(* not looked at.                                                          *)
Create(text) ==
  LET k == <<text.table, nextId[text.table]>> IN
  /\ k \in Keys /\ ~ NameTaken(text, Present)
  /\ rules' = [rules EXCEPT ![k] = Row(text, TRUE)]
  /\ nextId' = [nextId EXCEPT ![text.table] = @ + 1]
  /\ UNCHANGED <<recent, firing, loopVars, noted, handled, faults>>

(* update_correlation_rule and update_telemetry_rule: all columns at once. *)
Update(k, text, enabled) ==
  /\ k \in Present /\ k[1] = text.table /\ rules[k] # Row(text, enabled)
  /\ ~ NameTaken(text, Present \ {k})
  /\ rules' = [rules EXCEPT ![k] = Row(text, enabled)]
  /\ noted' = [noted EXCEPT ![k] = {}]
  /\ UNCHANGED <<recent, nextId, firing, loopVars, handled, faults>>

Delete(k) ==
  /\ k \in Present
  /\ rules' = [rules EXCEPT ![k] = NoRule]
  /\ noted' = [noted EXCEPT ![k] = {}]
  /\ UNCHANGED <<recent, nextId, firing, loopVars, handled, faults>>

-----------------------------------------------------------------------------
(* The loop.                                                               *)

SameLoop == UNCHANGED <<phase, todo, current, pending, still>>

Sleep == /\ pc' = "sleep" /\ phase' = Correlation
         /\ todo' = {} /\ current' = NoRow /\ pending' = {} /\ still' = {}

Wake ==
  /\ pc = "sleep" /\ pc' = "list" /\ SameLoop
  /\ UNCHANGED <<recent, ruleVars, firing, noted, handled, faults>>

ListRules ==
  /\ pc = "list" /\ pc' = "rule" /\ todo' = Rows(phase)
  /\ UNCHANGED <<phase, current, pending, still>>
  /\ UNCHANGED <<recent, ruleVars, firing, noted, handled, faults>>

(* `continue` leaves the telemetry rules out as well.                      *)
ListFails ==
  /\ pc = "list" /\ Sleep /\ Fault
  /\ UNCHANGED <<recent, ruleVars, firing, noted, handled>>

EndOfRules ==
  /\ pc = "rule" /\ todo = {}
  /\ IF phase = Correlation
     THEN /\ pc' = "list" /\ phase' = Telemetry
          /\ UNCHANGED <<todo, current, pending, still>>
     ELSE Sleep
  /\ UNCHANGED <<recent, ruleVars, firing, noted, handled, faults>>

(* The rows come by id.                                                    *)
First(row) == row \in todo /\ \A other \in todo : row.id <= other.id

(* Two maps, since ids of the two tables are unrelated.                    *)
BugFiringKey(table, id) == <<Correlation, id>>
FiringKey(table, id) == <<table, id>>

BugDropped(k) == firing
Dropped(k) == [firing EXCEPT ![k] = {}]

SkipDisabled(row) ==
  /\ pc = "rule" /\ First(row) /\ ~ row.as.enabled
  /\ todo' = todo \ {row} /\ firing' = Dropped(FiringKey(phase, row.id))
  /\ handled' = [handled EXCEPT ![<<phase, row.id>>] = {}]
  /\ UNCHANGED <<pc, phase, current, pending, still>>
  /\ UNCHANGED <<recent, ruleVars, noted, faults>>

MayQuery(row) == row.as.enabled

QueryHits(row) ==
  LET hits == Hits(row.as.text) IN
  /\ pc = "rule" /\ First(row) /\ MayQuery(row)
  /\ pc' = "alert" /\ current' = row /\ todo' = todo \ {row}
  /\ still' = hits /\ pending' = hits \ firing[FiringKey(phase, row.id)]
  /\ handled' = [handled EXCEPT ![<<phase, row.id>>] = @ \cap hits]
  /\ UNCHANGED <<phase, recent, ruleVars, firing, noted, faults>>

BugAfterError(k) == Dropped(k)
AfterError(k) == firing

QueryFails(row) ==
  /\ pc = "rule" /\ First(row) /\ MayQuery(row) /\ Fault
  /\ todo' = todo \ {row} /\ firing' = AfterError(FiringKey(phase, row.id))
  /\ UNCHANGED <<pc, phase, current, pending, still>>
  /\ UNCHANGED <<recent, ruleVars, noted, handled>>

(* The burst the alert is about may be over, or its rule rewritten.        *)
StillTrue(k, g) == rules[k] = current.as /\ g \in Bursting(k)

(* trigger_alert, which keeps its failures to itself.                      *)
Alert(g) ==
  LET k == <<phase, current.id>> IN
  /\ pc = "alert" /\ g \in pending /\ pending' = pending \ {g}
  /\ handled' = [handled EXCEPT ![k] = @ \cup {g}]
  /\ noted' = IF StillTrue(k, g) THEN [noted EXCEPT ![k] = @ \cup {g}] ELSE noted
  /\ UNCHANGED <<pc, phase, todo, current, still>>
  /\ UNCHANGED <<recent, ruleVars, firing, faults>>

RuleDone ==
  /\ pc = "alert" /\ pending = {} /\ pc' = "rule"
  /\ firing' = [firing EXCEPT ![FiringKey(phase, current.id)] = still]
  /\ current' = NoRow /\ still' = {}
  /\ UNCHANGED <<phase, todo, pending, recent, ruleVars, noted, handled, faults>>

(* A default that is gone, or bears another name, is inserted again.       *)
Reseed ==
  LET k == <<Correlation, nextId[Correlation]>> IN
  IF NameTaken(Default, Present) \/ k \notin Keys
  THEN UNCHANGED ruleVars
  ELSE /\ rules' = [rules EXCEPT ![k] = Row(Default, TRUE)]
       /\ nextId' = [nextId EXCEPT ![Correlation] = @ + 1]

(* The server dies or is stopped, and starts again.                        *)
Restart ==
  /\ Fault /\ Sleep /\ Reseed
  /\ firing' = [k \in Keys |-> {}]
  /\ noted' = [k \in Keys |-> {}] /\ handled' = [k \in Keys |-> {}]
  /\ UNCHANGED recent

Sweep ==
  \/ Wake \/ ListRules \/ EndOfRules \/ RuleDone
  \/ \E row \in todo : SkipDisabled(row) \/ QueryHits(row)
  \/ \E g \in Groups : Alert(g)

Request ==
  \/ \E m \in Matches, g \in Groups : Event(m, g)
  \/ \E text \in RuleTexts : Create(text)
  \/ \E k \in Keys, text \in RuleTexts, enabled \in BOOLEAN : Update(k, text, enabled)
  \/ \E k \in Keys : Delete(k)

Next == Tick \/ Request \/ Sweep \/ ListFails \/ (\E row \in todo : QueryFails(row)) \/ Restart

Spec == Init /\ [][Next]_vars

(* The loop's task is polled as long as the server runs.                   *)
FairSpec == Spec /\ WF_vars(Sweep)

-----------------------------------------------------------------------------
(* Properties.                                                             *)

StoredRule == [text : RuleTexts, enabled : BOOLEAN, present : BOOLEAN]
StoredRow == [id : Nat \ {0}, as : StoredRule]
PerRule == [Keys -> SUBSET Groups]

(* Every variable has its type; rows are there up to nextId; the loop      *)
(* holds one row of each id at most and alerts for an enabled one.         *)
TypeOK ==
  /\ recent \in [Matches -> [Groups -> [Ages -> Nat]]]
  /\ rules \in [Keys -> StoredRule]
  /\ nextId \in [Tables -> Nat \ {0}]
  /\ \A k \in Keys : /\ rules[k].present => k[2] < nextId[k[1]]
                     /\ rules[k].enabled => rules[k].present
                     /\ rules[k].present => rules[k].text.table = k[1]
  /\ firing \in PerRule /\ noted \in PerRule /\ handled \in PerRule
  /\ pc \in {"sleep", "list", "rule", "alert"} /\ phase \in Tables
  /\ todo \subseteq StoredRow /\ current \in StoredRow \cup {NoRow}
  /\ pending \subseteq still /\ still \subseteq Groups
  /\ pc = "alert" <=> current # NoRow
  /\ pc = "alert" => current.as.enabled /\ current \notin todo
  /\ pc \in {"sleep", "list"} => todo = {}
  /\ \A row \in todo : <<phase, row.id>> \in Keys
  /\ pc = "alert" => <<phase, current.id>> \in Keys
  /\ \A row, other \in todo \cup {current} : row.id = other.id => row = other
  /\ faults \in 0 .. MaxFaults

(* "A burst alerts once, not on every check while it's still ongoing":     *)
(* through failing queries, and edits of other rules, no group is alerted  *)
(* on again before its count drops, its rule is edited or the server       *)
(* restarts.                                                               *)
OneAlertPerBurst ==
  [][\A g \in Groups : Alert(g) => g \notin noted[<<phase, current.id>>]]_vars

(* A group over the threshold that a sweep passes over in silence was      *)
(* alerted on by the same rule, and every query since found it over the    *)
(* threshold.                                                              *)
SilentGroupsWereAlerted ==
  pc = "alert" => still \ pending \subseteq handled[<<phase, current.id>>]

(* A burst that lasts is alerted on in the end, through failures, a        *)
(* restart and edits, unless it follows one that was alerted on with no    *)
(* query between the two.                                                  *)
BurstsAlert ==
  \A k \in Keys : \A g \in Groups :
    (g \in Bursting(k)) ~> (g \in handled[k] \/ g \notin Bursting(k))

=============================================================================
