--------------------------- MODULE RuleSweepProofs ---------------------------
(***************************************************************************)
(* Proofs about RuleSweep: type correctness, that a burst is alerted on    *)
(* once, and that only what was alerted on is passed over in silence, for  *)
(* any groups, rules, windows, restarts and failing statements.            *)
(***************************************************************************)
EXTENDS RuleSweep, TLAPS

(* The type invariant in three parts: the tables, the sets kept per rule,  *)
(* and the loop.                                                           *)

TablesTyped ==
  /\ recent \in [Matches -> [Groups -> [Ages -> Nat]]]
  /\ rules \in [Keys -> StoredRule]
  /\ nextId \in [Tables -> Nat \ {0}]
  /\ \A k \in Keys : /\ rules[k].present => k[2] < nextId[k[1]]
                     /\ rules[k].enabled => rules[k].present
                     /\ rules[k].present => rules[k].text.table = k[1]

SetsTyped == firing \in PerRule /\ noted \in PerRule /\ handled \in PerRule

LoopTyped ==
  /\ pc \in {"sleep", "list", "rule", "alert"} /\ phase \in Tables
  /\ todo \subseteq StoredRow /\ current \in StoredRow \cup {NoRow}
  /\ pending \subseteq still /\ still \subseteq Groups
  /\ pc = "alert" <=> current # NoRow
  /\ pc = "alert" => current.as.enabled /\ current \notin todo
  /\ pc \in {"sleep", "list"} => todo = {}
  /\ \A row \in todo : <<phase, row.id>> \in Keys
  /\ pc = "alert" => <<phase, current.id>> \in Keys
  /\ \A row, other \in todo \cup {current} : row.id = other.id => row = other

LEMMA TypeParts ==
  TypeOK <=> TablesTyped /\ SetsTyped /\ LoopTyped /\ faults \in 0 .. MaxFaults
  BY DEF TypeOK, TablesTyped, SetsTyped, LoopTyped

(* Keys, rules and what is stored for them.                                *)
LEMMA Shapes ==
  /\ <<Correlation, 1>> \in Keys
  /\ \A k \in Keys : /\ k[1] \in Tables /\ k[2] \in Nat \ {0}
                     /\ k = <<k[1], k[2]>>
  /\ NoRule \in StoredRule /\ ~ NoRule.enabled /\ ~ NoRule.present
  /\ NoRow \notin StoredRow
  /\ \A text \in RuleTexts : text.table \in Tables /\ text.on \in Matches
  /\ 0 \in Ages
  BY RuleSweepAssumption
  DEF Tables, Correlation, Telemetry, NoRule, NoRow, StoredRule, StoredRow, RuleText, Ages

(* A stored rule is one an admin may write.                                *)
LEMMA RowShape ==
  ASSUME NEW text \in RuleTexts, NEW enabled \in BOOLEAN
  PROVE  /\ Row(text, enabled) \in StoredRule /\ Row(text, enabled).present
         /\ Row(text, enabled).text = text /\ Row(text, enabled).enabled = enabled
  BY DEF Row, StoredRule

LEMMA HitsAreGroups == \A text : Hits(text) \subseteq Groups
  BY DEF Hits

-----------------------------------------------------------------------------
(* Type correctness.                                                       *)

(* Initially only the seeded rule is there.                                *)
LEMMA TypeInit == Init => TypeOK
<1> SUFFICES ASSUME Init PROVE TypeOK
  OBVIOUS
<1>1. Default \in RuleTexts /\ Default.table = Correlation /\ MaxFaults \in Nat
  BY RuleSweepAssumption
<1>2. Row(Default, TRUE) \in StoredRule /\ Row(Default, TRUE).text = Default
  BY <1>1, RowShape
<1>3. TablesTyped
  <2>1. /\ recent \in [Matches -> [Groups -> [Ages -> Nat]]]
        /\ nextId \in [Tables -> Nat \ {0}] /\ nextId[Correlation] = 2
    BY DEF Init, Tables, Correlation, Telemetry
  <2>2. \A k \in Keys : rules[k] = IF k = <<Correlation, 1>> THEN Row(Default, TRUE) ELSE NoRule
    BY DEF Init, Seeded
  <2>3. rules \in [Keys -> StoredRule]
    BY <1>2, Shapes DEF Init, Seeded
  <2>4. ASSUME NEW k \in Keys
        PROVE  /\ rules[k].present => k[2] < nextId[k[1]]
               /\ rules[k].enabled => rules[k].present
               /\ rules[k].present => rules[k].text.table = k[1]
    <3>1. CASE k = <<Correlation, 1>>
      <4>1. rules[k] = Row(Default, TRUE) /\ k[1] = Correlation /\ k[2] = 1
        BY <2>2, <3>1
      <4>2. Row(Default, TRUE).text = Default /\ Row(Default, TRUE).present
        BY <1>1, RowShape
      <4>3. rules[k].text = Default /\ rules[k].present
        BY <4>1, <4>2
      <4>4. k[2] < nextId[k[1]]
        BY <2>1, <4>1
      <4>5. rules[k].text.table = k[1]
        BY <1>1, <4>1, <4>3
      <4> QED
        BY <4>3, <4>4, <4>5
    <3>2. CASE k # <<Correlation, 1>>
      BY <2>2, <3>2, Shapes
    <3> QED
      BY <3>1, <3>2
  <2> QED
    BY <2>1, <2>3, <2>4 DEF TablesTyped
<1>4. SetsTyped
  BY DEF Init, SetsTyped, PerRule
<1>5. LoopTyped
  BY DEF Init, LoopTyped, Tables, Correlation
<1> QED
  BY <1>1, <1>3, <1>4, <1>5, TypeParts DEF Init

(* A new row under the next id of its table.                               *)
LEMMA InsertTypes ==
  ASSUME TablesTyped, NEW text \in RuleTexts,
         LET k == <<text.table, nextId[text.table]>> IN
           /\ k \in Keys
           /\ rules' = [rules EXCEPT ![k] = Row(text, TRUE)]
           /\ nextId' = [nextId EXCEPT ![text.table] = @ + 1],
         UNCHANGED recent
  PROVE  TablesTyped'
<1> DEFINE k == <<text.table, nextId[text.table]>>
<1>1. text.table \in Tables /\ k \in Keys /\ k[1] = text.table /\ k[2] = nextId[text.table]
  BY Shapes
<1>2. Row(text, TRUE) \in StoredRule /\ Row(text, TRUE).text = text
  BY RowShape
<1>3. /\ nextId' \in [Tables -> Nat \ {0}]
      /\ \A t \in Tables : nextId[t] <= nextId'[t]
      /\ k[2] < nextId'[k[1]]
  BY <1>1 DEF TablesTyped
<1>4. rules' \in [Keys -> StoredRule]
  BY <1>1, <1>2 DEF TablesTyped
<1>5. ASSUME NEW j \in Keys
      PROVE  /\ rules'[j].present => j[2] < nextId'[j[1]]
             /\ rules'[j].enabled => rules'[j].present
             /\ rules'[j].present => rules'[j].text.table = j[1]
  <2>1. CASE j = k
    <3>1. rules'[j] = Row(text, TRUE)
      BY <1>1, <2>1 DEF TablesTyped
    <3> QED
      BY <1>1, <1>2, <1>3, <2>1, <3>1, RowShape
  <2>2. CASE j # k
    <3>1. rules'[j] = rules[j]
      BY <1>1, <2>2 DEF TablesTyped
    <3>2. j[1] \in Tables /\ j[2] \in Nat
      BY Shapes
    <3>3. nextId[j[1]] \in Nat /\ nextId'[j[1]] \in Nat /\ nextId[j[1]] <= nextId'[j[1]]
      BY <1>3, <3>2 DEF TablesTyped
    <3>4. /\ rules[j].present => j[2] < nextId[j[1]]
          /\ rules[j].enabled => rules[j].present
          /\ rules[j].present => rules[j].text.table = j[1]
      BY DEF TablesTyped
    <3>5. rules[j].present => j[2] < nextId'[j[1]]
      BY <3>2, <3>3, <3>4
    <3> QED
      BY <3>1, <3>4, <3>5
  <2> QED
    BY <2>1, <2>2
<1> QED
  BY <1>3, <1>4, <1>5 DEF TablesTyped

(* Every request and every passing minute keeps the tables' types.         *)
LEMMA TablesStep == TypeOK /\ [Next]_vars => TablesTyped'
<1> SUFFICES ASSUME TypeOK, [Next]_vars PROVE TablesTyped'
  OBVIOUS
<1>0. TablesTyped
  BY TypeParts
<1>1. ASSUME NEW m \in Matches, NEW g \in Groups, Event(m, g) PROVE TablesTyped'
  <2>1. recent' \in [Matches -> [Groups -> [Ages -> Nat]]]
    BY <1>0, <1>1, Shapes DEF Event, TablesTyped
  <2> QED
    BY <1>0, <1>1, <2>1 DEF Event, TablesTyped, ruleVars
<1>2. CASE Tick
  <2>1. ASSUME NEW ages \in [Ages -> Nat] PROVE Older(ages) \in [Ages -> Nat]
    <3>1. \A k \in Ages : k # 0 => k - 1 \in Ages
      BY RuleSweepAssumption DEF Ages
    <3> QED
      BY <3>1 DEF Older
  <2>2. recent' \in [Matches -> [Groups -> [Ages -> Nat]]]
    BY <1>0, <1>2, <2>1 DEF Tick, TablesTyped
  <2> QED
    BY <1>0, <1>2, <2>2 DEF Tick, TablesTyped, ruleVars
<1>3. ASSUME NEW text \in RuleTexts, Create(text) PROVE TablesTyped'
  BY <1>0, <1>3, InsertTypes DEF Create
<1>4. ASSUME NEW k \in Keys, NEW text \in RuleTexts, NEW enabled \in BOOLEAN,
             Update(k, text, enabled)
      PROVE  TablesTyped'
  <2>1. /\ Row(text, enabled) \in StoredRule /\ Row(text, enabled).text = text
        /\ Row(text, enabled).present
    BY RowShape
  <2> QED
    BY <1>0, <1>4, <2>1 DEF Update, Present, TablesTyped
<1>5. ASSUME NEW k \in Keys, Delete(k) PROVE TablesTyped'
  BY <1>0, <1>5, Shapes DEF Delete, TablesTyped
<1>6. CASE Restart
  <2>1. CASE UNCHANGED ruleVars
    BY <1>0, <1>6, <2>1 DEF Restart, TablesTyped, ruleVars
  <2>2. CASE ~ UNCHANGED ruleVars
    BY <1>0, <1>6, <2>2, InsertTypes, RuleSweepAssumption DEF Restart, Reseed
  <2> QED
    BY <2>1, <2>2
<1>7. CASE Sweep \/ ListFails \/ \E row \in todo : QueryFails(row)
  <2>1. UNCHANGED <<recent, ruleVars>>
    BY <1>7, Zenon DEF Sweep, Wake, ListRules, EndOfRules, RuleDone, SkipDisabled, QueryHits,
                Alert, ListFails, QueryFails, ruleVars
  <2> QED
    BY <1>0, <2>1 DEF TablesTyped, ruleVars
<1>8. CASE UNCHANGED vars
  BY <1>0, <1>8 DEF vars, TablesTyped
<1> QED
  BY <1>1, <1>2, <1>3, <1>4, <1>5, <1>6, <1>7, <1>8 DEF Next, Request

(* The rows ListRules reads are as the table holds them.                   *)
LEMMA RowsShape ==
  ASSUME TablesTyped, NEW t \in Tables
  PROVE  /\ Rows(t) \subseteq StoredRow
         /\ \A row \in Rows(t) : <<t, row.id>> \in Keys /\ row.as = rules[<<t, row.id>>]
         /\ \A row, other \in Rows(t) : row.id = other.id => row = other
<1>1. ASSUME NEW row \in Rows(t)
      PROVE  /\ row.id \in Nat \ {0} /\ <<t, row.id>> \in Keys
             /\ row.as = rules[<<t, row.id>>]
             /\ row = [id |-> row.id, as |-> row.as]
  <2>1. PICK k \in Keys : k[1] = t /\ row = [id |-> k[2], as |-> rules[k]]
    BY DEF Rows, Present
  <2>2. k = <<t, row.id>> /\ row.id \in Nat \ {0}
    BY <2>1, Shapes
  <2> QED
    BY <2>1, <2>2
<1>2. \A row \in Rows(t) : row.as \in StoredRule
  BY <1>1 DEF TablesTyped
<1>3. ASSUME NEW row \in Rows(t) PROVE row \in StoredRow
  <2>1. row.id \in Nat \ {0} /\ row.as \in StoredRule
    BY <1>1, <1>2
  <2>2. [id |-> row.id, as |-> row.as] \in StoredRow
    BY <2>1 DEF StoredRow
  <2> QED
    BY <1>1, <2>2
<1>4. ASSUME NEW row \in Rows(t), NEW other \in Rows(t), row.id = other.id PROVE row = other
  BY <1>1, <1>4
<1> QED
  BY <1>1, <1>3, <1>4

(* An idle loop holds nothing.                                             *)
LEMMA SleepTypes == Sleep => LoopTyped'
  BY DEF Sleep, LoopTyped, Tables

(* The row in hand is a row that was read.                                 *)
LEMMA InHand ==
  ASSUME LoopTyped, pc = "alert"
  PROVE  /\ current \in StoredRow /\ <<phase, current.id>> \in Keys
         /\ \A row \in todo : row.id # current.id
  BY DEF LoopTyped

(* Every step of the loop keeps its types.                                 *)
LEMMA LoopStep == TypeOK /\ [Next]_vars => LoopTyped'
<1> SUFFICES ASSUME TypeOK, [Next]_vars PROVE LoopTyped'
  OBVIOUS
<1>0. TablesTyped /\ LoopTyped
  BY TypeParts
<1>1. CASE Tick \/ Request \/ UNCHANGED vars
  <2>1. UNCHANGED loopVars
    BY <1>1, Zenon DEF Tick, Request, Event, Create, Update, Delete, vars, loopVars
  <2> QED
    BY <1>0, <2>1 DEF loopVars, LoopTyped
<1>2. CASE Wake
  BY <1>0, <1>2 DEF Wake, SameLoop, LoopTyped
<1>3. CASE ListRules
  <2>1. todo' = Rows(phase) /\ phase \in Tables /\ current = NoRow
    BY <1>0, <1>3 DEF ListRules, LoopTyped
  <2>2. \A row \in todo' : row \in StoredRow /\ <<phase, row.id>> \in Keys /\ row.id # 0
    BY <1>0, <2>1, RowsShape DEF StoredRow
  <2>3. NoRow.id = 0
    BY DEF NoRow
  <2>4. \A row, other \in todo' \cup {NoRow} : row.id = other.id => row = other
    BY <1>0, <2>1, <2>2, <2>3, RowsShape
  <2> QED
    BY <1>0, <1>3, <2>1, <2>2, <2>4 DEF ListRules, LoopTyped
<1>4. CASE ListFails
  BY <1>4, SleepTypes DEF ListFails
<1>5. CASE EndOfRules
  <2>1. CASE phase = Correlation
    BY <1>0, <1>5, <2>1 DEF EndOfRules, LoopTyped, Tables
  <2>2. CASE phase # Correlation
    BY <1>5, <2>2, SleepTypes DEF EndOfRules
  <2> QED
    BY <2>1, <2>2
<1>6. ASSUME NEW row \in todo, SkipDisabled(row) \/ QueryFails(row) PROVE LoopTyped'
  <2>1. todo' = todo \ {row} /\ UNCHANGED <<pc, phase, current, pending, still>>
    BY <1>6 DEF SkipDisabled, QueryFails
  <2> QED
    BY <1>0, <2>1 DEF LoopTyped
<1>7. ASSUME NEW row \in todo, QueryHits(row) PROVE LoopTyped'
  <2>1. /\ pc = "rule" /\ pc' = "alert" /\ current' = row /\ todo' = todo \ {row}
        /\ still' \subseteq Groups /\ pending' \subseteq still' /\ phase' = phase
        /\ row.as.enabled
    BY <1>7, HitsAreGroups DEF QueryHits, MayQuery
  <2>2. row \in StoredRow /\ row # NoRow /\ <<phase, row.id>> \in Keys
    BY <1>0, Shapes DEF LoopTyped
  <2>3. \A r, other \in todo' \cup {current'} : r.id = other.id => r = other
    BY <1>0, <2>1 DEF LoopTyped
  <2> QED
    BY <1>0, <2>1, <2>2, <2>3 DEF LoopTyped
<1>8. ASSUME NEW g \in Groups, Alert(g) PROVE LoopTyped'
  <2>1. pending' \subseteq pending /\ UNCHANGED <<pc, phase, todo, current, still>>
    BY <1>8 DEF Alert
  <2> QED
    BY <1>0, <2>1 DEF LoopTyped
<1>9. CASE RuleDone
  <2>1. /\ pc' = "rule" /\ current' = NoRow /\ still' = {} /\ pending' = {}
        /\ UNCHANGED <<phase, todo>>
    BY <1>9 DEF RuleDone
  <2>2. \A row \in todo : row.id # NoRow.id
    BY <1>0 DEF LoopTyped, StoredRow, NoRow
  <2>3. \A r, other \in todo' \cup {current'} : r.id = other.id => r = other
    BY <1>0, <2>1, <2>2 DEF LoopTyped
  <2> QED
    BY <1>0, <2>1, <2>3 DEF LoopTyped
<1>10. CASE Restart
  BY <1>10, SleepTypes DEF Restart
<1> QED
  BY <1>1, <1>2, <1>3, <1>4, <1>5, <1>6, <1>7, <1>8, <1>9, <1>10 DEF Next, Sweep

(* The sets kept per rule stay sets of groups.                             *)
LEMMA SetsStep == TypeOK /\ [Next]_vars => SetsTyped'
<1> SUFFICES ASSUME TypeOK, [Next]_vars PROVE SetsTyped'
  OBVIOUS
<1>0. SetsTyped /\ LoopTyped
  BY TypeParts
<1>1. ASSUME NEW m \in Matches, NEW g \in Groups, Event(m, g) PROVE SetsTyped'
  BY <1>0, <1>1 DEF Event, BurstsGoOn, SetsTyped, PerRule
<1>2. CASE Tick
  BY <1>0, <1>2 DEF Tick, BurstsGoOn, SetsTyped, PerRule
<1>3. ASSUME NEW text \in RuleTexts, Create(text) PROVE SetsTyped'
  BY <1>0, <1>3 DEF Create, SetsTyped
<1>4. ASSUME NEW k \in Keys, NEW text \in RuleTexts, NEW enabled \in BOOLEAN,
             Update(k, text, enabled)
      PROVE  SetsTyped'
  BY <1>0, <1>4 DEF Update, SetsTyped, PerRule
<1>d. ASSUME NEW k \in Keys, Delete(k) PROVE SetsTyped'
  BY <1>0, <1>d DEF Delete, SetsTyped, PerRule
<1>5. CASE Wake \/ ListRules \/ EndOfRules \/ ListFails \/ UNCHANGED vars
  <2>1. UNCHANGED <<firing, noted, handled>>
    BY <1>5, Zenon DEF Wake, ListRules, EndOfRules, ListFails, vars
  <2> QED
    BY <1>0, <2>1 DEF SetsTyped
<1>6. ASSUME NEW row \in todo, SkipDisabled(row) PROVE SetsTyped'
  BY <1>0, <1>6 DEF SkipDisabled, Dropped, FiringKey, SetsTyped, PerRule
<1>7. ASSUME NEW row \in todo, QueryHits(row) PROVE SetsTyped'
  BY <1>0, <1>7 DEF QueryHits, SetsTyped, PerRule
<1>8. ASSUME NEW row \in todo, QueryFails(row) PROVE SetsTyped'
  BY <1>0, <1>8 DEF QueryFails, AfterError, SetsTyped
<1>9. ASSUME NEW g \in Groups, Alert(g) PROVE SetsTyped'
  BY <1>0, <1>9 DEF Alert, SetsTyped, PerRule
<1>10. CASE RuleDone
  BY <1>0, <1>10 DEF RuleDone, FiringKey, SetsTyped, LoopTyped, PerRule
<1>11. CASE Restart
  BY <1>11 DEF Restart, SetsTyped, PerRule
<1> QED
  BY <1>1, <1>2, <1>3, <1>4, <1>d, <1>5, <1>6, <1>7, <1>8, <1>9, <1>10, <1>11
  DEF Next, Request, Sweep

LEMMA FaultsStep == TypeOK /\ [Next]_vars => faults' \in 0 .. MaxFaults
<1> SUFFICES ASSUME TypeOK, [Next]_vars PROVE faults' \in 0 .. MaxFaults
  OBVIOUS
<1>1. faults \in 0 .. MaxFaults /\ MaxFaults \in Nat
  BY RuleSweepAssumption, TypeParts
<1>2. UNCHANGED faults \/ Fault
  BY Zenon DEF Next, Tick, Request, Event, Create, Update, Delete, Sweep, Wake, ListRules,
     EndOfRules, RuleDone, SkipDisabled, QueryHits, Alert, ListFails, QueryFails, Restart, vars
<1> QED
  BY <1>1, <1>2 DEF Fault

LEMMA TypeStep == TypeOK /\ [Next]_vars => TypeOK'
<1> SUFFICES ASSUME TypeOK, [Next]_vars PROVE TypeOK'
  OBVIOUS
<1>1. TablesTyped' /\ SetsTyped' /\ LoopTyped' /\ faults' \in 0 .. MaxFaults
  BY TablesStep, SetsStep, LoopStep, FaultsStep
<1> QED
  BY <1>1 DEF TypeOK, TablesTyped, SetsTyped, LoopTyped

(* Every variable keeps its type, whatever the constants.                  *)
THEOREM TypeCorrect == Spec => []TypeOK
  BY TypeInit, TypeStep, PTL DEF Spec

-----------------------------------------------------------------------------
(* Silence has a cause.                                                    *)

InHandOf(k) == pc = "alert" /\ k = <<phase, current.id>>

(* While the loop is not at a rule, what that rule's set of firing groups  *)
(* holds was alerted on.  At the rule, what it found before and finds      *)
(* again was.                                                              *)
FiringHandled == \A k \in Keys : ~ InHandOf(k) => firing[k] \subseteq handled[k]

SilenceInv == TypeOK /\ SilentGroupsWereAlerted /\ FiringHandled

LEMMA SilenceInit == Init => SilentGroupsWereAlerted /\ FiringHandled
  BY DEF Init, SilentGroupsWereAlerted, FiringHandled

LEMMA SilenceStep == SilenceInv /\ [Next]_vars => (SilentGroupsWereAlerted /\ FiringHandled)'
<1> SUFFICES ASSUME SilenceInv, [Next]_vars PROVE (SilentGroupsWereAlerted /\ FiringHandled)'
  OBVIOUS
<1>0. SetsTyped /\ LoopTyped /\ SilentGroupsWereAlerted /\ FiringHandled
  BY TypeParts DEF SilenceInv
<1>1. CASE Tick \/ Request \/ UNCHANGED vars
  <2>1. UNCHANGED <<firing, handled, loopVars>>
    BY <1>1, Zenon DEF Tick, Request, Event, Create, Update, Delete, vars, loopVars
  <2> QED
    BY <1>0, <2>1 DEF loopVars, SilentGroupsWereAlerted, FiringHandled, InHandOf
<1>2. CASE Wake \/ ListRules \/ ListFails \/ EndOfRules
  <2>1. pc # "alert" /\ pc' # "alert" /\ UNCHANGED <<firing, handled>>
    BY <1>2 DEF Wake, ListRules, ListFails, EndOfRules, Sleep
  <2> QED
    BY <1>0, <2>1 DEF SilentGroupsWereAlerted, FiringHandled, InHandOf
<1>3. ASSUME NEW row \in todo, SkipDisabled(row)
      PROVE  (SilentGroupsWereAlerted /\ FiringHandled)'
  <2>1. /\ pc = "rule" /\ pc' = "rule" /\ <<phase, row.id>> \in Keys
        /\ firing' = [firing EXCEPT ![<<phase, row.id>>] = {}]
        /\ handled' = [handled EXCEPT ![<<phase, row.id>>] = {}]
    BY <1>0, <1>3 DEF SkipDisabled, Dropped, FiringKey, LoopTyped
  <2> QED
    BY <1>0, <2>1 DEF SilentGroupsWereAlerted, FiringHandled, InHandOf, SetsTyped, PerRule
<1>4. ASSUME NEW row \in todo, QueryHits(row)
      PROVE  (SilentGroupsWereAlerted /\ FiringHandled)'
  <2> DEFINE key == <<phase, row.id>>
             hits == Hits(row.as.text)
  <2>1. /\ pc = "rule" /\ pc' = "alert" /\ current' = row /\ phase' = phase /\ key \in Keys
        /\ still' = hits /\ pending' = hits \ firing[key]
        /\ firing' = firing /\ handled' = [handled EXCEPT ![key] = @ \cap hits]
    BY <1>0, <1>4 DEF QueryHits, FiringKey, LoopTyped
  <2> HIDE DEF hits
  <2>2. \A k \in Keys : firing[k] \subseteq handled[k]
    BY <1>0, <2>1 DEF FiringHandled, InHandOf
  <2>3. SilentGroupsWereAlerted'
    BY <1>0, <2>1, <2>2 DEF SilentGroupsWereAlerted, SetsTyped, PerRule
  <2>4. FiringHandled'
    BY <1>0, <2>1, <2>2 DEF FiringHandled, InHandOf, SetsTyped, PerRule
  <2> QED
    BY <2>3, <2>4
<1>5. ASSUME NEW row \in todo, QueryFails(row)
      PROVE  (SilentGroupsWereAlerted /\ FiringHandled)'
  <2>1. pc # "alert" /\ pc' # "alert" /\ UNCHANGED <<firing, handled>>
    BY <1>5 DEF QueryFails, AfterError
  <2> QED
    BY <1>0, <2>1 DEF SilentGroupsWereAlerted, FiringHandled, InHandOf
<1>6. ASSUME NEW g \in Groups, Alert(g) PROVE (SilentGroupsWereAlerted /\ FiringHandled)'
  <2>1. /\ pc = "alert" /\ pending' = pending \ {g} /\ <<phase, current.id>> \in Keys
        /\ UNCHANGED <<pc, phase, current, still, firing>>
        /\ handled' = [handled EXCEPT ![<<phase, current.id>>] = @ \cup {g}]
    BY <1>0, <1>6 DEF Alert, LoopTyped
  <2>2. SilentGroupsWereAlerted'
    BY <1>0, <2>1 DEF SilentGroupsWereAlerted, SetsTyped, PerRule
  <2>3. FiringHandled'
    BY <1>0, <2>1 DEF FiringHandled, InHandOf, SetsTyped, PerRule
  <2> QED
    BY <2>2, <2>3
<1>7. CASE RuleDone
  <2>1. /\ pc = "alert" /\ pending = {} /\ pc' = "rule" /\ <<phase, current.id>> \in Keys
        /\ firing' = [firing EXCEPT ![<<phase, current.id>>] = still] /\ handled' = handled
    BY <1>0, <1>7 DEF RuleDone, FiringKey, LoopTyped
  <2> QED
    BY <1>0, <2>1 DEF SilentGroupsWereAlerted, FiringHandled, InHandOf, SetsTyped, PerRule
<1>8. CASE Restart
  BY <1>8 DEF Restart, Sleep, SilentGroupsWereAlerted, FiringHandled
<1> QED
  BY <1>1, <1>2, <1>3, <1>4, <1>5, <1>6, <1>7, <1>8 DEF Next, Sweep

(* A sweep is silent about a group over the threshold only if this rule    *)
(* alerted on it and no query has found it below the threshold since:      *)
(* neither a rule of the other table with the same id, nor a disabled      *)
(* time, nor a failing query makes it silent.                              *)
THEOREM SilenceJustified == Spec => []SilentGroupsWereAlerted
<1>1. Init => SilenceInv
  BY TypeInit, SilenceInit DEF SilenceInv
<1>2. SilenceInv /\ [Next]_vars => SilenceInv'
  BY TypeStep, SilenceStep DEF SilenceInv
<1>3. SilenceInv => SilentGroupsWereAlerted
  BY DEF SilenceInv
<1> QED
  BY <1>1, <1>2, <1>3, PTL DEF Spec

-----------------------------------------------------------------------------
(* A burst is alerted on once.                                             *)

NotedBursts == \A k \in Keys : noted[k] \subseteq Bursting(k)

(* What was noted is what the loop will not alert on: it is in firing, or, *)
(* for the rule in hand, it was found and is no longer pending.            *)
NotedSilent ==
  \A k \in Keys : noted[k] \subseteq (IF InHandOf(k) THEN still \ pending ELSE firing[k])

(* A row rewritten after the loop read it has nothing noted: the burst of  *)
(* the rule as it is now was not looked at.                                *)
StaleRowsUnnoted ==
  \A row \in todo \cup {current} :
    LET k == <<phase, row.id>> IN row # NoRow /\ rules[k] # row.as => noted[k] = {}

BurstInv == TypeOK /\ NotedBursts /\ NotedSilent /\ StaleRowsUnnoted

LEMMA BurstInit == Init => NotedBursts /\ NotedSilent /\ StaleRowsUnnoted
<1> SUFFICES ASSUME Init PROVE NotedBursts /\ NotedSilent /\ StaleRowsUnnoted
  OBVIOUS
<1>1. \A k \in Keys : noted[k] = {}
  BY DEF Init
<1>2. todo = {} /\ current = NoRow
  BY DEF Init
<1> QED
  BY <1>1, <1>2 DEF NotedBursts, NotedSilent, StaleRowsUnnoted

(* What a row in the loop's hands matches is what its rule matches, or     *)
(* nothing is noted.                                                       *)
LEMMA NotedMatchesRow ==
  ASSUME BurstInv, NEW row \in todo
  PROVE  /\ <<phase, row.id>> \in Keys
         /\ noted[<<phase, row.id>>] \subseteq (IF row.as.enabled THEN Hits(row.as.text) ELSE {})
<1> DEFINE k == <<phase, row.id>>
<1>1. k \in Keys /\ row # NoRow
  BY TypeParts, Shapes DEF BurstInv, LoopTyped
<1>2. CASE rules[k] # row.as
  BY <1>1, <1>2 DEF BurstInv, StaleRowsUnnoted
<1>3. CASE rules[k] = row.as
  BY <1>1, <1>3 DEF BurstInv, NotedBursts, Bursting
<1> QED
  BY <1>1, <1>2, <1>3

(* Steps that change neither the loop nor what is firing, and take away    *)
(* what is noted of the rules they rewrite.                                *)
LEMMA OutsideTheLoop ==
  ASSUME BurstInv, UNCHANGED <<loopVars, firing>>,
         \A k \in Keys : /\ noted'[k] \subseteq noted[k]
                         /\ noted'[k] = {} \/ rules'[k] = rules[k]
  PROVE  (NotedSilent /\ StaleRowsUnnoted)'
<1>1. NotedSilent'
  BY DEF BurstInv, NotedSilent, InHandOf, loopVars
<1>2. ASSUME NEW row \in todo \cup {current}, row # NoRow
      PROVE  LET k == <<phase, row.id>> IN rules'[k] # row.as => noted'[k] = {}
  <2>1. <<phase, row.id>> \in Keys
    BY <1>2, TypeParts DEF BurstInv, LoopTyped
  <2> QED
    BY <1>2, <2>1 DEF BurstInv, StaleRowsUnnoted
<1> QED
  BY <1>1, <1>2 DEF StaleRowsUnnoted, loopVars

(* Nothing is noted under a key that no row has yet.                       *)
LEMMA NothingNotedWithoutRule ==
  ASSUME BurstInv, NEW k \in Keys, ~ rules[k].present PROVE noted[k] = {}
<1>1. ~ rules[k].enabled
  BY TypeParts DEF BurstInv, TablesTyped
<1> QED
  BY <1>1 DEF BurstInv, NotedBursts, Bursting

(* A new row appears under a key that nothing is noted of.                 *)
LEMMA InsertUnnoted ==
  ASSUME BurstInv, NEW k \in Keys, k[2] = nextId[k[1]] PROVE noted[k] = {}
<1>1. ~ rules[k].present
  <2>1. k[1] \in Tables /\ k[2] \in Nat
    BY Shapes
  <2>2. rules[k].present => k[2] < nextId[k[1]]
    BY TypeParts DEF BurstInv, TablesTyped
  <2> QED
    BY <2>1, <2>2
<1> QED
  BY <1>1, NothingNotedWithoutRule

(* Requests and the passing of time.                                       *)
LEMMA BurstOutside ==
  ASSUME BurstInv, Tick \/ Request PROVE (NotedBursts /\ NotedSilent /\ StaleRowsUnnoted)'
<1>0. TablesTyped /\ SetsTyped
  BY TypeParts DEF BurstInv
<1>1. CASE Tick \/ \E m \in Matches, g \in Groups : Event(m, g)
  <2>1. UNCHANGED <<loopVars, firing, rules>> /\ BurstsGoOn
    BY <1>1 DEF Tick, Event, ruleVars
  <2>2. NotedBursts'
    BY <2>1 DEF BurstsGoOn, NotedBursts
  <2>3. \A k \in Keys : noted'[k] \subseteq noted[k]
    BY <2>1 DEF BurstsGoOn
  <2> QED
    BY <2>1, <2>2, <2>3, OutsideTheLoop
<1>2. ASSUME NEW text \in RuleTexts, Create(text)
      PROVE  (NotedBursts /\ NotedSilent /\ StaleRowsUnnoted)'
  <2> DEFINE new == <<text.table, nextId[text.table]>>
  <2>1. /\ UNCHANGED <<loopVars, firing, noted, recent>> /\ new \in Keys
        /\ rules' = [rules EXCEPT ![new] = Row(text, TRUE)]
    BY <1>2 DEF Create
  <2>2. noted[new] = {}
    BY <2>1, InsertUnnoted
  <2>3. \A k \in Keys : k # new => rules'[k] = rules[k]
    BY <1>0, <2>1 DEF TablesTyped
  <2> HIDE DEF new
  <2>4. NotedBursts'
    BY <2>1, <2>2, <2>3 DEF BurstInv, NotedBursts, Bursting, Hits
  <2>5. \A k \in Keys : /\ noted'[k] \subseteq noted[k]
                        /\ noted'[k] = {} \/ rules'[k] = rules[k]
    BY <2>1, <2>2, <2>3
  <2> QED
    BY <2>1, <2>4, <2>5, OutsideTheLoop
<1>3. ASSUME NEW key \in Keys, Delete(key) \/
               \E text \in RuleTexts, enabled \in BOOLEAN : Update(key, text, enabled)
      PROVE  (NotedBursts /\ NotedSilent /\ StaleRowsUnnoted)'
  <2>1. /\ UNCHANGED <<loopVars, firing, recent>>
        /\ noted' = [noted EXCEPT ![key] = {}]
        /\ \E row : rules' = [rules EXCEPT ![key] = row]
    BY <1>3, Zenon DEF Delete, Update
  <2>2. \A k \in Keys : /\ k = key => noted'[k] = {}
                        /\ k # key => noted'[k] = noted[k] /\ rules'[k] = rules[k]
    BY <1>0, <2>1 DEF TablesTyped, SetsTyped, PerRule
  <2>3. NotedBursts'
    BY <2>1, <2>2 DEF BurstInv, NotedBursts, Bursting, Hits
  <2>4. \A k \in Keys : /\ noted'[k] \subseteq noted[k]
                        /\ noted'[k] = {} \/ rules'[k] = rules[k]
    BY <2>2
  <2> QED
    BY <2>1, <2>3, <2>4, OutsideTheLoop
<1> QED
  BY <1>1, <1>2, <1>3, Zenon DEF Request

(* The loop's own steps change neither tables nor events.                  *)
LEMMA BurstStep == BurstInv /\ [Next]_vars => (NotedBursts /\ NotedSilent /\ StaleRowsUnnoted)'
<1> SUFFICES ASSUME BurstInv, [Next]_vars
             PROVE  (NotedBursts /\ NotedSilent /\ StaleRowsUnnoted)'
  OBVIOUS
<1>0. /\ TablesTyped /\ SetsTyped /\ LoopTyped
      /\ NotedBursts /\ NotedSilent /\ StaleRowsUnnoted
  BY TypeParts DEF BurstInv
<1>s. ASSUME UNCHANGED <<recent, rules, noted>> PROVE NotedBursts'
  BY <1>0, <1>s DEF NotedBursts, Bursting, Hits
<1>1. CASE UNCHANGED vars
  <2>1. UNCHANGED <<loopVars, firing, recent, rules, noted>>
    BY <1>1 DEF vars, loopVars
  <2> QED
    BY <1>s, <2>1, OutsideTheLoop
<1>2. CASE Wake \/ ListFails \/ EndOfRules
  <2>1. /\ pc # "alert" /\ pc' # "alert" /\ UNCHANGED <<recent, rules, firing, noted>>
        /\ todo' = {} /\ current' = NoRow
    BY <1>0, <1>2 DEF Wake, SameLoop, ListFails, EndOfRules, Sleep, LoopTyped, ruleVars
  <2> QED
    BY <1>0, <1>s, <2>1 DEF NotedSilent, InHandOf, StaleRowsUnnoted
<1>3. CASE ListRules
  <2>1. /\ pc # "alert" /\ pc' # "alert" /\ UNCHANGED <<recent, rules, firing, noted>>
        /\ todo' = Rows(phase) /\ current' = NoRow /\ phase' = phase /\ phase \in Tables
    BY <1>0, <1>3 DEF ListRules, LoopTyped, ruleVars
  <2>2. \A row \in todo' : row.as = rules'[<<phase, row.id>>]
    BY <1>0, <2>1, RowsShape
  <2> QED
    BY <1>0, <1>s, <2>1, <2>2 DEF NotedSilent, InHandOf, StaleRowsUnnoted
<1>4. ASSUME NEW row \in todo, SkipDisabled(row) \/ QueryFails(row)
      PROVE  (NotedBursts /\ NotedSilent /\ StaleRowsUnnoted)'
  <2>1. /\ pc = "rule" /\ pc' = "rule" /\ UNCHANGED <<recent, rules, noted, current, phase>>
        /\ todo' \subseteq todo /\ <<phase, row.id>> \in Keys
    BY <1>0, <1>4 DEF SkipDisabled, QueryFails, ruleVars, LoopTyped
  <2>2. \A k \in Keys : noted[k] \subseteq firing'[k]
    <3>1. CASE SkipDisabled(row)
      <4>1. /\ firing' = [firing EXCEPT ![<<phase, row.id>>] = {}]
            /\ noted[<<phase, row.id>>] = {}
        BY <3>1, NotedMatchesRow DEF SkipDisabled, Dropped, FiringKey
      <4> QED
        BY <1>0, <2>1, <4>1 DEF NotedSilent, InHandOf, SetsTyped, PerRule
    <3>2. CASE QueryFails(row)
      BY <1>0, <2>1, <3>2 DEF QueryFails, AfterError, NotedSilent, InHandOf
    <3> QED
      BY <1>4, <3>1, <3>2
  <2> QED
    BY <1>0, <1>s, <2>1, <2>2 DEF NotedSilent, InHandOf, StaleRowsUnnoted
<1>5. ASSUME NEW row \in todo, QueryHits(row)
      PROVE  (NotedBursts /\ NotedSilent /\ StaleRowsUnnoted)'
  <2> DEFINE key == <<phase, row.id>>
             hits == Hits(row.as.text)
  <2>1. /\ pc = "rule" /\ pc' = "alert" /\ UNCHANGED <<recent, rules, noted, firing, phase>>
        /\ current' = row /\ todo' \subseteq todo /\ key \in Keys
        /\ still' = hits /\ pending' = hits \ firing[key]
    BY <1>0, <1>5 DEF QueryHits, FiringKey, LoopTyped, ruleVars
  <2>2. noted[key] \subseteq hits
    BY NotedMatchesRow
  <2> HIDE DEF hits
  <2>3. NotedSilent'
    BY <1>0, <2>1, <2>2 DEF NotedSilent, InHandOf
  <2>4. StaleRowsUnnoted'
    BY <1>0, <2>1 DEF StaleRowsUnnoted
  <2> QED
    BY <1>s, <2>1, <2>3, <2>4
<1>6. ASSUME NEW g \in Groups, Alert(g) PROVE (NotedBursts /\ NotedSilent /\ StaleRowsUnnoted)'
  <2> DEFINE key == <<phase, current.id>>
  <2>1. /\ pc = "alert" /\ g \in pending /\ pending' = pending \ {g}
        /\ UNCHANGED <<pc, phase, todo, current, still, firing, recent, rules>>
        /\ noted' = IF StillTrue(key, g) THEN [noted EXCEPT ![key] = @ \cup {g}] ELSE noted
    BY <1>6 DEF Alert, ruleVars
  <2>2. /\ key \in Keys /\ g \in still /\ g \notin noted[key]
        /\ \A row \in todo : row.id # current.id
    BY <1>0, <2>1, InHand DEF LoopTyped, NotedSilent, InHandOf
  <2>3. \A k \in Keys : k # key => noted'[k] = noted[k]
    BY <1>0, <2>1, <2>2 DEF SetsTyped, PerRule
  <2>4. CASE ~ StillTrue(key, g)
    <3>1. noted' = noted
      BY <2>1, <2>4
    <3> QED
      BY <1>0, <1>s, <2>1, <2>2, <3>1 DEF NotedSilent, InHandOf, StaleRowsUnnoted
  <2>5. CASE StillTrue(key, g)
    <3>1. /\ noted'[key] = noted[key] \cup {g} /\ g \in Bursting(key)
          /\ rules[key] = current.as
      BY <1>0, <2>1, <2>2, <2>5 DEF SetsTyped, PerRule, StillTrue
    <3>2. \A k \in Keys : Bursting(k)' = Bursting(k)
      BY <2>1 DEF Bursting, Hits
    <3>3. NotedBursts'
      BY <1>0, <2>3, <3>1, <3>2 DEF NotedBursts
    <3>4. NotedSilent'
      BY <1>0, <2>1, <2>2, <2>3, <3>1 DEF NotedSilent, InHandOf
    <3>5. \A row \in todo : <<phase, row.id>> \in Keys /\ <<phase, row.id>> # key
      BY <1>0, <2>2 DEF LoopTyped
    <3>6. StaleRowsUnnoted'
      BY <1>0, <2>1, <2>3, <3>1, <3>5 DEF StaleRowsUnnoted
    <3> QED
      BY <3>3, <3>4, <3>6
  <2> QED
    BY <2>4, <2>5
<1>7. CASE RuleDone
  <2>1. /\ pc = "alert" /\ pending = {} /\ pc' = "rule" /\ <<phase, current.id>> \in Keys
        /\ UNCHANGED <<phase, todo, recent, rules, noted>> /\ current' = NoRow
        /\ firing' = [firing EXCEPT ![<<phase, current.id>>] = still]
    BY <1>0, <1>7 DEF RuleDone, FiringKey, LoopTyped, ruleVars
  <2>2. NotedSilent'
    BY <1>0, <2>1 DEF NotedSilent, InHandOf, SetsTyped, PerRule
  <2>3. StaleRowsUnnoted'
    BY <1>0, <2>1 DEF StaleRowsUnnoted
  <2> QED
    BY <1>s, <2>1, <2>2, <2>3
<1>8. CASE Restart
  <2>1. todo' = {} /\ current' = NoRow /\ \A k \in Keys : noted'[k] = {}
    BY <1>8 DEF Restart, Sleep
  <2> QED
    BY <2>1 DEF NotedBursts, NotedSilent, StaleRowsUnnoted
<1> QED
  BY <1>1, <1>2, <1>3, <1>4, <1>5, <1>6, <1>7, <1>8, BurstOutside DEF Next, Sweep

(* No burst is alerted on twice: an alert on a group that the same rule    *)
(* alerted on needs the count to drop, the rule to be edited or the server *)
(* to restart in between.                                                  *)
THEOREM BurstsAlertOnce == Spec => OneAlertPerBurst
<1>1. Init => BurstInv
  BY TypeInit, BurstInit DEF BurstInv
<1>2. BurstInv /\ [Next]_vars => BurstInv'
  BY TypeStep, BurstStep DEF BurstInv
<1>3. BurstInv => \A g \in Groups : Alert(g) => g \notin noted[<<phase, current.id>>]
  <2> SUFFICES ASSUME BurstInv, NEW g \in Groups, Alert(g)
               PROVE  g \notin noted[<<phase, current.id>>]
    OBVIOUS
  <2>1. pc = "alert" /\ g \in pending /\ <<phase, current.id>> \in Keys
    BY TypeParts, InHand DEF BurstInv, Alert
  <2> QED
    BY <2>1 DEF BurstInv, NotedSilent, InHandOf
<1> QED
  BY <1>1, <1>2, <1>3, PTL DEF Spec, OneAlertPerBurst

=============================================================================
