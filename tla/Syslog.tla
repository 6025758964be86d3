--------------------------------- MODULE Syslog ---------------------------------
(***************************************************************************)
(* The syslog receiver: the stored configuration, the allow list in        *)
(* memory that a task refreshes from it every 30 seconds, the UDP and the  *)
(* TCP listener, and one task for every datagram and every connection that *)
(* brings its lines into the logs table.                                   *)
(*                                                                         *)
(* A line is its text, the host its header names, if it has one, and its   *)
(* time.  The header, and the time with it, is cut off before the line is  *)
(* hashed.  What a time stamp without a year stands for is in EventTime.   *)
(***************************************************************************)
EXTENDS Cidr, EventTime, FiniteSets

CONSTANTS
  Sources,      \* addresses that lines come from
  Lines,        \* [text, host, time]; host NoHost if the header names none
  Blank,        \* the text of nothing but white space
  NoHost,
  Lists,        \* lists of entries the administrator may want to save
  MaxMessages, MaxConns, MaxSaves, MaxFailures   \* bounds

ASSUME SyslogAssumption ==
  /\ Sources \subseteq Address
  /\ Lists \subseteq SUBSET Entry /\ {} \in Lists
  /\ MaxMessages \in Nat /\ MaxConns \in Nat /\ MaxSaves \in Nat /\ MaxFailures \in Nat

Protocols == {"udp", "tcp"}

VARIABLES
  config,       \* the row of syslog_config: [enabled, list, lastHost]
  server,       \* "down", "starting" or "up"
  listening,    \* listeners that main has started
  allow,        \* the list in memory
  fetched,      \* the list that the refresh has read and not yet put there
  conns,        \* open connections: their numbers, sources and readers
  tasks,        \* lines being ingested
  rows,         \* the logs table: [text, host, time]
  alerts,       \* the rows that trigger_alert was called for
  made, opened, saves, failures,   \* counters
  \* history, read by properties only
  saved,        \* saved[k]: the list after k saves
  readAt, allowAt,   \* the saves behind `fetched` and `allow`
  received,     \* lines taken in so far
  lost          \* those that ended without a row, and rows without an alert

counters == <<made, opened, saves, failures>>
memory == <<allow, fetched, readAt, allowAt>>
history == <<saved, received, lost>>
syslogVars ==
  <<config, server, listening, memory, conns, tasks, rows, alerts, counters, history>>

(* A line under way: `conn` is 0 for a datagram.                           *)
Message == [id : 1 .. MaxMessages, conn : 0 .. MaxConns, source : Sources, line : Lines]
Task == [of : Message, at : {"insert", "alert", "touch"}]
None == {}   \* `fetched` holds at most one list

SyslogInit ==
  /\ config = [enabled |-> {}, list |-> {}, lastHost |-> NoHost]
  /\ server = "down" /\ listening = {} /\ allow = {} /\ fetched = None
  /\ conns = {} /\ tasks = {} /\ rows = {} /\ alerts = {}
  /\ made = 0 /\ opened = 0 /\ saves = 0 /\ failures = 0
  /\ saved = <<{}>> /\ readAt = 1 /\ allowAt = 1 /\ received = {} /\ lost = {}

Fails == failures < MaxFailures /\ failures' = failures + 1

-----------------------------------------------------------------------------
(* Configuration.                                                          *)

(* update_syslog_config_handler refuses a list with an address that does   *)
(* not parse; it does not look at prefixes.                                *)
Accepted(list) == \A entry \in list : entry.parses

Save(enabled, list) ==
  /\ server = "up" /\ saves < MaxSaves /\ Accepted(list)
  /\ config' = [config EXCEPT !.enabled = enabled, !.list = list]
  /\ saves' = saves + 1 /\ saved' = Append(saved, list)
  /\ UNCHANGED <<server, listening, memory, conns, tasks, rows, alerts, made, opened,
                 failures, received, lost>>

(* main starts the refresh, whose list is empty at first ...               *)
Start ==
  /\ server = "down" /\ server' = "starting"
  /\ allow' = {} /\ allowAt' = 1
  /\ UNCHANGED <<config, listening, fetched, readAt, conns, tasks, rows, alerts, counters, history>>

(* ... and the listeners, as they are configured at this moment.           *)
Listen ==
  /\ server = "starting" /\ server' = "up"
  /\ listening' = config.enabled
  /\ UNCHANGED <<config, memory, conns, tasks, rows, alerts, counters, history>>

(* The configuration cannot be read, or a port cannot be bound.  This      *)
(* needs no bound of its own: it happens at most once after each crash.    *)
ListenFails ==
  /\ server = "starting" /\ server' = "up"
  /\ \E some \in SUBSET config.enabled : some # config.enabled /\ listening' = some
  /\ UNCHANGED <<config, memory, conns, tasks, rows, alerts, counters, history>>

(* Every 30 seconds; a failed read leaves the list as it was.              *)
RefreshReads ==
  /\ server # "down" /\ fetched = None
  /\ fetched' = {config.list} /\ readAt' = Len(saved)
  /\ UNCHANGED <<config, server, listening, allow, allowAt, conns, tasks, rows, alerts,
                 counters, history>>

BugRefreshed(list) == IF list = {} THEN allow ELSE list
Refreshed(list) == list
RefreshWrites ==
  /\ \E list \in fetched : allow' = Refreshed(list)
  /\ fetched' = None /\ allowAt' = readAt
  /\ UNCHANGED <<config, server, listening, readAt, conns, tasks, rows, alerts, counters, history>>

-----------------------------------------------------------------------------
(* Listeners.                                                              *)

(* The next line comes in.                                                 *)
Takes(source, conn, line) ==
  /\ made < MaxMessages /\ made' = made + 1
  /\ LET message == [id |-> made + 1, conn |-> conn, source |-> source, line |-> line]
     IN  /\ tasks' = tasks \cup {[of |-> message, at |-> "insert"]}
         /\ received' = received \cup {message}
  /\ UNCHANGED <<config, server, listening, memory, conns, rows, alerts, opened, saves,
                 failures, saved, lost>>

(* A datagram of a source that is not allowed, or a blank one, is dropped. *)
Datagram(source, line) ==
  /\ "udp" \in listening /\ IpAllowed(source, allow) /\ line.text # Blank
  /\ Takes(source, 0, line)

Accept(source) ==
  /\ "tcp" \in listening /\ IpAllowed(source, allow)
  /\ opened < MaxConns /\ opened' = opened + 1
  /\ conns' = conns \cup {[id |-> opened + 1, source |-> source]}
  /\ UNCHANGED <<config, server, listening, memory, tasks, rows, alerts, made, saves,
                 failures, history>>

(* A connection awaits each line's ingestion before it reads the next.     *)
Reads(c) == \A t \in tasks : t.of.conn # c.id
ReadLine(c, line) ==
  /\ Reads(c) /\ line.text # Blank
  /\ Takes(c.source, c.id, line)

Closes(c) ==
  /\ Reads(c) /\ conns' = conns \ {c}
  /\ UNCHANGED <<config, server, listening, memory, tasks, rows, alerts, counters, history>>

-----------------------------------------------------------------------------
(* ingest_syslog_message.                                                  *)

Host(m) == IF m.line.host = NoHost THEN m.source ELSE m.line.host
Row(m) == [text |-> m.line.text, host |-> Host(m), time |-> m.line.time]

(* What is hashed.                                                         *)
BugHash(row) == row.text
Hash(row) == <<row.text, row.host>>
IsNew(m) == \A row \in rows : Hash(row) # Hash(Row(m))

Becomes(t, at) == tasks' = (tasks \ {t}) \cup {[t EXCEPT !.at = at]}

Insert(t) ==
  /\ t.at = "insert"
  /\ IF IsNew(t.of) THEN rows' = rows \cup {Row(t.of)} /\ Becomes(t, "alert")
                    ELSE UNCHANGED rows /\ Becomes(t, "touch")
  /\ UNCHANGED <<config, server, listening, memory, conns, alerts, counters, history>>

(* The error is logged; the line is not tried again.                       *)
InsertFails(t) ==
  /\ t.at = "insert" /\ Fails
  /\ lost' = lost \cup {t.of} /\ Becomes(t, "touch")
  /\ UNCHANGED <<config, server, listening, memory, conns, rows, alerts, made, opened,
                 saves, saved, received>>

Alert(t) ==
  /\ t.at = "alert"
  /\ alerts' = alerts \cup {Row(t.of)} /\ Becomes(t, "touch")
  /\ UNCHANGED <<config, server, listening, memory, conns, rows, counters, history>>

(* touch_syslog_last_message; it may fail, which is logged.                *)
TouchLastMessage(t) ==
  /\ t.at = "touch" /\ tasks' = tasks \ {t}
  /\ config' = [config EXCEPT !.lastHost = Host(t.of)]
  /\ UNCHANGED <<server, listening, memory, conns, rows, alerts, counters, history>>

TouchLastMessageFails(t) ==
  /\ t.at = "touch" /\ Fails /\ tasks' = tasks \ {t}
  /\ UNCHANGED <<config, server, listening, memory, conns, rows, alerts, made, opened,
                 saves, history>>

ServerDies ==
  /\ server # "down" /\ Fails
  /\ server' = "down" /\ listening' = {} /\ allow' = {} /\ allowAt' = 1 /\ fetched' = None
  /\ conns' = {} /\ tasks' = {}
  /\ lost' = lost \cup {t.of : t \in {u \in tasks : u.at # "touch"}}
  /\ UNCHANGED <<config, readAt, rows, alerts, made, opened, saves, saved, received>>

-----------------------------------------------------------------------------

Ingest(t) == Insert(t) \/ Alert(t) \/ TouchLastMessage(t)

Network ==
  \/ \E source \in Sources : Accept(source) \/ \E line \in Lines : Datagram(source, line)
  \/ \E c \in conns : Closes(c) \/ \E line \in Lines : ReadLine(c, line)

SyslogNext ==
  \/ \E enabled \in SUBSET Protocols, list \in Lists : Save(enabled, list)
  \/ Start \/ Listen \/ ListenFails \/ RefreshReads \/ RefreshWrites \/ ServerDies
  \/ Network
  \/ \E t \in tasks : Ingest(t) \/ InsertFails(t) \/ TouchLastMessageFails(t)

SyslogSpec == SyslogInit /\ [][SyslogNext]_syslogVars

(* The server is started again, and its tasks are polled.  The refresh is  *)
(* assumed to read the configuration sooner or later; nothing is assumed   *)
(* of the administrator and of the network.                                *)
Fairness ==
  /\ WF_syslogVars(Start) /\ WF_syslogVars(Listen)
  /\ WF_syslogVars(RefreshReads) /\ WF_syslogVars(RefreshWrites)

SyslogFairSpec == SyslogSpec /\ Fairness

-----------------------------------------------------------------------------
(* Properties.                                                             *)

(* Every variable has its type; a message has one task at most, and so has *)
(* a connection, however many lines it sends.                              *)
SyslogTypeOK ==
  /\ config \in [enabled : SUBSET Protocols, list : Lists,
                 lastHost : Sources \cup {NoHost} \cup {line.host : line \in Lines}]
  /\ server \in {"down", "starting", "up"} /\ listening \subseteq Protocols
  /\ allow \in Lists /\ fetched \subseteq Lists /\ Cardinality(fetched) <= 1
  /\ made \in 0 .. MaxMessages /\ opened \in 0 .. MaxConns
  /\ saves \in 0 .. MaxSaves /\ failures \in 0 .. MaxFailures
  /\ conns \subseteq [id : 1 .. opened, source : Sources]
  /\ \A c, d \in conns : c.id = d.id => c = d
  /\ tasks \subseteq Task /\ \A t, u \in tasks : t.of.id = u.of.id => t = u
  /\ \A t, u \in tasks : t.of.conn = u.of.conn /\ t.of.conn # 0 => t = u
  /\ alerts \subseteq rows /\ received \subseteq Message /\ lost \subseteq received
  /\ saved \in Seq(Lists) /\ readAt \in 1 .. Len(saved) /\ allowAt \in 1 .. Len(saved)

(* Addresses that some entry of the list covers.                           *)
Covered(source, list) == \E entry \in list : Covers(entry, source)

(* The list lets in the addresses whose leading bits its entries name, for *)
(* every prefix from 0 to the full width and one beyond it.  A line or a   *)
(* connection is taken only from a source that was covered by a list       *)
(* stored since the last refresh read it; only a connection that was open  *)
(* by then goes on, whatever is saved.  That is less than src/README.md:419*)
(* says (the allowlist "applies immediately when saved": the listeners see *)
(* it up to 30 seconds later) and than src/syslog.rs:15-17 (tightening     *)
(* "takes effect live": no open connection is asked again).                *)
ListIsObeyed ==
  [][/\ \A ip \in Address : IpAllowed(ip, allow') <=> Covered(ip, allow')
     /\ \A source \in Sources :
          \/ \E line \in Lines : Datagram(source, line)
          \/ Accept(source)
          => \E k \in allowAt .. Len(saved) : Covered(source, saved[k])]_syslogVars

(* A line that was taken in, and is no longer under way, has a row with    *)
(* its text and its host, and that row was alerted on; or a statement      *)
(* failed or the server died on it.  Its time may be that of an earlier    *)
(* line: a line that says the same again has no row of its own.            *)
NothingVanishes ==
  \A m \in received \ lost :
    \/ \E t \in tasks : t.of.id = m.id /\ t.at # "touch"
    \/ \E row \in rows :
         /\ row.text = m.line.text /\ row.host = Host(m)
         /\ \/ row \in alerts
            \/ \E t \in tasks : t.at = "alert" /\ Row(t.of) = row
            \/ \E l \in lost : Row(l) = row

(* A list that stays is obeyed in the end: tightening it closes the door   *)
(* without a restart, also when everything is taken off it.                *)
ListCatchesUp == <>[](allow = config.list)

(* The year of a time stamp is guessed right, in the sense of YearGuessed, *)
(* whatever the server's clock says when the line comes in.  This speaks   *)
(* of no state, so TLC needs to evaluate it in one only.                   *)
YearIsRight == SyslogInit => EveryYearGuessed
=============================================================================
