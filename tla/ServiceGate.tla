----------------------------- MODULE ServiceGate ----------------------------
(***************************************************************************)
(* The services a tenant's calls and agents depend on.  Saving a service's *)
(* configuration, testing its connection, testing them all and enabling    *)
(* them are requests of their own, each of which reads rows, goes on (a    *)
(* connection test waits for the provider) and commits what it changed: a  *)
(* column that a request leaves as it read it is not written.              *)
(***************************************************************************)
EXTENDS Integers

CONSTANTS
    Services,    \* SERVICE_TYPES
    Requests,    \* requests and jobs of administrators under way at once
    Savers,      \* those that may save configurations
    MaxEdits     \* bound: configurations saved

\* Of the constants; assumed where an instance gives them values.
GateAssumption == Savers \subseteq Requests /\ \A r, q \in Savers : r = q

VARIABLES
    config,   \* the ServiceConfig row of each service; version 0 before its first
    gate,     \* the tenant's IntegrationState
    request,  \* what each request has read so far
    edits     \* configurations saved so far: the identity of their settings

vars == <<config, gate, request, edits>>

Idle == [at |-> "idle"]

NoReport == [passed |-> FALSE, fresh |-> FALSE, versions |-> [s \in Services |-> 0],
             settings |-> [s \in Services |-> 0]]

Disarmed == [enabled |-> FALSE, report |-> NoReport, snapshot |-> [s \in Services |-> 0]]

Init ==
    /\ config = [s \in Services |-> [version |-> 0, settings |-> 0, connected |-> FALSE]]
    /\ gate = Disarmed
    /\ request = [r \in Requests |-> Idle]
    /\ edits = 0

-----------------------------------------------------------------------------

\* What the unit of work writes at commit: the columns whose value it changed.
Flush(current, loaded, new) ==
    [column \in DOMAIN new |-> IF new[column] = loaded[column] THEN current[column] ELSE new[column]]

Versions(rows) == [s \in Services |-> rows[s].version]

AllSaved(rows) == \A s \in Services : rows[s].version > 0
AllConnected(rows) == \A s \in Services : rows[s].connected

\* Mutant: any report that passed counts, of whatever versions.
ReportCurrent_AnyVersion(rows, state) == state.report.passed /\ Versions(rows) = Versions(rows)

ReportCurrent(rows, state) == state.report.passed /\ state.report.versions = Versions(rows)

\* gate_for, without and with the administrator's enabling.
Testable(rows, state) ==
    AllSaved(rows) /\ AllConnected(rows) /\ ReportCurrent(rows, state) /\ state.report.fresh

Ready(rows, state) == Testable(rows, state) /\ state.enabled /\ state.snapshot = Versions(rows)

-----------------------------------------------------------------------------
(* Requests *)

Reads(r, kind, services) ==
    /\ request[r].at = "idle"
    /\ request' = [request EXCEPT ![r] = [at |-> "read", kind |-> kind, rows |-> [s \in services |-> config[s]]]]
    /\ UNCHANGED <<config, gate, edits>>

SaveReads(r, s) ==
    /\ r \in Savers /\ edits < MaxEdits
    /\ Reads(r, "save", {s})

ProbeReads(r, s) ==
    /\ config[s].version > 0
    /\ Reads(r, "probe", {s})

SelfTestReads(r) == Reads(r, "self_test", Services)

EnableReads(r) == Reads(r, "gate", Services)

LoadState(r) ==
    /\ request[r].at = "read" /\ request[r].kind \in {"save", "self_test", "enable"}
    /\ request' = [request EXCEPT ![r] =
                     [at |-> "loaded", kind |-> @.kind, rows |-> @.rows, state |-> gate]]
    /\ UNCHANGED <<config, gate, edits>>

\* Nothing holds the rows the gate was judged by: those to be enabled are read again.
PassGate(r) ==
    /\ request[r].at = "read" /\ request[r].kind = "gate"
    /\ request' = [request EXCEPT ![r] =
                     IF Testable(@.rows, gate)
                     THEN [at |-> "read", kind |-> "enable", rows |-> config] ELSE Idle]
    /\ UNCHANGED <<config, gate, edits>>

Done(r) == request' = [request EXCEPT ![r] = Idle]

\* The provider and settings of the request, and a version more than was read.
Saved(row) == [version |-> row.version + 1, settings |-> edits + 1, connected |-> FALSE]

Save(r) ==
    /\ request[r].at = "loaded" /\ request[r].kind = "save"
    /\ \E s \in DOMAIN request[r].rows :
          LET row == request[r].rows[s] IN
          config' = [config EXCEPT ![s] = Flush(@, row, Saved(row))]
    /\ gate' = Flush(gate, request[r].state, Disarmed)
    /\ edits' = edits + 1
    /\ Done(r)

\* The provider has answered; the row is marked as connected whatever it is by now.
Probe(r) ==
    /\ request[r].at = "read" /\ request[r].kind = "probe"
    /\ \E s \in DOMAIN request[r].rows :
          LET row == request[r].rows[s] IN
          config' = [config EXCEPT ![s] = Flush(@, row, [row EXCEPT !.connected = TRUE])]
    /\ Done(r)
    /\ UNCHANGED <<gate, edits>>

Report(rows) ==
    [passed |-> AllConnected(rows), fresh |-> TRUE, versions |-> Versions(rows),
     settings |-> [s \in Services |-> rows[s].settings]]

SelfTest(r) ==
    /\ request[r].at = "loaded" /\ request[r].kind = "self_test"
    /\ gate' = Flush(gate, request[r].state, [Disarmed EXCEPT !.report = Report(request[r].rows)])
    /\ Done(r)
    /\ UNCHANGED <<config, edits>>

Enable(r) ==
    /\ request[r].at = "loaded" /\ request[r].kind = "enable"
    /\ LET loaded == request[r].state IN
       gate' = Flush(gate, loaded, [loaded EXCEPT !.enabled = TRUE, !.snapshot = Versions(request[r].rows)])
    /\ Done(r)
    /\ UNCHANGED <<config, edits>>

\* An error, a provider that refuses, a lost lease or a crash: nothing is committed.
Abandon(r) ==
    /\ request[r].at # "idle"
    /\ Done(r)
    /\ UNCHANGED <<config, gate, edits>>

\* Twenty-four hours after the self-test.
ReportExpires ==
    /\ gate.report.fresh
    /\ gate' = [gate EXCEPT !.report.fresh = FALSE]
    /\ UNCHANGED <<config, request, edits>>

Next ==
    \/ \E r \in Requests, s \in Services : SaveReads(r, s) \/ ProbeReads(r, s)
    \/ \E r \in Requests :
          \/ SelfTestReads(r) \/ EnableReads(r) \/ LoadState(r) \/ PassGate(r)
          \/ Save(r) \/ Probe(r) \/ SelfTest(r) \/ Enable(r) \/ Abandon(r)
    \/ ReportExpires

Spec == Init /\ [][Next]_vars

-----------------------------------------------------------------------------

\* When production calls are allowed, the self-test they rest on was of the settings every
\* service has now, whatever was saved or enabled meanwhile.
ReadyAsTested ==
    Ready(config, gate) => \A s \in Services : gate.report.settings[s] = config[s].settings
=============================================================================
