----------------------------- MODULE TopologyRun -----------------------------
(***************************************************************************)
(* Runs of the playbook get_topo.yml: clean the temporary directory, take  *)
(* every host through the tasks of the role `topology', then let the role  *)
(* `report' assemble the files the hosts left into one report.             *)
(*                                                                         *)
(* Ansible is external: a task runs on all hosts still alive before the    *)
(* next one starts, a host on which a task fails is out of the play, and a *)
(* play without hosts ends the run.  So are the firewall, a rule inserted  *)
(* once and removed once, and OVSDB, where the target of a Manager is      *)
(* unique: creating a second one fails.                                    *)
(***************************************************************************)
EXTENDS Naturals, Sequences

CONSTANTS
    Runs,          \* executions of the playbook
    Hosts,         \* compute hosts of the inventory
    OvsHosts,      \* those whose OVS agent has bridge mappings
    MaxFailures    \* bound: tasks that fail for reasons of their own

NoRun == "none"

ASSUME RunAssumption ==
    /\ NoRun \notin Runs
    /\ Hosts # {} /\ OvsHosts \subseteq Hosts
    /\ MaxFailures \in Nat

Tasks == <<"wait", "allow", "create", "query", "clear", "remove", "collect", "write">>
OvsTasks == {"allow", "create", "query", "clear", "remove"}

VARIABLES
    \* the runs
    phase,      \* the play or task a run is at
    task,       \* position in Tasks during the collection
    alive,      \* hosts on which no task has failed
    finished,   \* hosts done with the current task
    toRead,     \* files listed and still to be read
    content,    \* what was read: per file the run that wrote it
    report,     \* what was written to the output directory; empty if nothing
    name,       \* the name of the report: the first run with facts of that second
    \* the hosts
    rule,       \* hosts with the firewall rule
    manager,    \* per host the run whose Manager is in OVSDB
    \* the controller
    tempDir,    \* whether the temporary directory exists
    files,      \* per host file in it, the run that wrote it
    outputs,    \* per file of the output directory, the run whose report it is
    \* the clock: what happened since the second began
    waiting,    \* runs that began to wait for their hosts
    dated,      \* runs whose facts were gathered
    \* history: runs that were under way at the same time as another
    overlapped,
    \* bound
    failures

collection == <<task, alive, finished>>
reporting == <<toRead, content, report, name>>
run == <<phase, collection, reporting>>
host == <<rule, manager>>
disk == <<tempDir, files, outputs>>
clock == <<waiting, dated>>
vars == <<run, host, disk, clock, overlapped, failures>>

Empty == [h \in {} |-> NoRun]
FilesOfRuns == UNION {[H -> Runs] : H \in SUBSET Hosts}
ReportsOfRuns == UNION {[R -> Runs] : R \in SUBSET Runs}
Phases == {"idle", "clean", "mkdir", "inventory", "collect", "find", "cat", "report", "ended"}

TypeOK ==
    /\ phase \in [Runs -> Phases]
    /\ task \in [Runs -> 1..Len(Tasks)]
    /\ alive \in [Runs -> SUBSET Hosts]
    /\ finished \in [Runs -> SUBSET Hosts] /\ \A r \in Runs : finished[r] \subseteq alive[r]
    /\ toRead \in [Runs -> SUBSET Hosts]
    /\ content \in [Runs -> FilesOfRuns] /\ report \in [Runs -> FilesOfRuns]
    /\ rule \subseteq OvsHosts
    /\ manager \in [OvsHosts -> Runs \cup {NoRun}]
    /\ tempDir \in BOOLEAN
    /\ files \in FilesOfRuns
    /\ name \in [Runs -> Runs \cup {NoRun}]
    /\ outputs \in ReportsOfRuns
    /\ waiting \subseteq Runs /\ dated \subseteq Runs
    /\ overlapped \subseteq Runs
    /\ failures \in 0..MaxFailures

Init ==
    /\ phase = [r \in Runs |-> "idle"]
    /\ task = [r \in Runs |-> 1]
    /\ alive = [r \in Runs |-> {}]
    /\ finished = [r \in Runs |-> {}]
    /\ toRead = [r \in Runs |-> {}]
    /\ content = [r \in Runs |-> Empty]
    /\ report = [r \in Runs |-> Empty]
    /\ name = [r \in Runs |-> NoRun]
    /\ rule = {}
    /\ manager = [h \in OvsHosts |-> NoRun]
    /\ tempDir = FALSE
    /\ files = Empty /\ outputs = Empty
    /\ waiting = {} /\ dated = {}
    /\ overlapped = {}
    /\ failures = 0

Goto(r, p) == phase' = [phase EXCEPT ![r] = p]

-----------------------------------------------------------------------------
(* The first play: the temporary directory.                                *)

Start(r) ==
    /\ phase[r] = "idle"
    /\ LET others == {q \in Runs : phase[q] \notin {"idle", "ended"}}
       IN  overlapped' = overlapped \cup (IF others = {} THEN {} ELSE others \cup {r})
    /\ Goto(r, "clean")
    /\ UNCHANGED <<collection, reporting, host, disk, clock, failures>>

\* The user is not the one the playbook is for, or an RC file is missing.
Refused(r) ==
    /\ phase[r] = "idle"
    /\ Goto(r, "ended")
    /\ UNCHANGED <<collection, reporting, host, disk, clock,
                   overlapped, failures>>

\* Mutant: files of previous runs are kept.
CleanUp_Keeps(r) ==
    /\ phase[r] = "clean"
    /\ Goto(r, "mkdir")
    /\ UNCHANGED <<collection, reporting, host, disk, clock, overlapped, failures>>

CleanUp(r) ==
    /\ phase[r] = "clean"
    /\ tempDir' = FALSE
    /\ files' = Empty
    /\ Goto(r, "mkdir")
    /\ UNCHANGED <<collection, reporting, host, outputs, clock, overlapped, failures>>

MakeDir(r) ==
    /\ phase[r] = "mkdir"
    /\ tempDir' = TRUE
    /\ Goto(r, "inventory")
    /\ UNCHANGED <<collection, reporting, host, files, outputs, clock, overlapped, failures>>

\* The hosts of the run: nodes of the overcloud with Neutron agents, as many of
\* them as --limit allows.  A play without hosts is skipped.
BuildInventory(r) ==
    /\ phase[r] = "inventory"
    /\ \E hosts \in SUBSET Hosts :
          /\ alive' = [alive EXCEPT ![r] = hosts]
          /\ Goto(r, IF hosts = {} THEN "find" ELSE "collect")
    /\ waiting' = waiting \cup {r}
    /\ UNCHANGED <<task, finished, reporting, host, disk, dated,
                   overlapped, failures>>

\* Nova or Neutron does not answer.
InventoryFails(r) ==
    /\ phase[r] = "inventory"
    /\ failures < MaxFailures
    /\ failures' = failures + 1
    /\ Goto(r, "ended")
    /\ UNCHANGED <<collection, reporting, host, disk, clock,
                   overlapped>>

-----------------------------------------------------------------------------
(* The second play: the role `topology' on every host.                     *)

Due(r, h, t) ==
    /\ phase[r] = "collect"
    /\ Tasks[task[r]] = t
    /\ h \in alive[r] \ finished[r]

Done(r, h) ==
    /\ finished' = [finished EXCEPT ![r] = @ \cup {h}]
    /\ UNCHANGED <<phase, task, alive, reporting, clock, overlapped, failures>>

\* The host is out of the play, and nothing is undone on it.
Drops(r, h) ==
    /\ alive' = [alive EXCEPT ![r] = @ \ {h}]
    /\ UNCHANGED <<phase, task, finished, reporting, clock, overlapped>>

\* Mutant: no delay before the first try.
WaitForSsh_AtOnce(r, h) ==
    /\ Due(r, h, "wait")
    /\ Done(r, h)
    /\ UNCHANGED <<host, disk>>

\* Waiting for a host takes a second at least.
WaitForSsh(r, h) ==
    /\ Due(r, h, "wait")
    /\ r \notin waiting
    /\ Done(r, h)
    /\ UNCHANGED <<host, disk>>

\* Tasks about Open vSwitch are skipped where no bridge is mapped.
Skip(r, h) ==
    /\ h \notin OvsHosts
    /\ \E t \in OvsTasks : Due(r, h, t)
    /\ Done(r, h)
    /\ UNCHANGED <<host, disk>>

AllowIncoming(r, h) ==
    /\ h \in OvsHosts
    /\ Due(r, h, "allow")
    /\ rule' = rule \cup {h}
    /\ Done(r, h)
    /\ UNCHANGED <<manager, disk>>

CreateManager(r, h) ==
    /\ h \in OvsHosts
    /\ Due(r, h, "create")
    /\ manager[h] = NoRun
    /\ manager' = [manager EXCEPT ![h] = r]
    /\ Done(r, h)
    /\ UNCHANGED <<rule, disk>>

\* The bridges are read over the connection the rule and the Manager allow.
QueryBridges(r, h) ==
    /\ h \in OvsHosts
    /\ Due(r, h, "query")
    /\ h \in rule /\ manager[h] # NoRun
    /\ Done(r, h)
    /\ UNCHANGED <<host, disk>>

\* Mutant: nothing clears the Manager.
ClearManager_Forgotten(r, h) ==
    /\ h \in OvsHosts
    /\ Due(r, h, "clear")
    /\ Done(r, h)
    /\ UNCHANGED <<host, disk>>

ClearManager(r, h) ==
    /\ h \in OvsHosts
    /\ Due(r, h, "clear")
    /\ manager' = [manager EXCEPT ![h] = IF @ = r THEN NoRun ELSE @]
    /\ Done(r, h)
    /\ UNCHANGED <<rule, disk>>

RemoveRule(r, h) ==
    /\ h \in OvsHosts
    /\ Due(r, h, "remove")
    /\ rule' = rule \ {h}
    /\ Done(r, h)
    /\ UNCHANGED <<manager, disk>>

\* The modules `lldp' and `topology', which read the host.
Collect(r, h) ==
    /\ Due(r, h, "collect")
    /\ Done(r, h)
    /\ UNCHANGED <<host, disk>>

\* Mutant: the template writes the file without the collected data.
WriteFile_Blank(r, h) ==
    /\ Due(r, h, "write")
    /\ tempDir
    /\ files' = [g \in DOMAIN files \cup {h} |-> IF g = h THEN NoRun ELSE files[g]]
    /\ Done(r, h)
    /\ UNCHANGED <<host, tempDir, outputs>>

WriteFile(r, h) ==
    /\ Due(r, h, "write")
    /\ tempDir
    /\ files' = [g \in DOMAIN files \cup {h} |-> IF g = h THEN r ELSE files[g]]
    /\ Done(r, h)
    /\ UNCHANGED <<host, tempDir, outputs>>

\* Mutant: the task is retried until it can be done.
TaskBlocked_Retries(r, h) ==
    /\ h \in OvsHosts /\ Due(r, h, "create") /\ manager[h] # NoRun
    /\ UNCHANGED vars

\* A task cannot do its work: there is a Manager already, no connection, or no
\* directory.
TaskBlocked(r, h) ==
    /\ \/ h \in OvsHosts /\ Due(r, h, "create") /\ manager[h] # NoRun
       \/ h \in OvsHosts /\ Due(r, h, "query") /\ (h \notin rule \/ manager[h] = NoRun)
       \/ Due(r, h, "write") /\ ~tempDir
    /\ Drops(r, h)
    /\ UNCHANGED <<host, disk, failures>>

\* A task fails for a reason of its own, such as a silent neighbour.
TaskFails(r, h) ==
    /\ \E t \in {Tasks[n] : n \in 1..Len(Tasks)} : Due(r, h, t)
    /\ failures < MaxFailures
    /\ failures' = failures + 1
    /\ Drops(r, h)
    /\ UNCHANGED <<host, disk>>

\* All hosts in the play are done with a task.
NextTask(r) ==
    /\ phase[r] = "collect"
    /\ alive[r] # {} /\ finished[r] = alive[r]
    /\ finished' = [finished EXCEPT ![r] = {}]
    /\ IF task[r] < Len(Tasks)
       THEN task' = [task EXCEPT ![r] = @ + 1] /\ UNCHANGED phase
       ELSE Goto(r, "find") /\ UNCHANGED task
    /\ UNCHANGED <<alive, reporting, host, disk, clock, overlapped, failures>>

NoHostsLeft(r) ==
    /\ phase[r] = "collect"
    /\ alive[r] = {}
    /\ Goto(r, "ended")
    /\ UNCHANGED <<collection, reporting, host, disk, clock, overlapped, failures>>

-----------------------------------------------------------------------------
(* The third play: the role `report' on the controller.                    *)

\* The facts hold the time in seconds, which becomes the name of the report.
FindFiles(r) ==
    /\ phase[r] = "find"
    /\ tempDir /\ DOMAIN files # {}
    /\ toRead' = [toRead EXCEPT ![r] = DOMAIN files]
    /\ name' = [name EXCEPT ![r] = IF dated = {} THEN r ELSE name[CHOOSE q \in dated : TRUE]]
    /\ dated' = dated \cup {r}
    /\ Goto(r, "cat")
    /\ UNCHANGED <<collection, content, report, host, disk, waiting, overlapped,
                   failures>>

CatFile(r, h) ==
    /\ phase[r] = "cat"
    /\ h \in toRead[r] \cap DOMAIN files
    /\ toRead' = [toRead EXCEPT ![r] = @ \ {h}]
    /\ content' = [content EXCEPT ![r] =
           [g \in DOMAIN @ \cup {h} |-> IF g = h THEN files[h] ELSE @[g]]]
    /\ UNCHANGED <<phase, collection, report, name, host, disk, clock, overlapped, failures>>

AllRead(r) ==
    /\ phase[r] = "cat"
    /\ toRead[r] = {}
    /\ Goto(r, "report")
    /\ UNCHANGED <<collection, reporting, host, disk, clock, overlapped, failures>>

WriteReport(r) ==
    /\ phase[r] = "report"
    /\ report' = [report EXCEPT ![r] = content[r]]
    /\ outputs' = [n \in DOMAIN outputs \cup {name[r]} |-> IF n = name[r] THEN r ELSE outputs[n]]
    /\ Goto(r, "ended")
    /\ UNCHANGED <<collection, toRead, content, name, host, tempDir, files, clock,
                   overlapped, failures>>

\* No directory, no file in it, or a listed file has disappeared.
ReportFails(r) ==
    /\ \/ phase[r] = "find" /\ (~tempDir \/ DOMAIN files = {})
       \/ phase[r] = "cat" /\ ~(toRead[r] \subseteq DOMAIN files)
    /\ Goto(r, "ended")
    /\ UNCHANGED <<collection, reporting, host, disk, clock, overlapped, failures>>

Tick ==
    /\ waiting \cup dated # {}
    /\ waiting' = {} /\ dated' = {}
    /\ UNCHANGED <<run, host, disk, overlapped, failures>>

Finished == (\A r \in Runs : phase[r] = "ended") /\ UNCHANGED vars

-----------------------------------------------------------------------------
Step(r) ==
    \/ Start(r) \/ Refused(r) \/ CleanUp(r) \/ MakeDir(r)
    \/ BuildInventory(r) \/ InventoryFails(r)
    \/ \E h \in Hosts :
          \/ WaitForSsh(r, h) \/ Skip(r, h) \/ AllowIncoming(r, h) \/ CreateManager(r, h)
          \/ QueryBridges(r, h) \/ ClearManager(r, h) \/ RemoveRule(r, h)
          \/ Collect(r, h) \/ WriteFile(r, h)
          \/ TaskBlocked(r, h) \/ TaskFails(r, h)
          \/ CatFile(r, h)
    \/ NextTask(r) \/ NoHostsLeft(r)
    \/ FindFiles(r) \/ AllRead(r) \/ WriteReport(r) \/ ReportFails(r)

Next == (\E r \in Runs : Step(r)) \/ Tick \/ Finished

Spec == Init /\ [][Next]_vars /\ WF_vars(Tick) /\ \A r \in Runs : WF_vars(Step(r))

-----------------------------------------------------------------------------
(* What a run should guarantee.                                             *)

\* A report holds the hosts that came through this run and the data this run
\* collected from them, unless another run was under way: nothing is left over
\* from earlier runs or missing
\* (get_topo.yml:8-16, report/tasks/main.yml:17-57).
ReportExact ==
    \A r \in Runs \ overlapped : report[r] # Empty =>
        /\ DOMAIN report[r] = alive[r]
        /\ \A h \in DOMAIN report[r] : report[r][h] = r

\* The report of a run that had the controller to itself stays in the output
\* directory under a name of its own, although names are times in whole seconds:
\* a run takes longer than that between the end of another and its own facts
\* (topology/tasks/main.yml:2-8, report/tasks/main.yml:2-57).
ReportKept ==
    \A r \in Runs \ overlapped :
        phase[r] = "ended" /\ report[r] # Empty => outputs[name[r]] = r

\* A host that came through the collection has neither the rule nor a Manager any
\* more, also when earlier runs failed on it half-way, unless another run is
\* under way
\* (topology/tasks/main.yml:44-85).
SurvivorsClean ==
    \A r \in Runs \ overlapped : phase[r] \in {"find", "cat", "report"} =>
        \A h \in alive[r] \cap OvsHosts : h \notin rule /\ manager[h] = NoRun

\* The task `Clear OVS Manager' (topology/tasks/main.yml:72): a run that has
\* ended leaves no Manager behind.
ManagerCleared ==
    \A r \in Runs : phase[r] = "ended" => \A h \in OvsHosts : manager[h] # r

\* Every run comes to an end, whichever hosts fail and whatever other runs do to
\* the shared directory, firewall and OVSDB: no task waits for another run.
EveryRunEnds == \A r \in Runs : <>(phase[r] = "ended")
=============================================================================
