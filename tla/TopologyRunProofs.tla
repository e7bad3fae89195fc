-------------------------- MODULE TopologyRunProofs --------------------------
(***************************************************************************)
(* Theorems about TopologyRun, for any runs, hosts and failures.           *)
(***************************************************************************)
EXTENDS TopologyRun, TLAPS

Active(r) == phase[r] \notin {"idle", "ended"}

\* A run that is not overlapped has the controller and the hosts to itself.
AloneInv ==
    \A r \in Runs \ overlapped : Active(r) => \A q \in Runs \ {r} : ~Active(q)

\* What a run has not come to yet.
FreshInv ==
    \A r \in Runs :
        /\ phase[r] \in {"idle", "clean", "mkdir", "inventory"} =>
              task[r] = 1 /\ alive[r] = {} /\ finished[r] = {}
        /\ phase[r] \in {"idle", "clean", "mkdir", "inventory", "collect", "find"} =>
              content[r] = Empty /\ name[r] = NoRun
        /\ phase[r] # "ended" => report[r] = Empty
        /\ phase[r] \in {"cat", "report"} \/ report[r] # Empty => name[r] \in Runs

\* Files are those of the hosts that came through, and the data are the run's own.
FilesInv ==
    \A r \in Runs \ overlapped :
        /\ phase[r] \in {"mkdir", "inventory"} => files = Empty
        /\ phase[r] = "collect" =>
              DOMAIN files = IF task[r] = Len(Tasks) THEN finished[r] ELSE {}
        /\ phase[r] \in {"find", "cat"} => DOMAIN files = alive[r]
        /\ phase[r] \in {"collect", "find", "cat"} => \A h \in DOMAIN files : files[h] = r
        /\ phase[r] = "cat" => DOMAIN content[r] \cup toRead[r] = alive[r]
        /\ phase[r] = "report" => DOMAIN content[r] = alive[r]
        /\ phase[r] \in {"cat", "report"} => \A h \in DOMAIN content[r] : content[r][h] = r

\* A host is through the n-th task.
Through(r, h, n) == task[r] > n \/ (task[r] = n /\ h \in finished[r])

HostInv ==
    \A r \in Runs \ overlapped : \A h \in OvsHosts \cap alive[r] :
        phase[r] = "collect" =>
            /\ Through(r, h, 3) /\ ~Through(r, h, 5) => manager[h] = r
            /\ Through(r, h, 5) => manager[h] = NoRun
            /\ Through(r, h, 6) => h \notin rule

\* A run that waits for its hosts has done nothing with them yet; after the wait
\* no facts are of the second that has begun.
WaitInv ==
    \A r \in Runs \ overlapped : phase[r] \in {"collect", "find"} =>
        IF r \in waiting
        THEN files = Empty /\ (phase[r] = "collect" => task[r] = 1 /\ finished[r] = {})
        ELSE dated = {}

\* In the second of the facts of a run, those after it do not get through the wait.
SecondInv ==
    \A r \in dated \ overlapped : \A q \in Runs \ {r} :
        /\ phase[q] \notin {"cat", "report"}
        /\ phase[q] = "collect" => q \in waiting /\ task[q] = 1 /\ finished[q] = {}
        /\ phase[q] \in {"mkdir", "inventory", "collect", "find"} => files = Empty

\* The name is that of the first run of a second, and of no other run.
NameInv ==
    /\ \A r \in dated : name[r] \in Runs /\ phase[r] \in {"cat", "report", "ended"}
    /\ \A r \in Runs : name[r] \in Runs => name[name[r]] = name[r]
    /\ \A r \in Runs \ overlapped : name[r] \in Runs =>
          name[r] = r /\ \A q \in Runs \ {r} : name[q] # r

KeptInv ==
    \A r \in Runs \ overlapped : report[r] # Empty => r \in DOMAIN outputs /\ outputs[r] = r

RInv ==
    /\ TypeOK /\ AloneInv /\ FreshInv /\ FilesInv /\ HostInv
    /\ WaitInv /\ SecondInv /\ NameInv /\ KeptInv
    /\ ReportExact /\ SurvivorsClean

-----------------------------------------------------------------------------
(* The tasks of the collection.                                             *)

LEMMA TaskNumbers ==
  /\ Len(Tasks) = 8
  /\ \A n \in 1..8 :
        /\ Tasks[n] = "wait" <=> n = 1
        /\ Tasks[n] = "allow" <=> n = 2
        /\ Tasks[n] = "create" <=> n = 3
        /\ Tasks[n] = "query" <=> n = 4
        /\ Tasks[n] = "clear" <=> n = 5
        /\ Tasks[n] = "remove" <=> n = 6
        /\ Tasks[n] = "collect" <=> n = 7
        /\ Tasks[n] = "write" <=> n = 8
  BY DEF Tasks

\* The types of what the tasks of a host read and write.
LEMMA Types ==
  ASSUME TypeOK
  PROVE  /\ phase \in [Runs -> Phases] /\ task \in [Runs -> 1..8]
         /\ alive \in [Runs -> SUBSET Hosts] /\ finished \in [Runs -> SUBSET Hosts]
         /\ \A r \in Runs : finished[r] \subseteq alive[r]
         /\ rule \subseteq OvsHosts /\ manager \in [OvsHosts -> Runs \cup {NoRun}]
         /\ \A r \in Runs : task[r] \in Nat
  BY TaskNumbers DEF TypeOK

HostTask(r, h) ==
    \/ WaitForSsh(r, h) \/ Skip(r, h) \/ AllowIncoming(r, h) \/ CreateManager(r, h)
    \/ QueryBridges(r, h) \/ ClearManager(r, h) \/ RemoveRule(r, h)
    \/ Collect(r, h) \/ WriteFile(r, h)

HostFails(r, h) == TaskBlocked(r, h) \/ TaskFails(r, h)

Controls(r) ==
    \/ Start(r) \/ Refused(r) \/ CleanUp(r) \/ MakeDir(r)
    \/ BuildInventory(r) \/ InventoryFails(r) \/ NextTask(r) \/ NoHostsLeft(r)
    \/ FindFiles(r) \/ AllRead(r) \/ WriteReport(r) \/ ReportFails(r)

\* A step is one of these.
LEMMA Steps ==
  ASSUME [Next]_vars
  PROVE  \/ \E r \in Runs, h \in Hosts : HostTask(r, h) \/ HostFails(r, h) \/ CatFile(r, h)
         \/ \E r \in Runs : Controls(r)
         \/ Tick
         \/ UNCHANGED vars
  BY DEF Next, Step, HostTask, HostFails, Controls, Finished

\* What the tasks of a host have in common, by the position in the list of tasks.
HostStep(r, h) ==
    /\ phase[r] = "collect" /\ h \in alive[r] \ finished[r]
    /\ Done(r, h)
    /\ UNCHANGED <<tempDir, outputs>>
    /\ task[r] = 1 => r \notin waiting
    /\ files' = IF task[r] = 8
                THEN [g \in DOMAIN files \cup {h} |-> IF g = h THEN r ELSE files[g]]
                ELSE files
    /\ rule' \subseteq rule \cup {h} /\ (task[r] # 2 => rule' \subseteq rule)
    /\ (task[r] = 6 => h \notin rule') /\ rule' \subseteq OvsHosts
    /\ manager' \in [OvsHosts -> Runs \cup {NoRun}]
    /\ \A g \in OvsHosts \ {h} : manager'[g] = manager[g]
    /\ h \in OvsHosts =>
          /\ task[r] = 3 => manager'[h] = r
          /\ task[r] = 5 => manager'[h] = IF manager[h] = r THEN NoRun ELSE manager[h]
          /\ task[r] \notin {3, 5} => manager'[h] = manager[h]

LEMMA TaskStep ==
  ASSUME TypeOK, NEW r \in Runs, NEW h \in Hosts, HostTask(r, h)
  PROVE  HostStep(r, h)
<1>t. /\ task[r] \in 1..8
      /\ rule \subseteq OvsHosts /\ manager \in [OvsHosts -> Runs \cup {NoRun}]
  BY Types
<1>1. CASE WaitForSsh(r, h)
  BY <1>t, <1>1, TaskNumbers DEF WaitForSsh, Due, HostStep, host, disk
<1>2. CASE Skip(r, h)
  <2>1. task[r] \in 2..6
    BY <1>t, <1>2, TaskNumbers DEF Skip, Due, OvsTasks
  <2> QED
    BY <1>t, <1>2, <2>1 DEF Skip, Due, HostStep, host, disk
<1>3. CASE AllowIncoming(r, h)
  BY <1>t, <1>3, TaskNumbers DEF AllowIncoming, Due, HostStep, disk
<1>4. CASE CreateManager(r, h)
  BY <1>t, <1>4, TaskNumbers DEF CreateManager, Due, HostStep, disk
<1>5. CASE QueryBridges(r, h)
  BY <1>t, <1>5, TaskNumbers DEF QueryBridges, Due, HostStep, host, disk
<1>6. CASE ClearManager(r, h)
  BY <1>t, <1>6, TaskNumbers DEF ClearManager, Due, HostStep, disk
<1>7. CASE RemoveRule(r, h)
  BY <1>t, <1>7, TaskNumbers DEF RemoveRule, Due, HostStep, disk
<1>8. CASE Collect(r, h)
  BY <1>t, <1>8, TaskNumbers DEF Collect, Due, HostStep, host, disk
<1>9. CASE WriteFile(r, h)
  BY <1>t, <1>9, TaskNumbers DEF WriteFile, Due, HostStep, host
<1> QED
  BY <1>1, <1>2, <1>3, <1>4, <1>5, <1>6, <1>7, <1>8, <1>9 DEF HostTask

\* A task that fails takes its host out of the run and changes nothing else.
LEMMA FailStep ==
  ASSUME TypeOK, NEW r \in Runs, NEW h \in Hosts, HostFails(r, h)
  PROVE  /\ phase[r] = "collect" /\ h \in alive[r] \ finished[r]
         /\ Drops(r, h)
         /\ UNCHANGED <<host, disk>>
         /\ failures' \in 0..MaxFailures
  BY RunAssumption DEF HostFails, TaskBlocked, TaskFails, Due, TypeOK

-----------------------------------------------------------------------------
(* Types.                                                                   *)

\* A file written or read is one more of the same kind.
LEMMA OneMoreFile ==
  ASSUME NEW f \in FilesOfRuns, NEW h \in Hosts, NEW r \in Runs
  PROVE  [g \in DOMAIN f \cup {h} |-> IF g = h THEN r ELSE f[g]] \in FilesOfRuns
<1>1. PICK H \in SUBSET Hosts : f \in [H -> Runs]
  BY DEF FilesOfRuns
<1>2. [g \in DOMAIN f \cup {h} |-> IF g = h THEN r ELSE f[g]] \in [H \cup {h} -> Runs]
  BY <1>1
<1> QED
  BY <1>2 DEF FilesOfRuns

LEMMA FileOfRun == ASSUME NEW f \in FilesOfRuns, NEW h \in DOMAIN f PROVE h \in Hosts /\ f[h] \in Runs
  BY DEF FilesOfRuns

LEMMA NoFiles == Empty \in FilesOfRuns /\ DOMAIN Empty = {}
  BY DEF FilesOfRuns, Empty

LEMMA InitType == Init => TypeOK
<1> SUFFICES ASSUME Init PROVE TypeOK
  OBVIOUS
<1>1. outputs \in ReportsOfRuns
  BY DEF Init, Empty, ReportsOfRuns
<1>2. /\ phase \in [Runs -> Phases] /\ task \in [Runs -> 1..Len(Tasks)]
      /\ content \in [Runs -> FilesOfRuns] /\ report \in [Runs -> FilesOfRuns]
      /\ files \in FilesOfRuns /\ failures \in 0..MaxFailures
  BY NoFiles, RunAssumption, TaskNumbers DEF Init, Phases
<1> QED
  BY <1>1, <1>2 DEF Init, TypeOK

LEMMA NextType == TypeOK /\ FreshInv /\ [Next]_vars => TypeOK'
<1> SUFFICES ASSUME TypeOK, FreshInv, [Next]_vars PROVE TypeOK'
  OBVIOUS
<1> USE DEF TypeOK, Phases
<1>1. ASSUME NEW r \in Runs, NEW h \in Hosts, HostTask(r, h) PROVE TypeOK'
  <2>1. HostStep(r, h)
    BY <1>1, TaskStep
  <2>2. files' \in FilesOfRuns
    BY <2>1, OneMoreFile DEF HostStep
  <2> QED
    BY <2>1, <2>2 DEF HostStep, Done, reporting, clock
<1>2. ASSUME NEW r \in Runs, NEW h \in Hosts, HostFails(r, h) PROVE TypeOK'
  <2>1. /\ alive' = [alive EXCEPT ![r] = @ \ {h}] /\ h \notin finished[r]
        /\ failures' \in 0..MaxFailures
        /\ UNCHANGED <<phase, task, finished, reporting, clock, overlapped, host, disk>>
    BY <1>2, FailStep DEF Drops
  <2>2. /\ alive' \in [Runs -> SUBSET Hosts]
        /\ \A q \in Runs : finished'[q] \subseteq alive'[q]
    BY <2>1
  <2> QED
    BY <2>1, <2>2 DEF reporting, clock, host, disk
<1>3. ASSUME NEW r \in Runs, NEW h \in Hosts, CatFile(r, h) PROVE TypeOK'
  <2>1. files[h] \in Runs /\ content[r] \in FilesOfRuns
    BY <1>3, FileOfRun DEF CatFile
  <2> DEFINE f == content[r]
             q == files[h]
  <2>2. [g \in DOMAIN f \cup {h} |-> IF g = h THEN q ELSE f[g]] \in FilesOfRuns
    <3>1. f \in FilesOfRuns /\ q \in Runs
      BY <2>1
    <3> HIDE DEF f, q
    <3> QED
      BY <3>1, OneMoreFile
  <2> QED
    BY <1>3, <2>2 DEF CatFile, collection, host, disk, clock
<1>4. ASSUME NEW r \in Runs, Start(r) \/ Refused(r) \/ MakeDir(r) \/ NoHostsLeft(r)
                                \/ AllRead(r) \/ ReportFails(r)
      PROVE  TypeOK'
  BY <1>4 DEF Start, Refused, MakeDir, NoHostsLeft, AllRead, ReportFails, Goto,
              collection, reporting, host, disk, clock
<1>5. ASSUME NEW r \in Runs, CleanUp(r) PROVE TypeOK'
  BY <1>5, NoFiles DEF CleanUp, Goto, collection, reporting, host, clock
<1>6. ASSUME NEW r \in Runs, BuildInventory(r) PROVE TypeOK'
  BY <1>6 DEF BuildInventory, Goto, reporting, host, disk, FreshInv
<1>7. ASSUME NEW r \in Runs, InventoryFails(r) PROVE TypeOK'
  BY <1>7, RunAssumption DEF InventoryFails, Goto, collection, reporting, host, disk, clock
<1>8. ASSUME NEW r \in Runs, NextTask(r) PROVE TypeOK'
  BY <1>8, TaskNumbers DEF NextTask, Goto, reporting, host, disk, clock
<1>9. ASSUME NEW r \in Runs, FindFiles(r) PROVE TypeOK'
  <2>1. DOMAIN files \subseteq Hosts
    BY FileOfRun
  <2>2. dated # {} => name[CHOOSE q \in dated : TRUE] \in Runs \cup {NoRun}
    OBVIOUS
  <2> QED
    BY <1>9, <2>1, <2>2 DEF FindFiles, Goto, collection, host, disk
<1>10. ASSUME NEW r \in Runs, WriteReport(r) PROVE TypeOK'
  <2>1. name[r] \in Runs
    BY <1>10 DEF WriteReport, FreshInv
  <2>2. PICK R \in SUBSET Runs : outputs \in [R -> Runs]
    BY DEF ReportsOfRuns
  <2>3. outputs' \in [R \cup {name[r]} -> Runs]
    BY <1>10, <2>1, <2>2 DEF WriteReport
  <2>4. R \cup {name[r]} \in SUBSET Runs
    BY <2>1
  <2>5. outputs' \in ReportsOfRuns
    <3> HIDE DEF TypeOK
    <3> QED
      BY <2>3, <2>4 DEF ReportsOfRuns
  <2> QED
    BY <1>10, <2>5 DEF WriteReport, Goto, collection, host, clock
<1>11. CASE Tick
  BY <1>11 DEF Tick, run, collection, reporting, host, disk
<1>12. CASE UNCHANGED vars
  BY <1>12 DEF vars, run, collection, reporting, host, disk, clock
<1> QED
  BY <1>1, <1>2, <1>3, <1>4, <1>5, <1>6, <1>7, <1>8, <1>9, <1>10, <1>11, <1>12, Steps
     DEF Controls

-----------------------------------------------------------------------------
(* Runs that have the controller to themselves.                             *)

\* How a step moves the phases: a run starts, or one that is under way moves on, or
\* one ends.  Only a start makes runs overlap.
LEMMA Moves ==
  ASSUME TypeOK, [Next]_vars
  PROVE  \/ UNCHANGED <<phase, overlapped>>
         \/ \E r \in Runs : Start(r)
         \/ \E r \in Runs, p \in Phases : /\ phase' = [phase EXCEPT ![r] = p]
                                          /\ UNCHANGED overlapped
                                          /\ Active(r) \/ p = "ended"
<1>1. ASSUME NEW r \in Runs, NEW h \in Hosts,
             HostTask(r, h) \/ HostFails(r, h) \/ CatFile(r, h)
      PROVE  UNCHANGED <<phase, overlapped>>
  BY <1>1, TaskStep, FailStep DEF HostStep, Done, Drops, CatFile
<1>2. ASSUME NEW r \in Runs, Controls(r), ~Start(r)
      PROVE  \E p \in Phases : /\ phase' = [phase EXCEPT ![r] = p]
                               /\ UNCHANGED overlapped
                               /\ Active(r) \/ p = "ended"
  <2>1. CASE Refused(r) \/ CleanUp(r) \/ MakeDir(r) \/ InventoryFails(r) \/ NoHostsLeft(r)
               \/ FindFiles(r) \/ AllRead(r) \/ WriteReport(r) \/ ReportFails(r)
    BY <2>1 DEF Refused, CleanUp, MakeDir, InventoryFails, NoHostsLeft, FindFiles, AllRead,
                WriteReport, ReportFails, Goto, Active, Phases
  <2>2. CASE BuildInventory(r)
    <3>1. PICK p \in {"find", "collect"} : Goto(r, p)
      BY <2>2 DEF BuildInventory
    <3> QED
      BY <2>2, <3>1 DEF BuildInventory, Goto, Active, Phases
  <2>3. CASE NextTask(r)
    <3>1. CASE task[r] < Len(Tasks)
      BY <2>3, <3>1 DEF NextTask, Active, Phases, TypeOK
    <3>2. CASE ~(task[r] < Len(Tasks))
      BY <2>3, <3>2 DEF NextTask, Goto, Active, Phases
    <3> QED
      BY <3>1, <3>2
  <2> QED
    BY <1>2, <2>1, <2>2, <2>3 DEF Controls
<1>3. CASE Tick
  BY <1>3 DEF Tick, run
<1>4. CASE UNCHANGED vars
  BY <1>4 DEF vars, run
<1> QED
  BY <1>1, <1>2, <1>3, <1>4, Steps

LEMMA NextAlone == TypeOK /\ AloneInv /\ [Next]_vars => AloneInv'
<1> SUFFICES ASSUME TypeOK, AloneInv, [Next]_vars PROVE AloneInv'
  OBVIOUS
<1> USE DEF AloneInv, Active
<1>t. phase \in [Runs -> Phases]
  BY DEF TypeOK
<1>1. CASE UNCHANGED <<phase, overlapped>>
  BY <1>1
<1>2. ASSUME NEW r \in Runs, Start(r) PROVE AloneInv'
  BY <1>t, <1>2 DEF Start, Goto
<1>3. ASSUME NEW r \in Runs, NEW p \in Phases, phase' = [phase EXCEPT ![r] = p],
             UNCHANGED overlapped, Active(r) \/ p = "ended"
      PROVE  AloneInv'
  BY <1>t, <1>3
<1> QED
  BY <1>1, <1>2, <1>3, Moves

-----------------------------------------------------------------------------
(* What a run has not come to yet.                                          *)

LEMMA NextFresh ==
  TypeOK /\ FreshInv /\ NameInv /\ [Next]_vars => FreshInv'
<1> SUFFICES ASSUME TypeOK, FreshInv, NameInv, [Next]_vars PROVE FreshInv'
  OBVIOUS
<1> USE DEF FreshInv
<1>t. /\ phase \in [Runs -> Phases] /\ task \in [Runs -> 1..8]
      /\ alive \in [Runs -> SUBSET Hosts] /\ finished \in [Runs -> SUBSET Hosts]
      /\ \A r \in Runs : finished[r] \subseteq alive[r]
      /\ name \in [Runs -> Runs \cup {NoRun}]
      /\ DOMAIN content = Runs /\ DOMAIN report = Runs
  BY Types DEF TypeOK
<1>1. ASSUME NEW r \in Runs, NEW h \in Hosts, HostTask(r, h) PROVE FreshInv'
  <2>1. /\ phase[r] = "collect" /\ finished' = [finished EXCEPT ![r] = @ \cup {h}]
        /\ UNCHANGED <<phase, task, alive, content, report, name>>
    BY <1>1, TaskStep DEF HostStep, Done, reporting
  <2> QED
    BY <1>t, <2>1
<1>2. ASSUME NEW r \in Runs, NEW h \in Hosts, HostFails(r, h) PROVE FreshInv'
  BY <1>t, <1>2, FailStep DEF Drops, reporting
<1>3. ASSUME NEW r \in Runs, NEW h \in Hosts, CatFile(r, h) PROVE FreshInv'
  BY <1>t, <1>3 DEF CatFile, collection
<1>4. ASSUME NEW r \in Runs, Start(r) \/ Refused(r) \/ CleanUp(r) \/ MakeDir(r)
                                \/ InventoryFails(r) \/ NoHostsLeft(r) \/ AllRead(r) \/ ReportFails(r)
      PROVE  FreshInv'
  BY <1>t, <1>4 DEF Start, Refused, CleanUp, MakeDir, InventoryFails, NoHostsLeft, AllRead,
              ReportFails, Goto, collection, reporting
<1>5. ASSUME NEW r \in Runs, BuildInventory(r) PROVE FreshInv'
  <2>1. PICK p \in {"find", "collect"} : Goto(r, p)
    BY <1>5 DEF BuildInventory
  <2> QED
    BY <1>t, <1>5, <2>1 DEF BuildInventory, Goto, reporting
<1>6. ASSUME NEW r \in Runs, NextTask(r) PROVE FreshInv'
  BY <1>t, <1>6 DEF NextTask, Goto, reporting
<1>7. ASSUME NEW r \in Runs, FindFiles(r) PROVE FreshInv'
  <2>1. name'[r] \in Runs
    <3>1. CASE dated = {}
      BY <1>t, <1>7, <3>1 DEF FindFiles
    <3>2. CASE dated # {}
      BY <1>t, <1>7, <3>2 DEF FindFiles, NameInv
    <3> QED
      BY <3>1, <3>2
  <2> QED
    BY <1>t, <1>7, <2>1 DEF FindFiles, Goto, collection
<1>8. ASSUME NEW r \in Runs, WriteReport(r) PROVE FreshInv'
  BY <1>t, <1>8 DEF WriteReport, Goto, collection
<1>9. CASE Tick
  BY <1>9 DEF Tick, run, collection, reporting
<1>10. CASE UNCHANGED vars
  BY <1>10 DEF vars, run, collection, reporting
<1> QED
  BY <1>1, <1>2, <1>3, <1>4, <1>5, <1>6, <1>7, <1>8, <1>9, <1>10, Steps DEF Controls

-----------------------------------------------------------------------------
(* The files of a run.                                                      *)

\* Only the run itself touches the files while it is under way.
LEMMA NextFiles ==
  TypeOK /\ AloneInv /\ FreshInv /\ FilesInv /\ [Next]_vars => FilesInv'
<1> SUFFICES ASSUME TypeOK, AloneInv, FreshInv, FilesInv, [Next]_vars PROVE FilesInv'
  OBVIOUS
<1>t. /\ phase \in [Runs -> Phases] /\ task \in [Runs -> 1..8]
      /\ alive \in [Runs -> SUBSET Hosts] /\ finished \in [Runs -> SUBSET Hosts]
      /\ \A r \in Runs : finished[r] \subseteq alive[r]
      /\ DOMAIN content = Runs /\ toRead \in [Runs -> SUBSET Hosts]
      /\ Len(Tasks) = 8
  BY Types, TaskNumbers DEF TypeOK
<1>e. DOMAIN Empty = {}
  BY NoFiles
<1> USE DEF FilesInv, AloneInv, Active
<1>1. ASSUME NEW r \in Runs, NEW h \in Hosts, HostTask(r, h) PROVE FilesInv'
  <2>1. /\ phase[r] = "collect" /\ finished' = [finished EXCEPT ![r] = @ \cup {h}]
        /\ files' = IF task[r] = 8
                     THEN [g \in DOMAIN files \cup {h} |-> IF g = h THEN r ELSE files[g]]
                     ELSE files
        /\ UNCHANGED <<phase, task, alive, content, toRead, overlapped>>
    <3> HIDE DEF FilesInv, AloneInv
    <3>1. HostStep(r, h)
      BY <1>1, TaskStep
    <3> QED
      BY <3>1 DEF HostStep, Done, reporting
  <2>2. r \notin overlapped =>
            /\ DOMAIN files' = IF task[r] = 8 THEN finished'[r] ELSE {}
            /\ \A g \in DOMAIN files' : files'[g] = r
    BY <1>t, <2>1
  <2> QED
    BY <1>t, <2>1, <2>2
<1>2. ASSUME NEW r \in Runs, NEW h \in Hosts, HostFails(r, h) PROVE FilesInv'
  BY <1>t, <1>2, FailStep DEF Drops, reporting, disk
<1>3. ASSUME NEW r \in Runs, NEW h \in Hosts, CatFile(r, h) PROVE FilesInv'
  BY <1>t, <1>3 DEF CatFile, collection, disk
<1>4. ASSUME NEW r \in Runs, Start(r) \/ Refused(r) \/ MakeDir(r)
                                \/ InventoryFails(r) \/ NoHostsLeft(r) \/ ReportFails(r)
      PROVE  FilesInv'
  BY <1>t, <1>4 DEF Start, Refused, MakeDir, InventoryFails, NoHostsLeft,
              ReportFails, Goto, collection, reporting, disk
<1>5. ASSUME NEW r \in Runs, CleanUp(r) PROVE FilesInv'
  BY <1>t, <1>e, <1>5 DEF CleanUp, Goto, collection, reporting
<1>6. ASSUME NEW r \in Runs, BuildInventory(r) PROVE FilesInv'
  <2>1. task[r] = 1 /\ finished[r] = {}
    BY <1>6 DEF BuildInventory, FreshInv
  <2>2. PICK hosts \in SUBSET Hosts :
            /\ alive' = [alive EXCEPT ![r] = hosts]
            /\ Goto(r, IF hosts = {} THEN "find" ELSE "collect")
    BY <1>6 DEF BuildInventory
  <2>3. /\ phase[r] = "inventory"
        /\ UNCHANGED <<task, finished, toRead, content, files, overlapped>>
    BY <1>6 DEF BuildInventory, reporting, disk
  <2>4. r \notin overlapped => files = Empty
    BY <2>3
  <2>5. CASE hosts = {}
    BY <1>t, <1>e, <2>1, <2>2, <2>3, <2>4, <2>5 DEF Goto
  <2>6. CASE hosts # {}
    BY <1>t, <1>e, <2>1, <2>2, <2>3, <2>4, <2>6 DEF Goto
  <2> QED
    BY <2>5, <2>6
<1>7. ASSUME NEW r \in Runs, NextTask(r) PROVE FilesInv'
  BY <1>t, <1>7 DEF NextTask, Goto, reporting, disk
<1>8. ASSUME NEW r \in Runs, FindFiles(r) PROVE FilesInv'
  <2>1. content[r] = Empty
    BY <1>8 DEF FindFiles, FreshInv
  <2> QED
    BY <1>t, <1>e, <1>8, <2>1 DEF FindFiles, Goto, collection, disk
<1>9. ASSUME NEW r \in Runs, AllRead(r) PROVE FilesInv'
  BY <1>t, <1>9 DEF AllRead, Goto, collection, reporting, disk
<1>10. ASSUME NEW r \in Runs, WriteReport(r) PROVE FilesInv'
  BY <1>t, <1>10 DEF WriteReport, Goto, collection
<1>11. CASE Tick
  BY <1>11 DEF Tick, run, collection, reporting, disk
<1>12. CASE UNCHANGED vars
  BY <1>12 DEF vars, run, collection, reporting, disk
<1> QED
  BY <1>1, <1>2, <1>3, <1>4, <1>5, <1>6, <1>7, <1>8, <1>9, <1>10, <1>11, <1>12, Steps
     DEF Controls

-----------------------------------------------------------------------------
(* The hosts of a run.                                                      *)

\* A host that comes through the collection is through all its tasks.
LEMMA NextHost ==
  TypeOK /\ AloneInv /\ FreshInv /\ HostInv /\ [Next]_vars => HostInv'
<1> SUFFICES ASSUME TypeOK, AloneInv, FreshInv, HostInv, [Next]_vars PROVE HostInv'
  OBVIOUS
<1>t. /\ phase \in [Runs -> Phases] /\ task \in [Runs -> 1..8]
      /\ alive \in [Runs -> SUBSET Hosts] /\ finished \in [Runs -> SUBSET Hosts]
      /\ \A r \in Runs : finished[r] \subseteq alive[r]
      /\ OvsHosts \subseteq Hosts /\ Len(Tasks) = 8
  BY Types, TaskNumbers, RunAssumption
<1>1. ASSUME NEW r \in Runs, NEW h \in Hosts, HostTask(r, h) PROVE HostInv'
  <2>1. HostStep(r, h)
    BY <1>1, TaskStep
  <2>2. SUFFICES ASSUME NEW s \in Runs \ overlapped, NEW g \in OvsHosts \cap alive[s],
                        phase[s] = "collect"
                 PROVE  /\ Through(s, g, 3)' /\ ~Through(s, g, 5)' => manager'[g] = s
                        /\ Through(s, g, 5)' => manager'[g] = NoRun
                        /\ Through(s, g, 6)' => g \notin rule'
    BY <2>1 DEF HostStep, Done, HostInv, Through
  <2>3. s = r
    BY <2>1, <2>2 DEF HostStep, AloneInv, Active
  <2>4. finished' = [finished EXCEPT ![r] = @ \cup {h}] /\ task' = task
    BY <2>1 DEF HostStep, Done
  <2>5. /\ Through(r, g, 3) /\ ~Through(r, g, 5) => manager[g] = r
        /\ Through(r, g, 5) => manager[g] = NoRun
        /\ Through(r, g, 6) => g \notin rule
    BY <2>2, <2>3 DEF HostInv
  <2>6. CASE g # h
    <3>1. Through(r, g, 3)' = Through(r, g, 3) /\ Through(r, g, 5)' = Through(r, g, 5)
            /\ Through(r, g, 6)' = Through(r, g, 6)
      BY <1>t, <2>4, <2>6 DEF Through
    <3>2. manager'[g] = manager[g] /\ (g \in rule' => g \in rule)
      BY <2>1, <2>2, <2>6 DEF HostStep
    <3> QED
      BY <2>3, <2>5, <3>1, <3>2
  <2>7. CASE g = h
    <3>1. /\ Through(r, h, 3)' <=> task[r] >= 3
          /\ Through(r, h, 5)' <=> task[r] >= 5
          /\ Through(r, h, 6)' <=> task[r] >= 6
      BY <1>t, <2>4 DEF Through
    <3>2. /\ Through(r, h, 3) <=> task[r] > 3
          /\ Through(r, h, 5) <=> task[r] > 5
          /\ Through(r, h, 6) <=> task[r] > 6
      BY <1>t, <2>1 DEF Through, HostStep
    <3>3. /\ task[r] = 3 => manager'[h] = r
          /\ task[r] = 5 => manager'[h] = IF manager[h] = r THEN NoRun ELSE manager[h]
          /\ task[r] \notin {3, 5} => manager'[h] = manager[h]
          /\ task[r] # 2 => rule' \subseteq rule
          /\ task[r] = 6 => h \notin rule'
      BY <2>1, <2>2, <2>7 DEF HostStep
    <3> QED
      BY <1>t, <2>3, <2>5, <2>7, <3>1, <3>2, <3>3
  <2> QED
    BY <2>6, <2>7
<1>2. ASSUME NEW r \in Runs, NEW h \in Hosts, HostFails(r, h) PROVE HostInv'
  BY <1>t, <1>2, FailStep DEF Drops, host, HostInv, Through
<1>3. ASSUME NEW r \in Runs, NEW h \in Hosts, CatFile(r, h) PROVE HostInv'
  BY <1>t, <1>3 DEF CatFile, collection, host, HostInv, Through
<1>4. ASSUME NEW r \in Runs, Start(r) \/ Refused(r) \/ CleanUp(r) \/ MakeDir(r)
                                \/ InventoryFails(r) \/ NoHostsLeft(r) \/ FindFiles(r)
                                \/ AllRead(r) \/ WriteReport(r) \/ ReportFails(r)
      PROVE  HostInv'
  BY <1>t, <1>4 DEF Start, Refused, CleanUp, MakeDir, InventoryFails, NoHostsLeft, FindFiles,
              AllRead, WriteReport, ReportFails, Goto, collection, host, HostInv, Through
<1>5. ASSUME NEW r \in Runs, BuildInventory(r) PROVE HostInv'
  <2>1. /\ phase[r] = "inventory" /\ \A q \in Runs \ {r} : phase'[q] = phase[q] /\ alive'[q] = alive[q]
        /\ UNCHANGED <<task, finished, rule, manager, overlapped>>
    BY <1>t, <1>5 DEF BuildInventory, Goto, host, TypeOK
  <2>2. \A h : ~Through(r, h, 3)' /\ ~Through(r, h, 5)' /\ ~Through(r, h, 6)'
    BY <2>1 DEF FreshInv, Through
  <2> QED
    BY <1>t, <2>1, <2>2 DEF HostInv, Through
<1>6. ASSUME NEW r \in Runs, NextTask(r) PROVE HostInv'
  <2>1. /\ UNCHANGED <<alive, rule, manager, overlapped>>
        /\ finished[r] = alive[r]
        /\ \A q \in Runs \ {r} : phase'[q] = phase[q] /\ task'[q] = task[q] /\ finished'[q] = finished[q]
        /\ phase'[r] = "collect" => phase[r] = "collect" /\ task'[r] = task[r] + 1 /\ finished'[r] = {}
    BY <1>t, <1>6 DEF NextTask, Goto, host
  <2>2. \A h \in alive[r] : phase'[r] = "collect" =>
            /\ Through(r, h, 3)' <=> Through(r, h, 3)
            /\ Through(r, h, 5)' <=> Through(r, h, 5)
            /\ Through(r, h, 6)' <=> Through(r, h, 6)
    BY <1>t, <2>1 DEF Through
  <2> QED
    BY <1>t, <2>1, <2>2 DEF HostInv, Through
<1>7. CASE Tick
  BY <1>7 DEF Tick, run, collection, host, HostInv, Through
<1>8. CASE UNCHANGED vars
  BY <1>8 DEF vars, run, collection, host, HostInv, Through
<1> QED
  BY <1>1, <1>2, <1>3, <1>4, <1>5, <1>6, <1>7, <1>8, Steps DEF Controls

LEMMA NextSurvivors ==
  TypeOK /\ AloneInv /\ FreshInv /\ HostInv /\ SurvivorsClean /\ [Next]_vars => SurvivorsClean'
<1> SUFFICES ASSUME TypeOK, AloneInv, FreshInv, HostInv, SurvivorsClean, [Next]_vars
             PROVE  SurvivorsClean'
  OBVIOUS
<1>t. /\ phase \in [Runs -> Phases] /\ task \in [Runs -> 1..8]
      /\ alive \in [Runs -> SUBSET Hosts] /\ finished \in [Runs -> SUBSET Hosts]
      /\ Len(Tasks) = 8
  BY Types, TaskNumbers
<1>1. ASSUME NEW r \in Runs, NEW h \in Hosts, HostTask(r, h) PROVE SurvivorsClean'
  <2>1. phase[r] = "collect" /\ UNCHANGED <<phase, alive, overlapped>>
    BY <1>1, TaskStep DEF HostStep, Done
  <2> QED
    BY <2>1 DEF SurvivorsClean, AloneInv, Active
<1>2. ASSUME NEW r \in Runs, NEW h \in Hosts, HostFails(r, h) PROVE SurvivorsClean'
  BY <1>t, <1>2, FailStep DEF Drops, host, SurvivorsClean
<1>3. ASSUME NEW r \in Runs, NEW h \in Hosts, CatFile(r, h) PROVE SurvivorsClean'
  BY <1>3 DEF CatFile, collection, host, SurvivorsClean
<1>4. ASSUME NEW r \in Runs, Start(r) \/ Refused(r) \/ CleanUp(r) \/ MakeDir(r)
                                \/ InventoryFails(r) \/ NoHostsLeft(r) \/ FindFiles(r)
                                \/ AllRead(r) \/ WriteReport(r) \/ ReportFails(r)
      PROVE  SurvivorsClean'
  BY <1>t, <1>4 DEF Start, Refused, CleanUp, MakeDir, InventoryFails, NoHostsLeft, FindFiles,
              AllRead, WriteReport, ReportFails, Goto, collection, host, SurvivorsClean
<1>5. ASSUME NEW r \in Runs, BuildInventory(r) PROVE SurvivorsClean'
  <2>1. PICK hosts \in SUBSET Hosts :
            /\ alive' = [alive EXCEPT ![r] = hosts]
            /\ phase' = [phase EXCEPT ![r] = IF hosts = {} THEN "find" ELSE "collect"]
    BY <1>5 DEF BuildInventory, Goto
  <2>2. phase[r] = "inventory" /\ UNCHANGED <<rule, manager, overlapped>>
    BY <1>5 DEF BuildInventory, host
  <2> QED
    BY <1>t, <2>1, <2>2 DEF SurvivorsClean
<1>6. ASSUME NEW r \in Runs, NextTask(r) PROVE SurvivorsClean'
  <2>1. /\ UNCHANGED <<alive, rule, manager, overlapped>>
        /\ \A q \in Runs \ {r} : phase'[q] = phase[q]
        /\ phase'[r] # "collect" =>
              phase[r] = "collect" /\ task[r] = 8
    BY <1>t, <1>6 DEF NextTask, Goto, host
  <2>2. phase'[r] # "collect" /\ r \notin overlapped =>
            \A h \in alive[r] \cap OvsHosts : h \notin rule /\ manager[h] = NoRun
    BY <2>1 DEF HostInv, Through
  <2> QED
    BY <1>t, <2>1, <2>2 DEF SurvivorsClean
<1>7. CASE Tick
  BY <1>7 DEF Tick, run, collection, host, SurvivorsClean
<1>8. CASE UNCHANGED vars
  BY <1>8 DEF vars, run, collection, host, SurvivorsClean
<1> QED
  BY <1>1, <1>2, <1>3, <1>4, <1>5, <1>6, <1>7, <1>8, Steps DEF Controls

-----------------------------------------------------------------------------
(* The clock and the names of reports.                                      *)

LEMMA NextWait ==
  TypeOK /\ AloneInv /\ FreshInv /\ FilesInv /\ WaitInv /\ [Next]_vars => WaitInv'
<1> SUFFICES ASSUME TypeOK, AloneInv, FreshInv, FilesInv, WaitInv, [Next]_vars PROVE WaitInv'
  OBVIOUS
<1>t. /\ phase \in [Runs -> Phases] /\ task \in [Runs -> 1..8]
      /\ alive \in [Runs -> SUBSET Hosts] /\ finished \in [Runs -> SUBSET Hosts]
      /\ waiting \subseteq Runs /\ Len(Tasks) = 8
  BY Types, TaskNumbers DEF TypeOK
<1>1. ASSUME NEW r \in Runs, NEW h \in Hosts, HostTask(r, h) PROVE WaitInv'
  <2>1. /\ task[r] = 1 => r \notin waiting
        /\ UNCHANGED <<phase, task, waiting, dated, overlapped>>
        /\ finished' = [finished EXCEPT ![r] = @ \cup {h}]
        /\ task[r] # 8 => files' = files
    <3>1. HostStep(r, h)
      BY <1>1, TaskStep
    <3> QED
      BY <3>1 DEF HostStep, Done, clock
  <2>2. phase[r] = "collect"
    BY <1>1, TaskStep DEF HostStep
  <2>3. r \notin overlapped => r \notin waiting
    BY <2>1, <2>2 DEF WaitInv
  <2>4. \A s \in Runs \ overlapped : phase[s] \in {"collect", "find"} => s = r \/ r \in overlapped
    BY <2>2 DEF AloneInv, Active
  <2>5. r \in overlapped => \A s \in Runs \ overlapped : ~Active(s)
    BY <2>2 DEF AloneInv, Active
  <2> QED
    BY <2>1, <2>3, <2>4, <2>5 DEF WaitInv, Active
<1>2. ASSUME NEW r \in Runs, NEW h \in Hosts, HostFails(r, h) PROVE WaitInv'
  BY <1>2, FailStep DEF Drops, disk, clock, WaitInv
<1>3. ASSUME NEW r \in Runs, NEW h \in Hosts, CatFile(r, h) PROVE WaitInv'
  BY <1>3 DEF CatFile, collection, disk, clock, WaitInv
<1>4. ASSUME NEW r \in Runs, Start(r) \/ Refused(r) \/ MakeDir(r)
                                \/ InventoryFails(r) \/ NoHostsLeft(r)
                                \/ AllRead(r) \/ ReportFails(r)
      PROVE  WaitInv'
  BY <1>t, <1>4 DEF Start, Refused, MakeDir, InventoryFails, NoHostsLeft,
              AllRead, ReportFails, Goto, collection, disk, clock, WaitInv
<1>5. ASSUME NEW r \in Runs, CleanUp(r) PROVE WaitInv'
  BY <1>t, <1>5 DEF CleanUp, Goto, collection, clock, WaitInv
<1>6. ASSUME NEW r \in Runs, BuildInventory(r) PROVE WaitInv'
  <2>1. /\ phase[r] = "inventory" /\ waiting' = waiting \cup {r}
        /\ \A q \in Runs \ {r} : phase'[q] = phase[q]
        /\ UNCHANGED <<task, finished, files, dated, overlapped>>
    BY <1>t, <1>6 DEF BuildInventory, Goto, disk
  <2>2. task[r] = 1 /\ finished[r] = {} /\ (r \notin overlapped => files = Empty)
    BY <2>1 DEF FreshInv, FilesInv
  <2> QED
    BY <2>1, <2>2 DEF WaitInv
<1>7. ASSUME NEW r \in Runs, NextTask(r) PROVE WaitInv'
  <2>1. /\ phase[r] = "collect" /\ alive[r] # {} /\ finished[r] = alive[r]
        /\ \A q \in Runs \ {r} :
              phase'[q] = phase[q] /\ task'[q] = task[q] /\ finished'[q] = finished[q]
        /\ UNCHANGED <<files, waiting, dated, overlapped>>
    BY <1>t, <1>7 DEF NextTask, Goto, disk, clock
  <2> QED
    BY <2>1 DEF WaitInv
<1>8. ASSUME NEW r \in Runs, FindFiles(r) PROVE WaitInv'
  BY <1>t, <1>8 DEF FindFiles, Goto, collection, disk, WaitInv, AloneInv, Active
<1>9. ASSUME NEW r \in Runs, WriteReport(r) PROVE WaitInv'
  BY <1>t, <1>9 DEF WriteReport, Goto, collection, clock, WaitInv
<1>10. CASE Tick
  BY <1>10 DEF Tick, run, collection, disk, WaitInv
<1>11. CASE UNCHANGED vars
  BY <1>11 DEF vars, run, collection, disk, clock, WaitInv
<1> QED
  BY <1>1, <1>2, <1>3, <1>4, <1>5, <1>6, <1>7, <1>8, <1>9, <1>10, <1>11, Steps DEF Controls

LEMMA NextSecond ==
  TypeOK /\ AloneInv /\ FreshInv /\ WaitInv /\ SecondInv /\ NameInv /\ [Next]_vars => SecondInv'
<1> SUFFICES ASSUME TypeOK, AloneInv, FreshInv, WaitInv, SecondInv, NameInv, [Next]_vars
             PROVE  SecondInv'
  OBVIOUS
<1>t. /\ phase \in [Runs -> Phases] /\ task \in [Runs -> 1..8]
      /\ alive \in [Runs -> SUBSET Hosts] /\ finished \in [Runs -> SUBSET Hosts]
      /\ waiting \subseteq Runs /\ dated \subseteq Runs /\ Len(Tasks) = 8
  BY Types, TaskNumbers DEF TypeOK
<1>d. \A r \in dated : phase[r] \in {"cat", "report", "ended"}
  BY DEF NameInv
<1>1. ASSUME NEW r \in Runs, NEW h \in Hosts, HostTask(r, h) PROVE SecondInv'
  <2>1. HostStep(r, h)
    BY <1>1, TaskStep
  <2>2. /\ phase[r] = "collect" /\ (task[r] = 1 => r \notin waiting)
        /\ UNCHANGED <<phase, task, waiting, dated, overlapped>>
    BY <2>1 DEF HostStep, Done, clock
  <2>3. dated \subseteq overlapped
    BY <1>d, <1>t, <2>2 DEF SecondInv
  <2> QED
    BY <2>2, <2>3 DEF SecondInv
<1>2. ASSUME NEW r \in Runs, NEW h \in Hosts, HostFails(r, h) PROVE SecondInv'
  BY <1>2, FailStep DEF Drops, disk, clock, SecondInv
<1>3. ASSUME NEW r \in Runs, NEW h \in Hosts, CatFile(r, h) PROVE SecondInv'
  BY <1>3 DEF CatFile, collection, disk, clock, SecondInv
<1>4. ASSUME NEW r \in Runs, Start(r) \/ Refused(r) \/ MakeDir(r)
                                \/ InventoryFails(r) \/ NoHostsLeft(r)
                                \/ AllRead(r) \/ ReportFails(r)
      PROVE  SecondInv'
  BY <1>t, <1>4 DEF Start, Refused, MakeDir, InventoryFails, NoHostsLeft,
              AllRead, ReportFails, Goto, collection, disk, clock, SecondInv
<1>5. ASSUME NEW r \in Runs, CleanUp(r) PROVE SecondInv'
  BY <1>t, <1>5 DEF CleanUp, Goto, collection, clock, SecondInv
<1>6. ASSUME NEW r \in Runs, BuildInventory(r) PROVE SecondInv'
  <2>1. /\ phase[r] = "inventory" /\ waiting' = waiting \cup {r}
        /\ phase'[r] \in {"find", "collect"}
        /\ \A q \in Runs \ {r} : phase'[q] = phase[q]
        /\ UNCHANGED <<task, finished, files, dated, overlapped>>
    BY <1>t, <1>6 DEF BuildInventory, Goto, disk
  <2>2. task[r] = 1 /\ finished[r] = {}
    BY <2>1 DEF FreshInv
  <2> QED
    BY <1>t, <2>1, <2>2 DEF SecondInv
<1>7. ASSUME NEW r \in Runs, NextTask(r) PROVE SecondInv'
  <2>1. /\ phase[r] = "collect" /\ alive[r] # {} /\ finished[r] = alive[r]
        /\ UNCHANGED <<dated, overlapped>>
    BY <1>7 DEF NextTask, clock
  <2>2. dated \subseteq overlapped
    BY <1>d, <1>t, <2>1 DEF SecondInv
  <2> QED
    BY <2>1, <2>2 DEF SecondInv
<1>8. ASSUME NEW r \in Runs, FindFiles(r) PROVE SecondInv'
  <2>1. /\ phase[r] = "find" /\ dated' = dated \cup {r}
        /\ phase' = [phase EXCEPT ![r] = "cat"] /\ DOMAIN files # {}
        /\ UNCHANGED <<task, finished, files, waiting, overlapped>>
    BY <1>8 DEF FindFiles, Goto, collection, disk
  <2>2. files # Empty
    BY <2>1, NoFiles
  <2>3. dated \subseteq overlapped
    BY <1>d, <1>t, <2>1, <2>2 DEF SecondInv
  <2>4. r \notin overlapped => \A q \in Runs \ {r} : ~Active(q)
    BY <2>1 DEF AloneInv, Active
  <2> QED
    BY <1>t, <2>1, <2>3, <2>4 DEF SecondInv, Active
<1>9. ASSUME NEW r \in Runs, WriteReport(r) PROVE SecondInv'
  BY <1>t, <1>9 DEF WriteReport, Goto, collection, clock, SecondInv
<1>10. CASE Tick
  BY <1>10 DEF Tick, SecondInv
<1>11. CASE UNCHANGED vars
  BY <1>11 DEF vars, run, collection, disk, clock, SecondInv
<1> QED
  BY <1>1, <1>2, <1>3, <1>4, <1>5, <1>6, <1>7, <1>8, <1>9, <1>10, <1>11, Steps DEF Controls

\* When a run that is not overlapped finds files, it is the first of its second.
LEMMA FirstOfSecond ==
  ASSUME AloneInv, WaitInv, NEW r \in Runs \ overlapped, FindFiles(r)
  PROVE  dated = {}
<1>1. phase[r] = "find" /\ files # Empty
  BY NoFiles DEF FindFiles
<1> QED
  BY <1>1 DEF WaitInv

LEMMA NextName ==
  TypeOK /\ AloneInv /\ FreshInv /\ WaitInv /\ SecondInv /\ NameInv /\ [Next]_vars => NameInv'
<1> SUFFICES ASSUME TypeOK, AloneInv, FreshInv, WaitInv, SecondInv, NameInv, [Next]_vars
             PROVE  NameInv'
  OBVIOUS
<1>t. /\ phase \in [Runs -> Phases] /\ dated \subseteq Runs
      /\ name \in [Runs -> Runs \cup {NoRun}]
  BY DEF TypeOK
<1>1. ASSUME NEW r \in Runs, FindFiles(r) PROVE NameInv'
  <2> DEFINE n == IF dated = {} THEN r ELSE name[CHOOSE q \in dated : TRUE]
  <2>1. /\ phase[r] = "find" /\ name' = [name EXCEPT ![r] = n] /\ dated' = dated \cup {r}
        /\ phase' = [phase EXCEPT ![r] = "cat"] /\ UNCHANGED overlapped
        /\ DOMAIN files # {}
    BY <1>1 DEF FindFiles, Goto
  <2>2. name[r] = NoRun /\ NoRun \notin Runs
    BY <2>1, RunAssumption DEF FreshInv
  <2>3. \A q \in Runs : name[q] # r
    BY <1>t, <2>2 DEF NameInv
  <2>4. \/ dated = {} /\ n = r
        \/ \E q \in dated : n = name[q] /\ n \in Runs /\ name[n] = n
    BY <1>t DEF NameInv
  <2>5. n \in Runs /\ r \notin dated
    BY <1>t, <2>1, <2>4 DEF NameInv
  <2> HIDE DEF n
  <2>6. \A q \in dated' : name'[q] \in Runs /\ phase'[q] \in {"cat", "report", "ended"}
    BY <1>t, <2>1, <2>5 DEF NameInv
  <2>7. \A q \in Runs : name'[q] \in Runs => name'[name'[q]] = name'[q]
    <3>1. name'[n] = n
      BY <1>t, <2>1, <2>4, <2>5
    <3>2. ASSUME NEW q \in Runs \ {r}, name'[q] \in Runs PROVE name'[name'[q]] = name'[q]
      BY <1>t, <2>1, <2>3, <3>2 DEF NameInv
    <3> QED
      BY <1>t, <2>1, <3>1, <3>2
  <2>8. ASSUME NEW s \in Runs \ overlapped, name'[s] \in Runs
        PROVE  name'[s] = s /\ \A q \in Runs \ {s} : name'[q] # s
    <3>1. CASE s = r
      <4>1. n = r
        BY <1>1, <2>4, <2>8, <3>1, FirstOfSecond
      <4> QED
        BY <1>t, <2>1, <2>3, <3>1, <4>1
    <3>2. CASE s # r
      <4>1. name[s] = s /\ \A q \in Runs \ {s} : name[q] # s
        BY <1>t, <2>1, <2>8, <3>2 DEF NameInv
      <4>2. s \notin dated
        BY <1>t, <2>1, <2>8, <3>2, NoFiles DEF SecondInv
      <4>3. n # s
        BY <1>t, <2>4, <3>2, <4>1, <4>2
      <4> QED
        BY <1>t, <2>1, <3>2, <4>1, <4>3
    <3> QED
      BY <3>1, <3>2
  <2> QED
    BY <2>1, <2>6, <2>7, <2>8 DEF NameInv
<1>2. ASSUME UNCHANGED <<dated, name>>, overlapped \subseteq overlapped',
             \A r \in Runs : phase[r] \in {"cat", "report", "ended"} =>
                                 phase'[r] \in {"cat", "report", "ended"}
      PROVE  NameInv'
  BY <1>t, <1>2 DEF NameInv
<1>3. ASSUME NEW r \in Runs, NEW h \in Hosts, HostTask(r, h) PROVE NameInv'
  <2>1. UNCHANGED <<phase, dated, name, overlapped>>
    BY <1>3, TaskStep DEF HostStep, Done, reporting, clock
  <2> QED
    BY <1>2, <2>1
<1>4. ASSUME NEW r \in Runs, NEW h \in Hosts, HostFails(r, h) PROVE NameInv'
  BY <1>2, <1>4, FailStep DEF Drops, reporting, clock
<1>5. ASSUME NEW r \in Runs, NEW h \in Hosts, CatFile(r, h) PROVE NameInv'
  BY <1>2, <1>5 DEF CatFile, collection, clock
<1>6. ASSUME NEW r \in Runs, Controls(r), ~FindFiles(r) PROVE NameInv'
  <2>1. UNCHANGED <<dated, name>> /\ overlapped \subseteq overlapped'
    BY <1>6 DEF Controls, Start, Refused, CleanUp, MakeDir, BuildInventory, InventoryFails,
                NextTask, NoHostsLeft, AllRead, WriteReport, ReportFails, reporting, clock
  <2>2. \A q \in Runs : phase[q] \in {"cat", "report", "ended"} =>
                            phase'[q] \in {"cat", "report", "ended"}
    BY <1>t, <1>6 DEF Controls, Start, Refused, CleanUp, MakeDir, BuildInventory, InventoryFails,
                NextTask, NoHostsLeft, AllRead, WriteReport, ReportFails, Goto
  <2> QED
    BY <1>2, <2>1, <2>2
<1>7. CASE Tick
  BY <1>7 DEF Tick, run, reporting, NameInv
<1>8. CASE UNCHANGED vars
  BY <1>8 DEF vars, run, reporting, clock, NameInv
<1> QED
  BY <1>1, <1>3, <1>4, <1>5, <1>6, <1>7, <1>8, Steps DEF Controls

-----------------------------------------------------------------------------
(* The reports.                                                             *)

\* A step writes one report, or changes none and no host of a finished run.
LEMMA ReportSteps ==
  ASSUME TypeOK, FreshInv, [Next]_vars
  PROVE  \/ \E r \in Runs : WriteReport(r)
         \/ /\ UNCHANGED <<report, outputs>> /\ overlapped \subseteq overlapped'
            /\ \A r \in Runs : report[r] # Empty => alive'[r] = alive[r]
<1>t. alive \in [Runs -> SUBSET Hosts]
  BY DEF TypeOK
<1>1. ASSUME NEW r \in Runs, NEW h \in Hosts, HostTask(r, h)
      PROVE  UNCHANGED <<report, outputs, overlapped, alive>>
  BY <1>1, TaskStep DEF HostStep, Done, reporting
<1>2. ASSUME NEW r \in Runs, NEW h \in Hosts, HostFails(r, h)
      PROVE  /\ UNCHANGED <<report, outputs, overlapped>>
             /\ report[r] = Empty /\ \A q \in Runs \ {r} : alive'[q] = alive[q]
  BY <1>t, <1>2, FailStep DEF Drops, reporting, disk, FreshInv
<1>3. ASSUME NEW r \in Runs, NEW h \in Hosts, CatFile(r, h)
      PROVE  UNCHANGED <<report, outputs, overlapped, alive>>
  BY <1>3 DEF CatFile, collection, disk
<1>4. ASSUME NEW r \in Runs, Controls(r), ~WriteReport(r), ~BuildInventory(r)
      PROVE  UNCHANGED <<report, outputs, alive>> /\ overlapped \subseteq overlapped'
  BY <1>4 DEF Controls, Start, Refused, CleanUp, MakeDir, InventoryFails, NextTask,
              NoHostsLeft, FindFiles, AllRead, ReportFails, collection, reporting, disk
<1>5. ASSUME NEW r \in Runs, BuildInventory(r)
      PROVE  /\ UNCHANGED <<report, outputs, overlapped>>
             /\ report[r] = Empty /\ \A q \in Runs \ {r} : alive'[q] = alive[q]
  BY <1>t, <1>5 DEF BuildInventory, reporting, disk, FreshInv
<1>6. CASE Tick
  BY <1>6 DEF Tick, run, collection, reporting, disk
<1>7. CASE UNCHANGED vars
  BY <1>7 DEF vars, run, collection, reporting, disk
<1> QED
  BY <1>1, <1>2, <1>3, <1>4, <1>5, <1>6, <1>7, Steps

LEMMA NextReport ==
  TypeOK /\ FreshInv /\ FilesInv /\ ReportExact /\ [Next]_vars => ReportExact'
<1> SUFFICES ASSUME TypeOK, FreshInv, FilesInv, ReportExact, [Next]_vars PROVE ReportExact'
  OBVIOUS
<1>1. ASSUME NEW r \in Runs, WriteReport(r) PROVE ReportExact'
  BY <1>1 DEF WriteReport, collection, TypeOK, FilesInv, ReportExact
<1>2. ASSUME UNCHANGED report, overlapped \subseteq overlapped',
             \A r \in Runs : report[r] # Empty => alive'[r] = alive[r]
      PROVE  ReportExact'
  BY <1>2 DEF ReportExact
<1> QED
  BY <1>1, <1>2, ReportSteps

LEMMA NextKept ==
  TypeOK /\ FreshInv /\ NameInv /\ KeptInv /\ [Next]_vars => KeptInv'
<1> SUFFICES ASSUME TypeOK, FreshInv, NameInv, KeptInv, [Next]_vars PROVE KeptInv'
  OBVIOUS
<1>1. ASSUME NEW r \in Runs, WriteReport(r) PROVE KeptInv'
  <2>1. /\ phase[r] = "report" /\ report' = [report EXCEPT ![r] = content[r]]
        /\ outputs' = [n \in DOMAIN outputs \cup {name[r]} |->
                         IF n = name[r] THEN r ELSE outputs[n]]
        /\ UNCHANGED overlapped
    BY <1>1 DEF WriteReport
  <2>2. name[r] \in Runs
    BY <2>1 DEF FreshInv
  <2>3. r \notin overlapped => name[r] = r
    BY <2>2 DEF NameInv
  <2>4. ASSUME NEW s \in Runs \ overlapped, s # r, report[s] # Empty PROVE name[r] # s
    <3>1. name[s] \in Runs
      BY <2>4 DEF FreshInv
    <3> QED
      BY <2>4, <3>1 DEF NameInv
  <2>5. DOMAIN report = Runs
    BY DEF TypeOK
  <2> QED
    BY <2>1, <2>3, <2>4, <2>5 DEF KeptInv
<1>2. ASSUME UNCHANGED <<report, outputs>>, overlapped \subseteq overlapped' PROVE KeptInv'
  BY <1>2 DEF KeptInv
<1> QED
  BY <1>1, <1>2, ReportSteps

\* The report of such a run bears the run's own name.
LEMMA KeptReport == FreshInv /\ NameInv /\ KeptInv => ReportKept
  BY DEF FreshInv, NameInv, KeptInv, ReportKept

-----------------------------------------------------------------------------
(* The theorems.                                                            *)

LEMMA InitRInv == Init => RInv
<1> SUFFICES ASSUME Init PROVE RInv
  OBVIOUS
<1>1. /\ TypeOK /\ \A r \in Runs : phase[r] = "idle" /\ task[r] = 1 /\ alive[r] = {}
                        /\ finished[r] = {} /\ content[r] = Empty /\ report[r] = Empty
                        /\ name[r] = NoRun
      /\ dated = {} /\ NoRun \notin Runs
  BY InitType, RunAssumption DEF Init
<1>2. AloneInv /\ FreshInv /\ FilesInv /\ HostInv /\ WaitInv /\ SecondInv
  BY <1>1 DEF AloneInv, FreshInv, FilesInv, HostInv, WaitInv, SecondInv, Active
<1>3. NameInv /\ KeptInv /\ ReportExact /\ SurvivorsClean
  BY <1>1 DEF NameInv, KeptInv, ReportExact, SurvivorsClean
<1> QED
  BY <1>1, <1>2, <1>3 DEF RInv

LEMMA NextRInv == RInv /\ [Next]_vars => RInv'
<1> SUFFICES ASSUME RInv, [Next]_vars PROVE RInv'
  OBVIOUS
<1>1. /\ TypeOK /\ AloneInv /\ FreshInv /\ FilesInv /\ HostInv /\ WaitInv /\ SecondInv
      /\ NameInv /\ KeptInv /\ ReportExact /\ SurvivorsClean
  BY DEF RInv
<1>2. /\ TypeOK' /\ AloneInv' /\ FreshInv' /\ FilesInv' /\ HostInv' /\ WaitInv' /\ SecondInv'
      /\ NameInv' /\ KeptInv' /\ ReportExact' /\ SurvivorsClean'
  BY <1>1, NextType, NextAlone, NextFresh, NextFiles, NextHost, NextSurvivors, NextWait,
     NextSecond, NextName, NextReport, NextKept
<1> QED
  BY <1>2 DEF RInv

LEMMA Always == Spec => []RInv
  BY InitRInv, NextRInv, PTL DEF Spec

\* Type correctness of runs, hosts and the output directory.
THEOREM TypeCorrect == Spec => []TypeOK
<1>1. RInv => TypeOK
  BY DEF RInv
<1> QED
  BY <1>1, Always, PTL

\* The report of a run that nothing overlaps has the run's data of the hosts that came
\* through, for any number of runs and hosts and whichever tasks fail.
THEOREM Exact == Spec => []ReportExact
<1>1. RInv => ReportExact
  BY DEF RInv
<1> QED
  BY <1>1, Always, PTL

\* Hosts that come through such a run have neither rule nor Manager left, whatever
\* runs before it left on them.
THEOREM Clean == Spec => []SurvivorsClean
<1>1. RInv => SurvivorsClean
  BY DEF RInv
<1> QED
  BY <1>1, Always, PTL

\* No other run ever takes the name of its report.
THEOREM Kept == Spec => []ReportKept
<1>1. RInv => ReportKept
  BY KeptReport DEF RInv
<1> QED
  BY <1>1, Always, PTL
=============================================================================
