------------------------ MODULE TopologyImportProofs ------------------------
(***************************************************************************)
(* Theorems about TopologyImport, for all reports, any number of importers *)
(* and every number of failures, deletions and touched reports.            *)
(***************************************************************************)
EXTENDS TopologyCompare, SequenceLemmas

Requesting(p) == pc[p] \in Requests

\* Where an importer is: before the choice of a report it has none, and while it
\* makes requests it is at a mapping of the report.
PlaceInv ==
    \A p \in Importers :
        /\ pc[p] \in {"populate", "refused"} <=> chosen[p] = 0
        /\ Requesting(p) => at[p] <= Len(Work(p))

\* The summary has interfaces that were dealt with, and that of the mapping before
\* has no failure there that the list lacks.
ListInv ==
    \A p \in Importers : \A key \in DOMAIN summary[p] :
        /\ \E n \in 1..at[p] - 1 : Work(p)[n].key = key
        /\ Work(p)[at[p] - 1].key = key => summary[p][key] \subseteq mapping[p]

\* An id is that of one mapping, and the one found is that of the current mapping
\* or of none.
IdInv ==
    /\ \A s \in Slots : store[s].id < nextId /\ (store[s].id = 0 => store[s] = Unmapped)
    /\ \A s, t \in Slots : store[s].id = store[t].id /\ store[s].id # 0 => s = t
    /\ \A p \in Importers : pc[p] = "update" =>
          /\ found[p] # 0 /\ found[p] < nextId
          /\ \A s \in Slots : store[s].id = found[p] => s = Current(p).slot

LocalInv == TypeOK /\ PlaceInv /\ ListInv
IInv == LocalInv /\ IdInv /\ ImportAccounted

-----------------------------------------------------------------------------
(* Reports and their mappings.                                              *)

\* The mappings of an interface are its own.
LEMMA OfInterface ==
  ASSUME NEW interface, interface.vfs \in Seq(ToSet(interface.vfs))
  PROVE  /\ MappingsOf(interface) \in Seq(ToSet(MappingsOf(interface)))
         /\ Len(MappingsOf(interface)) = Len(interface.vfs) + 1
         /\ DOMAIN MappingsOf(interface) = 1..Len(interface.vfs) + 1
         /\ \A n \in DOMAIN MappingsOf(interface) :
               /\ MappingsOf(interface)[n].key = <<interface.host, interface.name>>
               /\ MappingsOf(interface)[n].port = interface.port
               /\ MappingsOf(interface)[n].slot =
                     <<interface.host, IF n <= Len(interface.vfs) THEN interface.vfs[n]
                                                                  ELSE interface.name>>
<1>1. Len(interface.vfs) \in Nat
  OBVIOUS
<1> DEFINE n == Len(interface.vfs) + 1
<1>2. n \in Nat /\ DOMAIN MappingsOf(interface) = 1..n
  BY <1>1 DEF MappingsOf
<1>3. MappingsOf(interface) \in Seq(ToSet(MappingsOf(interface)))
  <2>1. \A k \in 1..n : MappingsOf(interface)[k] \in ToSet(MappingsOf(interface))
    BY <1>2 DEF ToSet
  <2> DEFINE f == MappingsOf(interface)
  <2>2. f = [k \in 1..n |-> f[k]]
    BY <1>2 DEF MappingsOf
  <2> HIDE DEF f, n
  <2>3. f \in [1..n -> ToSet(f)]
    BY <1>2, <2>1, <2>2 DEF f
  <2> QED
    BY <1>2, <2>3, SeqDef DEF f
<1>4. Len(MappingsOf(interface)) = n
  BY <1>2, <1>3
<1> QED
  BY <1>1, <1>2, <1>3, <1>4 DEF MappingsOf

\* The mappings of a report are those of its interfaces, each slot has one, and those of
\* an interface are together.
LEMMA OfReport ==
  ASSUME NEW report, IsReport(report)
  PROVE  /\ MappingsIn(report) \in Seq(ToSet(MappingsIn(report)))
         /\ report # <<>> => MappingsIn(report) # <<>>
         /\ \A i \in DOMAIN report : \A a \in DOMAIN MappingsOf(report[i]) :
               \E n \in DOMAIN MappingsIn(report) :
                  MappingsIn(report)[n] = MappingsOf(report[i])[a]
         /\ IsInjective([k \in DOMAIN MappingsIn(report) |-> MappingsIn(report)[k].slot])
         /\ \A a, b, c \in DOMAIN MappingsIn(report) :
               (a < b /\ b < c /\ MappingsIn(report)[a].key = MappingsIn(report)[c].key)
                   => MappingsIn(report)[b].key = MappingsIn(report)[c].key
<1> DEFINE of == [i \in 1..Len(report) |-> MappingsOf(report[i])]
           S == UNION {ToSet(MappingsOf(report[i])) : i \in 1..Len(report)}
           work == MappingsIn(report)
<1>1. Len(report) \in Nat /\ DOMAIN report = 1..Len(report)
  BY DEF IsReport
<1>2. ASSUME NEW i \in 1..Len(report)
      PROVE  /\ MappingsOf(report[i]) \in Seq(S) /\ of[i] = MappingsOf(report[i])
             /\ DOMAIN of[i] = 1..Len(of[i]) /\ Len(of[i]) \in Nat
             /\ Len(of[i]) = Len(report[i].vfs) + 1 /\ Len(report[i].vfs) \in Nat
             /\ \A a \in 1..Len(of[i]) :
                   of[i][a].key = <<report[i].host, report[i].name>>
             /\ of[i][Len(of[i])].slot = <<report[i].host, report[i].name>>
  <2>1. report[i].vfs \in Seq(ToSet(report[i].vfs)) /\ Len(report[i].vfs) \in Nat
    BY <1>1 DEF IsReport
  <2>2. ToSet(MappingsOf(report[i])) \subseteq S
    OBVIOUS
  <2>3. MappingsOf(report[i]) \in Seq(ToSet(MappingsOf(report[i])))
    BY <2>1, OfInterface
  <2>4. MappingsOf(report[i]) \in Seq(S)
    BY <2>2, <2>3
  <2>5. ~(Len(report[i].vfs) + 1 <= Len(report[i].vfs))
        /\ Len(report[i].vfs) + 1 \in 1..Len(report[i].vfs) + 1
    BY <2>1
  <2> QED
    BY <2>1, <2>4, <2>5, OfInterface
<1>3. of \in Seq(Seq(S)) /\ Len(of) = Len(report)
  <2>1. of \in [1..Len(report) -> Seq(S)]
    BY <1>2
  <2> HIDE DEF of, S
  <2> QED
    BY <1>1, <2>1
<1>4. work = FlattenSeq(of)
  BY DEF MappingsIn
<1>5. PICK start : Places(start, of, Len(report), work)
  <2> HIDE DEF of, S, work
  <2> QED
    BY <1>3, <1>4, Flatten
<1>6. work \in Seq(S) /\ DOMAIN work = 1..Len(work) /\ Len(work) \in Nat
  <2> HIDE DEF of, S, work
  <2>1. work \in Seq(S)
    BY <1>3, <1>4, Flatten
  <2> QED
    BY <2>1
<1> HIDE DEF of, S, work
<1>7. work \in Seq(ToSet(work))
  BY <1>6 DEF ToSet
<1>8. ASSUME NEW i \in 1..Len(report), NEW a \in 1..Len(of[i])
      PROVE  start[i] + a \in 1..Len(work) /\ work[start[i] + a] = of[i][a]
  <2>1. work[start[i] + a] = of[i][a]
    BY <1>5 DEF Places
  <2>2. start[i] \in Nat /\ start[i + 1] \in Nat /\ start[i + 1] = start[i] + Len(of[i])
    <3>1. i \in 1..Len(report) + 1 /\ i + 1 \in 1..Len(report) + 1
      BY <1>1
    <3> QED
      BY <1>5, <3>1 DEF Places
  <2>3. start[i + 1] <= start[Len(report) + 1] /\ start[Len(report) + 1] = Len(work)
    <3>1. start[Len(report) + 1] = Len(work)
      BY <1>5 DEF Places
    <3>2. CASE i = Len(report)
      BY <2>2, <3>1, <3>2
    <3>3. CASE i # Len(report)
      <4>1. Len(report) \in 1..Len(report) /\ i < Len(report)
        <5>1. \A m \in Nat : \A k \in 1..m : k # m => m \in 1..m /\ k < m
          OBVIOUS
        <5> QED
          BY <1>1, <3>3, <5>1, Zenon
      <4>2. start[i + 1] <= start[Len(report)]
        BY <1>5, <4>1 DEF Places
      <4>3. start[Len(report) + 1] = start[Len(report)] + Len(of[Len(report)])
        BY <1>5, <4>1 DEF Places
      <4>4. Len(of[Len(report)]) \in Nat /\ start[Len(report)] \in Nat
        <5>1. Len(report) \in 1..Len(report) + 1
          BY <1>1
        <5> QED
          BY <1>2, <1>5, <4>1, <5>1 DEF Places
      <4> QED
        BY <2>2, <3>1, <4>2, <4>3, <4>4
    <3> QED
      BY <3>1, <3>2, <3>3
  <2>4. a \in Nat /\ a >= 1 /\ a <= Len(of[i])
    BY <1>2
  <2>5. start[i] + a \in 1..Len(work)
    BY <1>2, <1>6, <2>2, <2>3, <2>4
  <2> QED
    BY <2>1, <2>5
\* Where the mappings stand.
<1>9. ASSUME NEW n \in 1..Len(work)
      PROVE  \E i \in 1..Len(report) : \E a \in 1..Len(of[i]) :
                /\ n = start[i] + a /\ work[n] = of[i][a]
                /\ start[i] < n /\ n <= start[i + 1]
                /\ start[i] \in Nat /\ start[i + 1] \in Nat
  <2>1. PICK i \in 1..Len(report) : \E a \in 1..Len(of[i]) : n = start[i] + a
    BY <1>5 DEF Places
  <2>2. PICK a \in 1..Len(of[i]) : n = start[i] + a
    BY <2>1
  <2>3. i \in 1..Len(report) + 1 /\ i + 1 \in 1..Len(report) + 1
    BY <1>1
  <2>4. start[i] \in Nat /\ start[i + 1] \in Nat /\ start[i + 1] = start[i] + Len(of[i])
    BY <1>5, <2>3 DEF Places
  <2>5. a \in Nat /\ 1 <= a /\ a <= Len(of[i]) /\ Len(of[i]) \in Nat
    BY <1>2
  <2>6. start[i] < n /\ n <= start[i + 1]
    BY <2>2, <2>4, <2>5
  <2> QED
    BY <1>8, <2>2, <2>4, <2>6
<1>s. ASSUME NEW i \in 1..Len(report), NEW j \in 1..Len(report),
             NEW a \in 1..Len(of[i]), NEW b \in 1..Len(of[j]), of[i][a].slot = of[j][b].slot
      PROVE  i = j /\ a = b
  <2>1. of[i] = MappingsOf(report[i]) /\ a \in DOMAIN MappingsOf(report[i])
    BY <1>2
  <2>2. of[j] = MappingsOf(report[j]) /\ b \in DOMAIN MappingsOf(report[j])
    BY <1>2
  <2> QED
    BY <1>1, <1>s, <2>1, <2>2 DEF IsReport
<1>10. IsInjective([k \in DOMAIN work |-> work[k].slot])
  <2> SUFFICES ASSUME NEW m \in 1..Len(work), NEW n \in 1..Len(work),
                      work[m].slot = work[n].slot
               PROVE  m = n
    BY <1>6 DEF IsInjective
  <2>1. PICK i \in 1..Len(report) : \E a \in 1..Len(of[i]) :
                 m = start[i] + a /\ work[m] = of[i][a]
    BY <1>9
  <2>2. PICK a \in 1..Len(of[i]) : m = start[i] + a /\ work[m] = of[i][a]
    BY <2>1
  <2>3. PICK j \in 1..Len(report) : \E b \in 1..Len(of[j]) :
                 n = start[j] + b /\ work[n] = of[j][b]
    BY <1>9
  <2>4. PICK b \in 1..Len(of[j]) : n = start[j] + b /\ work[n] = of[j][b]
    BY <2>3
  <2>5. i = j /\ a = b
    BY <1>s, <2>2, <2>4
  <2> QED
    BY <2>2, <2>4, <2>5
<1>11. ASSUME NEW a \in 1..Len(work), NEW b \in 1..Len(work), NEW c \in 1..Len(work),
              a < b, b < c, work[a].key = work[c].key
       PROVE  work[b].key = work[c].key
  <2>0. a \in Nat /\ b \in Nat /\ c \in Nat
    BY <1>6
  <2>1. PICK i \in 1..Len(report) :
                 /\ \E k \in 1..Len(of[i]) : work[a] = of[i][k]
                 /\ start[i] < a /\ a <= start[i + 1]
                 /\ start[i] \in Nat /\ start[i + 1] \in Nat
    BY <1>9
  <2>2. PICK j \in 1..Len(report) :
                 /\ \E k \in 1..Len(of[j]) : work[b] = of[j][k]
                 /\ start[j] < b /\ b <= start[j + 1]
                 /\ start[j] \in Nat /\ start[j + 1] \in Nat
    BY <1>9
  <2>3. PICK l \in 1..Len(report) :
                 /\ \E k \in 1..Len(of[l]) : work[c] = of[l][k]
                 /\ start[l] < c /\ c <= start[l + 1]
                 /\ start[l] \in Nat /\ start[l + 1] \in Nat
    BY <1>9
  \* The key of an interface is the slot of the mapping of the interface itself.
  <2>4. i = l
    <3>1. /\ work[a].key = <<report[i].host, report[i].name>>
          /\ work[c].key = <<report[l].host, report[l].name>>
      BY <1>2, <2>1, <2>3
    <3>2. of[i][Len(of[i])].slot = of[l][Len(of[l])].slot
      BY <1>2, <1>11, <3>1
    <3>3. Len(of[i]) \in 1..Len(of[i]) /\ Len(of[l]) \in 1..Len(of[l])
      <4>1. \A k, m \in Nat : k = m + 1 => k \in 1..k
        OBVIOUS
      <4> QED
        BY <1>2, <4>1, Zenon
    <3> QED
      BY <1>s, <3>2, <3>3
  <2>5. ~(j < i)
    <3>1. j < i => start[j + 1] <= start[i]
      BY <1>5 DEF Places
    <3> QED
      BY <1>11, <2>0, <2>1, <2>2, <3>1
  <2>6. ~(i < j)
    <3>1. l < j => start[l + 1] <= start[j]
      BY <1>5 DEF Places
    <3> QED
      BY <1>11, <2>0, <2>2, <2>3, <2>4, <3>1
  <2>7. i = j
    BY <1>1, <2>5, <2>6
  <2>8. work[b].key = <<report[i].host, report[i].name>>
    BY <1>2, <2>2, <2>7
  <2>9. work[c].key = <<report[i].host, report[i].name>>
    BY <1>2, <2>3, <2>4
  <2> QED
    BY <2>8, <2>9
<1>12. report # <<>> => work # <<>>
  <2> SUFFICES ASSUME report # <<>> PROVE Len(work) # 0
    OBVIOUS
  <2>1. 1 \in 1..Len(report)
    BY <1>1 DEF IsReport
  <2>2. 1 \in 1..Len(of[1])
    BY <1>2, <2>1
  <2>3. start[1] + 1 \in 1..Len(work)
    BY <1>8, <2>1, <2>2
  <2> QED
    BY <2>3
<1>13. \A i \in DOMAIN report : \A a \in DOMAIN MappingsOf(report[i]) :
          \E n \in DOMAIN work : work[n] = MappingsOf(report[i])[a]
  BY <1>1, <1>2, <1>6, <1>8
<1> QED
  BY <1>6, <1>7, <1>10, <1>11, <1>12, <1>13 DEF work

\* What the proofs below use of the reports.
LEMMA ImportFacts ==
    /\ Reports \in Seq(ToSet(Reports))
    /\ OldWork \in Seq(Mappings)
    /\ \A n \in DOMAIN Reports :
          /\ AllWork[n] \in Seq(Mappings) \ {<<>>}
          /\ IsInjective([k \in DOMAIN AllWork[n] |-> AllWork[n][k].slot])
          /\ \A a, b, c \in DOMAIN AllWork[n] :
                (a < b /\ b < c /\ AllWork[n][a].key = AllWork[n][c].key)
                    => AllWork[n][b].key = AllWork[n][c].key
    /\ Exceptions \subseteq {"message", "bare"}
    /\ MaxTouches \in Nat /\ MaxDeletes \in Nat /\ MaxFailures \in Nat
<1>1. OldWork \in Seq(Mappings)
  <2>1. ToSet(OldWork) \subseteq Mappings
    BY Zenon DEF Mappings
  <2>2. OldWork \in Seq(ToSet(OldWork))
    BY ImportAssumption, OfReport DEF OldWork
  <2> QED
    BY <2>1, <2>2
<1>2. ASSUME NEW n \in DOMAIN Reports
      PROVE  /\ AllWork[n] \in Seq(Mappings) \ {<<>>}
             /\ IsInjective([k \in DOMAIN AllWork[n] |-> AllWork[n][k].slot])
             /\ \A a, b, c \in DOMAIN AllWork[n] :
                   (a < b /\ b < c /\ AllWork[n][a].key = AllWork[n][c].key)
                       => AllWork[n][b].key = AllWork[n][c].key
  <2>1. AllWork[n] = MappingsIn(Reports[n]) /\ IsReport(Reports[n]) /\ Reports[n] # <<>>
    BY ImportAssumption DEF AllWork
  <2>2. ToSet(AllWork[n]) \subseteq Mappings
    BY Zenon DEF Mappings
  <2>3. AllWork[n] \in Seq(ToSet(AllWork[n])) /\ AllWork[n] # <<>>
    BY <2>1, OfReport
  <2>4. AllWork[n] \in Seq(Mappings)
    BY <2>2, <2>3
  <2> QED
    BY <2>1, <2>3, <2>4, OfReport
<1> QED
  BY <1>1, <1>2, ImportAssumption

-----------------------------------------------------------------------------
(* Types.                                                                   *)

LEMMA WorkType ==
  ASSUME TypeOK, NEW p \in Importers
  PROVE  Work(p) \in Seq(Mappings)
<1>1. CASE chosen[p] = 0
  BY <1>1 DEF Work
<1>2. CASE chosen[p] # 0
  <2>1. chosen[p] \in DOMAIN Reports
    BY <1>2, ImportFacts DEF TypeOK
  <2> QED
    BY <1>2, <2>1, ImportFacts DEF Work
<1> QED
  BY <1>1, <1>2

LEMMA MappingType ==
  ASSUME TypeOK, NEW p \in Importers, NEW n \in DOMAIN Work(p)
  PROVE  /\ Work(p)[n] \in Mappings
         /\ Work(p)[n].slot \in Slots /\ Work(p)[n].key \in Keys /\ Work(p)[n].port \in Ports
         /\ Work(p)[n].port \in PortsFor(Work(p)[n].slot)
<1>1. Work(p)[n] \in Mappings
  BY WorkType
<1>2. Work(p)[n].slot \in Slots /\ Work(p)[n].key \in Keys /\ Work(p)[n].port \in Ports
  BY <1>1 DEF Slots, Keys, Ports
<1> QED
  BY <1>1, <1>2 DEF PortsFor

\* A mapping an importer is done with is one of its report.
LEMMA SettledType ==
  ASSUME TypeOK, NEW p \in Importers, NEW n \in 1..at[p] - 1
  PROVE  n \in DOMAIN Work(p) /\ n \in Nat /\ Work(p)[n].slot \in Slots
<1>1. Len(Work(p)) \in Nat /\ DOMAIN Work(p) = 1..Len(Work(p))
  BY WorkType
<1>2. at[p] \in Nat /\ at[p] <= Len(Work(p)) + 1
  BY DEF TypeOK
<1>3. n \in DOMAIN Work(p) /\ n \in Nat
  BY <1>1, <1>2
<1> QED
  BY <1>3, MappingType

LEMMA CurrentType ==
  ASSUME LocalInv, NEW p \in Importers, Requesting(p)
  PROVE  /\ at[p] \in DOMAIN Work(p)
         /\ Current(p).slot \in Slots /\ Current(p).key \in Keys /\ Current(p).port \in Ports
         /\ Current(p).port \in PortsFor(Current(p).slot)
<1>1. at[p] \in DOMAIN Work(p)
  BY WorkType DEF LocalInv, TypeOK, PlaceInv
<1> QED
  BY <1>1, MappingType DEF Current, LocalInv

\* The mappings of an interface are together.
LEMMA Together ==
  ASSUME TypeOK, NEW p \in Importers, NEW a \in DOMAIN Work(p), NEW b \in DOMAIN Work(p),
         NEW c \in DOMAIN Work(p), a < b, b < c, Work(p)[a].key = Work(p)[c].key
  PROVE  Work(p)[b].key = Work(p)[c].key
<1>1. chosen[p] \in DOMAIN Reports /\ Work(p) = AllWork[chosen[p]]
  <2>1. chosen[p] # 0
    BY DEF Work
  <2> QED
    BY <2>1, ImportFacts DEF TypeOK, Work
<1>2. \A x, y, z \in DOMAIN AllWork[chosen[p]] :
         (x < y /\ y < z /\ AllWork[chosen[p]][x].key = AllWork[chosen[p]][z].key)
             => AllWork[chosen[p]][y].key = AllWork[chosen[p]][z].key
  BY <1>1, ImportFacts
<1> QED
  BY <1>1, <1>2

-----------------------------------------------------------------------------
(* One mapping is dealt with.                                               *)

\* The types of the importers' variables, as in TypeOK.
ImporterOK ==
    /\ pc \in [Importers -> Requests \cup {"populate", "complete", "aborted", "refused"}]
    /\ at \in [Importers -> Nat \ {0}]
    /\ \A p \in Importers : at[p] <= Len(Work(p)) + 1
    /\ mapping \in [Importers -> SUBSET Slots]
    /\ summary \in [Importers -> Summaries]

\* What an importer has put into its summary stays there.
SummaryGrows ==
    \A q \in Importers : \A m \in Mappings : InSummary(q, m) => InSummary(q, m)'

\* At most the current mapping of p is settled by the step, if it is done or in the
\* summary afterwards.
Passes(p, done) ==
    \A q \in Importers : \A n \in 1..at'[q] - 1 :
        \/ n < at[q]
        \/ q = p /\ n = at[p] /\ (done \/ \A m \in Mappings : m = Current(p) => InSummary(p, m)')

\* Nobody but p is disturbed, and p is done with its request.
OnlyEnds(p) ==
    \A q \in Importers :
        pc'[q] \in {"search", "update"} => q # p /\ pc'[q] = pc[q] /\ at'[q] = at[q]

LocalStep(p, done) ==
    ImporterOK' /\ PlaceInv' /\ ListInv' /\ SummaryGrows /\ Passes(p, done) /\ OnlyEnds(p)

LEMMA Proceeds ==
  ASSUME LocalInv, NEW p \in Importers, Requesting(p), NEW done \in BOOLEAN,
         NEW new \in SUBSET {Current(p).slot}, Proceed(p, new), UNCHANGED chosen,
         new = {} => done
  PROVE  LocalStep(p, done)
<1> DEFINE list == ListSoFar(p) \cup new
           key == Current(p).key
<1>w. \A q \in Importers : Work(q)' = Work(q) /\ Work(q) \in Seq(Mappings)
  BY WorkType DEF Work, LocalInv
<1>c. /\ at[p] \in DOMAIN Work(p) /\ at[p] \in Nat \ {0} /\ at[p] <= Len(Work(p))
      /\ Current(p).slot \in Slots /\ key \in Keys /\ Current(p) = Work(p)[at[p]]
  BY CurrentType DEF LocalInv, TypeOK, PlaceInv, Current
<1>l. list \subseteq Slots
  BY <1>c DEF ListSoFar, LocalInv, TypeOK
<1>s. /\ mapping' = [mapping EXCEPT ![p] = list]
      /\ at' = [at EXCEPT ![p] = @ + 1]
      /\ pc' = [pc EXCEPT ![p] = IF at[p] = Len(Work(p)) THEN "complete" ELSE "create"]
      /\ new = {} => summary' = summary
      /\ new # {} => summary' = [summary EXCEPT ![p] =
                        [k \in DOMAIN @ \cup {key} |-> IF k = key THEN list ELSE @[k]]]
  BY DEF Proceed
<1>t. /\ summary \in [Importers -> Summaries] /\ mapping \in [Importers -> SUBSET Slots]
      /\ at \in [Importers -> Nat \ {0}]
      /\ pc \in [Importers -> Requests \cup {"populate", "complete", "aborted", "refused"}]
  BY DEF LocalInv, TypeOK
<1>d. /\ DOMAIN summary[p] \subseteq Keys
      /\ \A k \in DOMAIN summary[p] : summary[p][k] \subseteq Slots
  BY <1>t DEF Summaries
\* The summary's entry for the current interface is part of the list.
<1>k. key \in DOMAIN summary[p] => summary[p][key] \subseteq list
  <2> SUFFICES ASSUME key \in DOMAIN summary[p] PROVE summary[p][key] \subseteq list
    OBVIOUS
  <2>1. PICK n \in 1..at[p] - 1 : Work(p)[n].key = key
    BY DEF LocalInv, ListInv
  <2>2. at[p] > 1 /\ n \in DOMAIN Work(p) /\ at[p] - 1 \in DOMAIN Work(p)
    BY <1>c, <1>w
  <2>3. Work(p)[at[p] - 1].key = key
    <3>1. CASE n = at[p] - 1
      BY <2>1, <3>1
    <3>2. CASE n < at[p] - 1
      BY <1>c, <2>1, <2>2, <3>2, Together DEF LocalInv
    <3> QED
      BY <1>c, <2>1, <3>1, <3>2
  <2> QED
    BY <1>c, <2>2, <2>3 DEF ListSoFar, LocalInv, ListInv
<1>1. pc' \in [Importers -> Requests \cup {"populate", "complete", "aborted", "refused"}]
  BY <1>s, <1>t DEF Requests
<1>2. \A q \in Importers : at'[q] <= Len(Work(q)) + 1
  BY <1>s, <1>t, <1>c, <1>w DEF LocalInv, TypeOK
<1>3. mapping' \in [Importers -> SUBSET Slots]
  BY <1>s, <1>t, <1>l
<1>4. summary' \in [Importers -> Summaries]
  <2>1. CASE new = {}
    BY <1>s, <1>t, <2>1
  <2>2. CASE new # {}
    <3> DEFINE entry == [k \in DOMAIN summary[p] \cup {key} |->
                            IF k = key THEN list ELSE summary[p][k]]
    <3>1. entry \in [DOMAIN summary[p] \cup {key} -> SUBSET Slots]
      BY <1>d, <1>l
    <3>2. DOMAIN summary[p] \cup {key} \in SUBSET Keys
      BY <1>c, <1>d
    <3>3. entry \in Summaries
      BY <3>1, <3>2 DEF Summaries
    <3> QED
      BY <1>s, <1>t, <2>2, <3>3
  <2> QED
    BY <2>1, <2>2
<1>5. PlaceInv'
  BY <1>s, <1>t, <1>c, <1>w DEF PlaceInv, Requesting, Requests, LocalInv
<1>6. ListInv'
  <2> SUFFICES ASSUME NEW q \in Importers, NEW k \in DOMAIN summary'[q]
               PROVE  /\ \E n \in 1..at'[q] - 1 : Work(q)[n].key = k
                      /\ Work(q)[at'[q] - 1].key = k => summary'[q][k] \subseteq mapping'[q]
    BY <1>w DEF ListInv
  <2>1. CASE q # p
    BY <1>s, <1>t, <2>1 DEF LocalInv, ListInv
  <2>2. CASE q = p
    <3>1. at'[p] = at[p] + 1 /\ mapping'[p] = list
      BY <1>s, <1>t
    <3>2. k # key => k \in DOMAIN summary[p]
      BY <1>s, <1>t, <2>2
    <3>3. \E n \in 1..at[p] : Work(p)[n].key = k
      <4>1. CASE k = key
        BY <1>c, <4>1
      <4>2. CASE k # key
        BY <1>c, <3>2, <4>2 DEF LocalInv, ListInv
      <4> QED
        BY <4>1, <4>2
    <3>4. k = key => summary'[p][k] \subseteq list
      BY <1>s, <1>t, <1>k, <2>2
    <3>5. at'[p] - 1 = at[p] /\ Work(p)[at[p]].key = key
      BY <1>c, <3>1
    <3> QED
      BY <2>2, <3>1, <3>3, <3>4, <3>5
  <2> QED
    BY <2>1, <2>2
<1>7. SummaryGrows
  <2> SUFFICES ASSUME NEW q \in Importers, NEW m \in Mappings, InSummary(q, m)
               PROVE  InSummary(q, m)'
    BY DEF SummaryGrows
  <2>1. CASE q # p \/ new = {}
    BY <1>s, <1>t, <2>1 DEF InSummary
  <2>2. CASE q = p /\ new # {}
    BY <1>s, <1>t, <1>k, <2>2 DEF InSummary
  <2> QED
    BY <2>1, <2>2
<1>8. \A m \in Mappings : new # {} /\ m = Current(p) => InSummary(p, m)'
  <2> SUFFICES ASSUME NEW m \in Mappings, new # {}, m = Current(p)
               PROVE  InSummary(p, m)'
    OBVIOUS
  <2>1. new = {m.slot}
    OBVIOUS
  <2>2. m.key = key /\ m.slot \in list
    BY <2>1
  <2> QED
    BY <1>s, <1>t, <2>2 DEF InSummary
<1>9. Passes(p, done)
  BY <1>s, <1>t, <1>c, <1>8 DEF Passes
<1>10. OnlyEnds(p)
  BY <1>s, <1>t DEF OnlyEnds
<1>11. at' \in [Importers -> Nat \ {0}]
  BY <1>s, <1>t
<1> QED
  BY <1>1, <1>2, <1>3, <1>4, <1>5, <1>6, <1>7, <1>9, <1>10, <1>11, <1>w DEF LocalStep, ImporterOK

\* A failed request settles the mapping by the summary, or aborts the import.
LEMMA Raised ==
  ASSUME LocalInv, NEW p \in Importers, Requesting(p), NEW exception, Raises(p, exception),
         UNCHANGED chosen
  PROVE  LocalStep(p, FALSE)
<1>1. CASE exception = "message"
  BY <1>1, Proceeds DEF Raises
<1>2. CASE exception # "message"
  <2>0. \A q \in Importers : Work(q)' = Work(q)
    BY DEF Work
  <2>1. UNCHANGED <<at, mapping, summary>> /\ pc' = [pc EXCEPT ![p] = "aborted"]
    BY <1>2 DEF Raises
  <2>2. ImporterOK'
    BY <2>0, <2>1 DEF ImporterOK, LocalInv, TypeOK
  <2>3. PlaceInv'
    BY <2>0, <2>1 DEF PlaceInv, Requesting, Requests, LocalInv, TypeOK
  <2>4. ListInv'
    BY <2>0, <2>1 DEF ListInv, LocalInv
  <2>5. SummaryGrows /\ Passes(p, FALSE)
    BY <2>1 DEF SummaryGrows, InSummary, Passes, LocalInv, TypeOK
  <2>6. OnlyEnds(p)
    BY <2>1 DEF OnlyEnds, LocalInv, TypeOK
  <2> QED
    BY <2>2, <2>3, <2>4, <2>5, <2>6 DEF LocalStep
<1> QED
  BY <1>1, <1>2

-----------------------------------------------------------------------------
(* The store.                                                               *)

\* A step that writes at most the current mapping keeps all mappings accounted for.
LEMMA Accounts ==
  ASSUME IInv, NEW p \in Importers, Requesting(p), NEW done \in BOOLEAN, LocalStep(p, done),
         UNCHANGED <<chosen, deleted>>,
         \A s \in Slots : \/ store'[s].port = store[s].port
                          \/ s = Current(p).slot /\ store'[s].port = Current(p).port,
         done => store'[Current(p).slot].port = Current(p).port
  PROVE  ImportAccounted'
<1>w. \A q \in Importers : Work(q)' = Work(q)
  BY DEF Work
<1>f. \A s \in Slots : PortsFor(s)' = PortsFor(s)
  BY <1>w DEF PortsFor
<1>n. ASSUME NEW q \in Importers, NEW n \in 1..at'[q] - 1
      PROVE  /\ n \in DOMAIN Work(q) /\ n \in Nat /\ at[q] \in Nat
             /\ Work(q)[n].slot \in Slots /\ Work(q)[n] \in Mappings
  <2>1. at'[q] \in Nat /\ at'[q] <= Len(Work(q)) + 1 /\ at[q] \in Nat
    BY <1>w DEF LocalStep, ImporterOK, IInv, LocalInv, TypeOK
  <2>2. n \in DOMAIN Work(q) /\ n \in Nat
    BY <2>1, WorkType DEF IInv, LocalInv
  <2> QED
    BY <2>1, <2>2, MappingType DEF IInv, LocalInv
<1>c. Current(p).port \in PortsFor(Current(p).slot) /\ Current(p).slot \in Slots
  BY CurrentType DEF IInv
<1>s. ASSUME NEW q \in Importers, NEW n \in 1..at'[q] - 1
      PROVE  \/ store'[Work(q)[n].slot].port \in PortsFor(Work(q)[n].slot)
             \/ \A m \in Mappings : m = Work(q)[n] => InSummary(q, m)'
             \/ Work(q)[n].slot \in deleted
  <2>1. CASE n < at[q]
    <3>1. n \in 1..at[q] - 1
      BY <1>n, <2>1
    <3>2. \/ store[Work(q)[n].slot].port \in PortsFor(Work(q)[n].slot)
          \/ InSummary(q, Work(q)[n])
          \/ Work(q)[n].slot \in deleted
      BY <3>1 DEF IInv, ImportAccounted
    <3>3. ASSUME InSummary(q, Work(q)[n]), NEW m \in Mappings, m = Work(q)[n]
          PROVE  InSummary(q, m)'
      BY <3>3 DEF LocalStep, SummaryGrows
    <3> QED
      BY <1>n, <1>c, <3>2, <3>3
  <2>2. CASE q = p /\ n = at[p]
             /\ (done \/ \A m \in Mappings : m = Current(p) => InSummary(p, m)')
    BY <1>c, <2>2 DEF Current
  <2> QED
    BY <2>1, <2>2 DEF LocalStep, Passes
<1>i. ASSUME NEW q \in Importers, NEW n \in 1..at'[q] - 1,
             \A m \in Mappings : m = Work(q)[n] => InSummary(q, m)'
      PROVE  InSummary(q, Work(q)[n])'
  BY <1>n, <1>w, <1>i DEF InSummary
<1> QED
  BY <1>n, <1>s, <1>w, <1>f, <1>i DEF ImportAccounted

\* The ids in the store, and who looks for one, after a step that writes new ids only
\* where they are.
LEMMA IdsKept ==
  ASSUME IInv, UNCHANGED <<chosen, found>>, nextId' \in Nat, nextId' >= nextId,
         store' \in [Slots -> [id : Nat, port : Ports \cup {"none"}]],
         \A s \in Slots : \/ store'[s].id = store[s].id /\ store[s].id # 0
                          \/ store'[s] = Unmapped
                          \/ store'[s].id = nextId /\ nextId' = nextId + 1,
         \A s, t \in Slots : store'[s].id = nextId /\ store'[t].id = nextId => s = t,
         \A q \in Importers : pc'[q] = "update" => pc[q] = "update" /\ at'[q] = at[q]
  PROVE  IdInv'
<1>w. \A q \in Importers : pc'[q] = "update" => pc[q] = "update" /\ Current(q)' = Current(q)
  BY DEF Work, Current
<1>t. /\ store \in [Slots -> [id : Nat, port : Ports \cup {"none"}]] /\ nextId \in Nat \ {0}
      /\ found \in [Importers -> Nat]
  BY DEF IInv, LocalInv, TypeOK
<1>1. \A s \in Slots : store'[s].id < nextId' /\ (store'[s].id = 0 => store'[s] = Unmapped)
  BY <1>t DEF IInv, IdInv, Unmapped
<1>2. \A s, t \in Slots : store'[s].id = store'[t].id /\ store'[s].id # 0 => s = t
  BY <1>t DEF IInv, IdInv, Unmapped
<1>3. ASSUME NEW q \in Importers, pc'[q] = "update"
      PROVE  found[q] # 0 /\ found[q] < nextId'
  BY <1>t, <1>w, <1>3 DEF IInv, IdInv, Unmapped
<1>4. ASSUME NEW q \in Importers, pc'[q] = "update"
      PROVE  \A s \in Slots : store'[s].id = found[q] => s = Current(q)'.slot
  BY <1>t, <1>w, <1>4 DEF IInv, IdInv, Unmapped
<1> QED
  BY <1>1, <1>2, <1>3, <1>4 DEF IdInv

\* What a request of p that ends does to the store: it writes the slot of the current
\* mapping or nothing, and keeps ids where they are.
LEMMA Writes ==
  ASSUME IInv, NEW p \in Importers, Requesting(p), NEW done \in BOOLEAN,
         \/ ~done /\ UNCHANGED <<store, nextId>>
         \/ Created(p)
         \/ Updated(p)
  PROVE  /\ store' \in [Slots -> [id : Nat, port : Ports \cup {"none"}]]
         /\ nextId' \in Nat \ {0} /\ nextId' >= nextId
         /\ \A s \in Slots : \/ store'[s].id = store[s].id /\ store[s].id # 0
                             \/ store'[s] = Unmapped
                             \/ store'[s].id = nextId /\ nextId' = nextId + 1
         /\ \A s, t \in Slots : store'[s].id = nextId /\ store'[t].id = nextId => s = t
         /\ \/ \A s \in Slots : store'[s].port = store[s].port
            \/ \A s \in Slots : store'[s].port = IF s = Current(p).slot THEN Current(p).port
                                                                      ELSE store[s].port
         /\ done => store'[Current(p).slot].port = Current(p).port
<1>t. /\ store \in [Slots -> [id : Nat, port : Ports \cup {"none"}]] /\ nextId \in Nat \ {0}
      /\ Current(p).slot \in Slots /\ Current(p).port \in Ports
  BY CurrentType DEF IInv, LocalInv, TypeOK
<1>i. \A s \in Slots : store[s].id < nextId /\ (store[s].id = 0 => store[s] = Unmapped)
  BY DEF IInv, IdInv
<1>1. CASE ~done /\ UNCHANGED <<store, nextId>>
  BY <1>t, <1>1, <1>i
<1>2. CASE Created(p)
  BY <1>t, <1>2, <1>i DEF Created
<1>3. CASE Updated(p)
  <2>1. PICK slot \in Slots : /\ store[slot].id = found[p]
                              /\ store' = [store EXCEPT ![slot].port = Current(p).port]
    BY <1>3 DEF Updated
  <2>2. slot = Current(p).slot /\ found[p] # 0 /\ nextId' = nextId
    BY <1>3, <2>1 DEF Updated, IInv, IdInv
  <2> QED
    BY <1>t, <1>i, <2>1, <2>2
<1> QED
  BY <1>1, <1>2, <1>3

\* The whole invariant after a request of p that ends.
LEMMA RequestEnds ==
  ASSUME IInv, NEW p \in Importers, Requesting(p), NEW done \in BOOLEAN, LocalStep(p, done),
         Stays, UNCHANGED <<found, deleted, deletes>>, failures' \in 0..MaxFailures,
         \/ ~done /\ UNCHANGED <<store, nextId>>
         \/ Created(p)
         \/ Updated(p)
  PROVE  IInv'
<1>o. \A q \in Importers : pc'[q] = "update" => pc[q] = "update" /\ at'[q] = at[q]
  BY DEF LocalStep, OnlyEnds
<1>s. /\ store' \in [Slots -> [id : Nat, port : Ports \cup {"none"}]]
      /\ nextId' \in Nat \ {0} /\ nextId' >= nextId
      /\ \A s \in Slots : \/ store'[s].id = store[s].id /\ store[s].id # 0
                          \/ store'[s] = Unmapped
                          \/ store'[s].id = nextId /\ nextId' = nextId + 1
      /\ \A s, t \in Slots : store'[s].id = nextId /\ store'[t].id = nextId => s = t
      /\ \A s \in Slots : \/ store'[s].port = store[s].port
                          \/ s = Current(p).slot /\ store'[s].port = Current(p).port
      /\ done => store'[Current(p).slot].port = Current(p).port
  BY Writes
<1>1. TypeOK'
  BY <1>s DEF LocalStep, ImporterOK, Stays, reports, IInv, LocalInv, TypeOK
<1>2. IdInv'
  BY <1>s, <1>o, IdsKept DEF Stays
<1>3. ImportAccounted'
  BY <1>s, Accounts DEF Stays
<1> QED
  BY <1>1, <1>2, <1>3 DEF IInv, LocalInv, LocalStep

-----------------------------------------------------------------------------
(* The invariant.                                                           *)

LEMMA InitIInv == Init => IInv
<1> SUFFICES ASSUME Init PROVE IInv
  OBVIOUS
<1> DEFINE At(s) == CHOOSE n \in 1..Len(OldWork) : OldWork[n].slot = s
<1>o. /\ Len(OldWork) \in Nat
      /\ \A n \in 1..Len(OldWork) : OldWork[n] \in Mappings
  BY ImportFacts
<1>s. /\ \A s \in Slots : store[s] = Unmapped
             \/ /\ At(s) \in 1..Len(OldWork) /\ OldWork[At(s)].slot = s
                /\ store[s] = [id |-> At(s), port |-> OldWork[At(s)].port]
      /\ store = [s \in Slots |-> store[s]]
  BY DEF Init
<1>p. \A n \in 1..Len(OldWork) : OldWork[n].port \in Ports
  BY <1>o DEF Ports
<1>1. store \in [Slots -> [id : Nat, port : Ports \cup {"none"}]]
  <2>1. \A s \in Slots : store[s] \in [id : Nat, port : Ports \cup {"none"}]
    BY <1>s, <1>p, <1>o DEF Unmapped
  <2> QED
    BY <1>s, <2>1
<1>w. \A p \in Importers : Work(p) = <<>>
  BY DEF Init, Work
<1>2. summary \in [Importers -> Summaries]
  <2>1. <<>> \in [{} -> SUBSET Slots] /\ {} \in SUBSET Keys
    OBVIOUS
  <2> QED
    BY <2>1 DEF Init, Summaries
<1>3. TypeOK
  BY <1>1, <1>2, <1>w, <1>o, ImportFacts DEF Init, TypeOK
<1>4. PlaceInv
  BY DEF Init, PlaceInv, Requesting, Requests
<1>5. ListInv
  BY DEF Init, ListInv
<1>6. IdInv
  <2>1. \A s \in Slots : store[s].id < nextId /\ (store[s].id = 0 => store[s] = Unmapped)
    BY <1>s, <1>o DEF Unmapped, Init
  <2>2. \A s, t \in Slots : store[s].id = store[t].id /\ store[s].id # 0 => s = t
    BY <1>s, <1>o DEF Unmapped
  <2> QED
    BY <2>1, <2>2 DEF IdInv, Init
<1>7. ImportAccounted
  BY DEF Init, ImportAccounted
<1> QED
  BY <1>3, <1>4, <1>5, <1>6, <1>7 DEF IInv, LocalInv

\* Steps that leave Neutron and the place of every importer alone.
LEMMA ReportStep ==
  ASSUME IInv, UNCHANGED <<importer, neutron, failures>>,
         written' \in 0..Len(Reports), changed' \in [1..written' -> Nat],
         touches' \in 0..MaxTouches
  PROVE  IInv'
<1>1. \A p \in Importers : Work(p)' = Work(p)
  BY DEF importer, Work
<1>2. TypeOK'
  BY <1>1 DEF IInv, LocalInv, TypeOK, importer, neutron
<1>3. PlaceInv' /\ ListInv'
  BY <1>1 DEF IInv, LocalInv, PlaceInv, ListInv, Requesting, importer
<1>4. IdInv'
  BY <1>1 DEF IInv, IdInv, Current, importer, neutron
<1>5. ImportAccounted'
  BY <1>1 DEF IInv, ImportAccounted, InSummary, PortsFor, importer, neutron
<1> QED
  BY <1>2, <1>3, <1>4, <1>5 DEF IInv, LocalInv

\* An importer takes its report or gives up before.
LEMMA PopulateStep ==
  ASSUME IInv, NEW p \in Importers, Populate(p) \/ Refused(p)
  PROVE  IInv'
<1>t. /\ chosen \in [Importers -> 0..Len(Reports)] /\ written \in 0..Len(Reports)
      /\ at \in [Importers -> Nat \ {0}] /\ Len(Reports) \in Nat
      /\ pc \in [Importers -> Requests \cup {"populate", "complete", "aborted", "refused"}]
      /\ summary \in [Importers -> Summaries]
  BY ImportFacts DEF IInv, LocalInv, TypeOK
<1>p. pc[p] = "populate" /\ chosen[p] = 0 /\ at[p] = 1 /\ DOMAIN summary[p] = {}
  <2>1. pc[p] = "populate" /\ chosen[p] = 0
    BY DEF Populate, Refused, IInv, LocalInv, PlaceInv
  <2>2. at[p] = 1
    BY <1>t, <2>1 DEF IInv, LocalInv, TypeOK, Work
  <2> QED
    BY <2>1, <2>2 DEF IInv, LocalInv, ListInv
<1>u. UNCHANGED <<at, found, mapping, summary, reports, neutron, failures>>
  BY DEF Populate, Refused
<1>o. \A q \in Importers : q # p => pc'[q] = pc[q] /\ chosen'[q] = chosen[q]
  BY <1>t DEF Populate, Refused
<1>w. \A q \in Importers : q # p => Work(q)' = Work(q)
  BY <1>o DEF Work
<1>c. \/ chosen'[p] \in 1..Len(Reports) /\ pc'[p] = "create"
      \/ chosen'[p] = 0 /\ pc'[p] = "refused"
  BY <1>t, <1>p DEF Populate, Refused
<1>r. DOMAIN Reports = 1..Len(Reports)
  BY ImportFacts
<1>d. \A n \in 1..Len(Reports) : AllWork[n] \in Seq(Mappings) \ {<<>>}
  <2>1. \A n \in DOMAIN Reports : AllWork[n] \in Seq(Mappings) \ {<<>>}
    BY ImportFacts
  <2> QED
    BY <2>1, <1>r
<1>l. chosen'[p] # 0 => Work(p)' \in Seq(Mappings) /\ Len(Work(p)') \in Nat \ {0}
  <2>1. chosen'[p] # 0 => AllWork[chosen'[p]] \in Seq(Mappings) \ {<<>>}
    BY <1>c, <1>d
  <2>2. chosen'[p] # 0 => Work(p)' = AllWork[chosen'[p]]
    BY DEF Work
  <2>3. \A w \in Seq(Mappings) \ {<<>>} : Len(w) \in Nat \ {0}
    OBVIOUS
  <2> QED
    BY <2>1, <2>2, <2>3
<1>m. chosen'[p] = 0 => Work(p)' = <<>>
  BY DEF Work
<1>1. TypeOK'
  <2>1. pc' \in [Importers -> Requests \cup {"populate", "complete", "aborted", "refused"}]
        /\ chosen' \in [Importers -> 0..Len(Reports)]
    <3>1. CASE Populate(p)
      BY <1>t, <3>1 DEF Populate, Requests
    <3>2. CASE Refused(p)
      BY <1>t, <3>2 DEF Refused
    <3> QED
      BY <3>1, <3>2
  <2>2. last' \subseteq Importers /\ overlapped' \subseteq Importers
    <3>1. Active \subseteq Importers /\ last \subseteq Importers /\ overlapped \subseteq Importers
      BY DEF Active, IInv, LocalInv, TypeOK
    <3> QED
      BY <3>1 DEF Populate, Refused
  <2>3. \A q \in Importers : at'[q] <= Len(Work(q)') + 1
    <3>1. Len(Work(p)') \in Nat
      BY <1>c, <1>l, <1>m
    <3>2. at'[p] <= Len(Work(p)') + 1
      BY <1>u, <1>p, <3>1
    <3>3. \A q \in Importers : q # p => at'[q] <= Len(Work(q)') + 1
      BY <1>u, <1>w DEF IInv, LocalInv, TypeOK
    <3> QED
      BY <3>2, <3>3
  <2> QED
    BY <1>u, <2>1, <2>2, <2>3 DEF IInv, LocalInv, TypeOK, reports, neutron
<1>2. PlaceInv'
  BY <1>u, <1>o, <1>w, <1>p, <1>c, <1>l DEF IInv, LocalInv, PlaceInv, Requesting, Requests
<1>3. ListInv'
  BY <1>u, <1>w, <1>p DEF IInv, LocalInv, ListInv
<1>4. IdInv'
  BY <1>u, <1>o, <1>w, <1>c DEF IInv, IdInv, Current, neutron
<1>5. ImportAccounted'
  <2>1. \A s \in Slots : PortsFor(s) \subseteq PortsFor(s)'
    <3> SUFFICES ASSUME NEW s \in Slots, NEW port \in Ports, NEW q \in Importers,
                        NEW n \in DOMAIN Work(q),
                        Work(q)[n].slot = s /\ Work(q)[n].port = port
                 PROVE  q # p
      BY <1>w DEF PortsFor
    <3> QED
      BY <1>p DEF Work
  <2> SUFFICES ASSUME NEW q \in Importers, NEW n \in 1..at[q] - 1
               PROVE  /\ q # p /\ Work(q)[n].slot \in Slots
    BY <1>u, <1>w, <2>1 DEF IInv, ImportAccounted, InSummary, neutron
  <2>2. q # p
    BY <1>p
  <2> QED
    BY <2>2, SettledType DEF IInv, LocalInv
<1> QED
  BY <1>1, <1>2, <1>3, <1>4, <1>5 DEF IInv, LocalInv

\* Between two requests for one mapping only the place and the id found change.
LEMMA RetryStep ==
  ASSUME IInv, NEW p \in Importers, Conflicts(p) \/ Search(p)
  PROVE  IInv'
<1>t. /\ pc \in [Importers -> Requests \cup {"populate", "complete", "aborted", "refused"}]
      /\ store \in [Slots -> [id : Nat, port : Ports \cup {"none"}]]
      /\ found \in [Importers -> Nat]
  BY DEF IInv, LocalInv, TypeOK
<1>p. Requesting(p)
  BY DEF Conflicts, Search, Requesting, Requests
<1>c. Current(p).slot \in Slots
  BY <1>p, CurrentType DEF IInv
<1>u. UNCHANGED <<chosen, at, mapping, summary, last, overlapped, reports, neutron, failures>>
  BY DEF Conflicts, Search, Stays
<1>w. \A q \in Importers : Work(q)' = Work(q)
  BY <1>u DEF Work
<1>o. /\ pc' = [pc EXCEPT ![p] = "search"] /\ found' = found
      \/ /\ pc' = [pc EXCEPT ![p] = "update"]
         /\ found' = [found EXCEPT ![p] = store[Current(p).slot].id]
         /\ store[Current(p).slot] # Unmapped
  BY DEF Conflicts, Search
<1>1. TypeOK'
  BY <1>t, <1>u, <1>w, <1>o, <1>c DEF IInv, LocalInv, TypeOK, Requests, reports, neutron
<1>2. PlaceInv' /\ ListInv'
  BY <1>t, <1>u, <1>w, <1>o, <1>p DEF IInv, LocalInv, PlaceInv, ListInv, Requesting, Requests
<1>3. IdInv'
  <2>1. \A q \in Importers : Current(q)' = Current(q)
    BY <1>u, <1>w DEF Current
  <2> QED
    BY <1>t, <1>u, <1>o, <1>c, <2>1 DEF IInv, IdInv, neutron
<1>4. ImportAccounted'
  BY <1>u, <1>w DEF IInv, ImportAccounted, InSummary, PortsFor, neutron
<1> QED
  BY <1>1, <1>2, <1>3, <1>4 DEF IInv, LocalInv

LEMMA DeleteStep ==
  ASSUME IInv, NEW slot \in Slots, Delete(slot)
  PROVE  IInv'
<1>t. /\ store \in [Slots -> [id : Nat, port : Ports \cup {"none"}]]
      /\ store' = [store EXCEPT ![slot] = Unmapped] /\ deleted' = deleted \cup {slot}
      /\ UNCHANGED <<importer, reports, nextId, failures>>
  BY DEF Delete, IInv, LocalInv, TypeOK
<1>w. \A q \in Importers : Work(q)' = Work(q)
  BY <1>t DEF Work, importer
<1>d. deletes' \in 0..MaxDeletes
  BY ImportFacts DEF Delete, IInv, LocalInv, TypeOK
<1>s. store' \in [Slots -> [id : Nat, port : Ports \cup {"none"}]]
  BY <1>t DEF Unmapped
<1>1. TypeOK'
  BY <1>t, <1>w, <1>d, <1>s DEF IInv, LocalInv, TypeOK, importer, reports
<1>2. PlaceInv' /\ ListInv'
  BY <1>t, <1>w DEF IInv, LocalInv, PlaceInv, ListInv, Requesting, importer
<1>3. IdInv'
  <2>1. nextId \in Nat /\ \A q \in Importers : Current(q)' = Current(q)
    BY <1>t, <1>w DEF Current, importer, IInv, LocalInv, TypeOK
  <2> QED
    BY <1>t, <2>1 DEF IInv, LocalInv, TypeOK, IdInv, Unmapped, importer
<1>4. ImportAccounted'
  <2>1. \A s \in Slots : s # slot => store'[s] = store[s]
    BY <1>t
  <2>2. \A q \in Importers : \A n \in 1..at[q] - 1 : Work(q)[n].slot \in Slots
    BY SettledType DEF IInv, LocalInv
  <2> QED
    BY <1>t, <1>w, <2>1, <2>2 DEF IInv, ImportAccounted, InSummary, PortsFor, importer
<1> QED
  BY <1>1, <1>2, <1>3, <1>4 DEF IInv, LocalInv

\* A request that ends, however it does, settles at most the current mapping.
LEMMA Ending ==
  ASSUME IInv, NEW p \in Importers, Step(p),
         ~(Populate(p) \/ Refused(p) \/ Conflicts(p) \/ Search(p))
  PROVE  /\ Requesting(p) /\ Stays /\ UNCHANGED <<found, deleted, deletes>>
         /\ failures' \in 0..MaxFailures
         /\ \E done \in BOOLEAN :
               /\ LocalStep(p, done)
               /\ \/ ~done /\ UNCHANGED <<store, nextId>>
                  \/ Created(p)
                  \/ Updated(p)
<1>t. failures \in 0..MaxFailures /\ MaxFailures \in Nat
  BY ImportFacts DEF IInv, LocalInv, TypeOK
<1>1. CASE RequestFails(p)
  <2>1. /\ Requesting(p) /\ Stays /\ UNCHANGED <<found, neutron>>
        /\ failures' \in 0..MaxFailures
    BY <1>t, <1>1 DEF RequestFails, Requesting
  <2>2. LocalStep(p, FALSE)
    BY <1>1, <2>1, Raised DEF RequestFails, Stays, IInv
  <2> QED
    BY <2>1, <2>2 DEF neutron
<1>2. CASE AnswerLost(p)
  <2>1. /\ Requesting(p) /\ Stays /\ UNCHANGED <<found, deleted, deletes>>
        /\ failures' \in 0..MaxFailures
    BY <1>t, <1>2 DEF AnswerLost, Created, Updated, Requesting, Requests
  <2>2. LocalStep(p, FALSE)
    BY <1>2, <2>1, Raised DEF AnswerLost, Stays, IInv
  <2> QED
    BY <1>2, <2>1, <2>2 DEF AnswerLost
<1>3. CASE Create(p) \/ Update(p)
  <2>1. /\ Requesting(p) /\ Stays /\ UNCHANGED <<found, deleted, deletes>>
        /\ failures' \in 0..MaxFailures
    BY <1>t, <1>3 DEF Create, Update, Created, Updated, Requesting, Requests
  <2>2. LocalStep(p, TRUE)
    BY <1>3, <2>1, Proceeds DEF Create, Update, Stays, IInv
  <2> QED
    BY <1>3, <2>1, <2>2 DEF Create, Update
<1>4. CASE SearchFindsNone(p) \/ UpdateFindsNone(p)
  <2>1. /\ Requesting(p) /\ Stays /\ UNCHANGED <<found, neutron>>
        /\ failures' \in 0..MaxFailures
    BY <1>t, <1>4 DEF SearchFindsNone, UpdateFindsNone, Requesting, Requests
  <2>2. LocalStep(p, FALSE)
    BY <1>4, <2>1, Raised DEF SearchFindsNone, UpdateFindsNone, Stays, IInv
  <2> QED
    BY <2>1, <2>2 DEF neutron
<1> QED
  BY <1>1, <1>2, <1>3, <1>4 DEF Step

LEMMA NextIInv == IInv /\ [Next]_vars => IInv'
<1> SUFFICES ASSUME IInv, [Next]_vars PROVE IInv'
  OBVIOUS
<1>t. /\ written \in 0..Len(Reports) /\ changed \in [1..written -> Nat] /\ Len(Reports) \in Nat
      /\ touches \in 0..MaxTouches /\ failures \in 0..MaxFailures
      /\ MaxTouches \in Nat /\ MaxFailures \in Nat
  BY ImportFacts DEF IInv, LocalInv, TypeOK
<1>1. CASE ReportWritten
  BY <1>t, <1>1, ReportStep DEF ReportWritten, Now
<1>2. ASSUME NEW n \in 1..written, ReportTouched(n) PROVE IInv'
  BY <1>t, <1>2, ReportStep DEF ReportTouched, Now
<1>3. ASSUME NEW p \in Importers, Step(p) PROVE IInv'
  <2>1. CASE Populate(p) \/ Refused(p)
    BY <2>1, PopulateStep
  <2>2. CASE Conflicts(p) \/ Search(p)
    BY <2>2, RetryStep
  <2>3. CASE ~(Populate(p) \/ Refused(p) \/ Conflicts(p) \/ Search(p))
    BY <1>3, <2>3, Ending, RequestEnds
  <2> QED
    BY <2>1, <2>2, <2>3
<1>4. ASSUME NEW slot \in Slots, Delete(slot) PROVE IInv'
  BY <1>4, DeleteStep
<1>5. CASE UNCHANGED vars
  BY <1>t, <1>5, ReportStep DEF vars, reports
<1> QED
  BY <1>1, <1>2, <1>3, <1>4, <1>5 DEF Next, Finished

\* Type correctness.
THEOREM TypeCorrect == Spec => []TypeOK
<1>1. IInv => TypeOK
  BY DEF IInv, LocalInv
<1> QED
  BY InitIInv, NextIInv, <1>1, PTL DEF Spec

\* No mapping is lost unnoticed, whatever the reports, however many import at the
\* same time and whichever requests fail.
THEOREM Accounted == Spec => []ImportAccounted
<1>1. IInv => ImportAccounted
  BY DEF IInv
<1> QED
  BY InitIInv, NextIInv, <1>1, PTL DEF Spec

-----------------------------------------------------------------------------
(* The choice of the report.                                                *)

\* As long as nobody touches a report, the times are those of the reports' generation.
TimeInv ==
    /\ \A q \in Importers : chosen[q] <= written
    /\ touches = 0 => \A n \in 1..written : changed[n] = n

LEMMA NextTimeInv == TypeOK /\ TimeInv /\ [Next]_vars => TimeInv'
<1> SUFFICES ASSUME TypeOK, TimeInv, [Next]_vars PROVE TimeInv'
  OBVIOUS
<1>t. /\ chosen \in [Importers -> 0..Len(Reports)] /\ Len(Reports) \in Nat
      /\ written \in 0..Len(Reports) /\ changed \in [1..written -> Nat] /\ touches \in Nat
  BY ImportFacts DEF TypeOK
<1>1. CASE ReportWritten
  BY <1>t, <1>1 DEF ReportWritten, Now, importer, TimeInv
<1>2. ASSUME NEW n \in 1..written, ReportTouched(n) PROVE TimeInv'
  BY <1>t, <1>2 DEF ReportTouched, importer, TimeInv
<1>3. ASSUME NEW p \in Importers, Populate(p) PROVE TimeInv'
  BY <1>t, <1>3 DEF Populate, reports, TimeInv
<1>4. CASE UNCHANGED <<chosen, written, changed, touches>>
  BY <1>4 DEF TimeInv
<1>5. ASSUME NEW p \in Importers, Step(p), ~Populate(p)
      PROVE  UNCHANGED <<chosen, written, changed, touches>>
  BY <1>5 DEF Step, Refused, RequestFails, AnswerLost, Create, Conflicts, Search,
              SearchFindsNone, Update, UpdateFindsNone, Stays, reports
<1>6. ASSUME NEW slot \in Slots, Delete(slot)
      PROVE  UNCHANGED <<chosen, written, changed, touches>>
  BY <1>6 DEF Delete, importer, reports
<1>7. UNCHANGED vars => UNCHANGED <<chosen, written, changed, touches>>
  BY DEF vars, importer, reports
<1> QED
  BY <1>1, <1>2, <1>3, <1>4, <1>5, <1>6, <1>7 DEF Next, Finished

\* No import starts from an older report than one before it, while none is touched.
THEOREM Newest == Spec => NeverOlder
<1>1. Init => TimeInv
  BY DEF Init, TimeInv
<1>2. ASSUME TypeOK, TimeInv, [Next]_vars, touches = 0, NEW p \in Importers,
             NEW q \in Importers, chosen'[p] # chosen[p]
      PROVE  chosen[q] <= chosen'[p]
  <2>t. /\ chosen \in [Importers -> 0..Len(Reports)] /\ Len(Reports) \in Nat
        /\ written \in 0..Len(Reports)
    BY <1>2, ImportFacts DEF TypeOK
  <2>1. PICK r \in Importers : Populate(r)
    BY <1>2 DEF Next, Finished, vars, ReportWritten, ReportTouched, Delete, importer, Step, Refused,
                RequestFails, AnswerLost, Create, Conflicts, Search, SearchFindsNone, Update,
                UpdateFindsNone, Stays
  <2>2. PICK n \in 1..written : /\ \A k \in 1..written : changed[k] <= changed[n]
                                /\ chosen' = [chosen EXCEPT ![r] = n]
    BY <2>1 DEF Populate
  <2>3. n = written
    <3>1. written \in 1..written /\ changed[written] = written /\ changed[n] = n
      BY <1>2, <2>t DEF TimeInv
    <3> QED
      BY <2>t, <2>2, <3>1
  <2>4. chosen'[p] = written
    BY <1>2, <2>t, <2>2, <2>3
  <2> QED
    BY <1>2, <2>4 DEF TimeInv
<1>3. TypeOK /\ TimeInv /\ [Next]_vars =>
          [touches = 0 => \A p, q \in Importers :
              chosen'[p] # chosen[p] => chosen[q] <= chosen'[p]]_vars
  BY <1>2
<1> QED
  BY <1>1, <1>3, NextTimeInv, TypeCorrect, PTL DEF Spec, NeverOlder

-----------------------------------------------------------------------------
(* Importers do not make each other fail.                                   *)

\* Without failed requests only deleted mappings are listed, and what an importer
\* ran into or found is there unless it was deleted.
JustInv ==
    failures = 0 => \A p \in Importers :
        /\ mapping[p] \subseteq deleted
        /\ \A key \in DOMAIN summary[p] : summary[p][key] \subseteq deleted
        /\ pc[p] = "search" => store[Current(p).slot] # Unmapped \/ Current(p).slot \in deleted
        /\ pc[p] = "update" => \/ store[Current(p).slot].id = found[p]
                               \/ Current(p).slot \in deleted

LEMMA JustProceeds ==
  ASSUME IInv, JustInv, failures = 0, NEW p \in Importers, Requesting(p),
         NEW new \in SUBSET deleted, Proceed(p, new)
  PROVE  \A q \in Importers :
             /\ mapping'[q] \subseteq deleted
             /\ \A key \in DOMAIN summary'[q] : summary'[q][key] \subseteq deleted
             /\ pc'[q] \in {"search", "update"} => q # p /\ pc'[q] = pc[q] /\ at'[q] = at[q]
<1>t. /\ mapping \in [Importers -> SUBSET Slots] /\ summary \in [Importers -> Summaries]
      /\ at \in [Importers -> Nat \ {0}]
      /\ pc \in [Importers -> Requests \cup {"populate", "complete", "aborted", "refused"}]
  BY DEF IInv, LocalInv, TypeOK
<1> DEFINE list == ListSoFar(p) \cup new
<1>1. list \subseteq deleted
  BY DEF ListSoFar, JustInv
<1>2. /\ mapping' = [mapping EXCEPT ![p] = list]
      /\ at' = [at EXCEPT ![p] = @ + 1]
      /\ pc' = [pc EXCEPT ![p] = IF at[p] = Len(Work(p)) THEN "complete" ELSE "create"]
      /\ \/ summary' = summary
         \/ summary' = [summary EXCEPT ![p] =
               [k \in DOMAIN @ \cup {Current(p).key} |->
                   IF k = Current(p).key THEN list ELSE @[k]]]
  BY DEF Proceed
<1> QED
  BY <1>t, <1>1, <1>2 DEF JustInv

LEMMA NextJustInv == IInv /\ JustInv /\ [Next]_vars => JustInv'
<1> SUFFICES ASSUME IInv, JustInv, [Next]_vars, failures' = 0 PROVE JustInv'
  BY DEF JustInv
<1>t. /\ store \in [Slots -> [id : Nat, port : Ports \cup {"none"}]] /\ nextId \in Nat \ {0}
      /\ found \in [Importers -> Nat] /\ failures \in Nat
      /\ pc \in [Importers -> Requests \cup {"populate", "complete", "aborted", "refused"}]
      /\ chosen \in [Importers -> 0..Len(Reports)]
  BY DEF IInv, LocalInv, TypeOK
<1>i. /\ \A s \in Slots : store[s].id < nextId /\ (store[s].id = 0 => store[s] = Unmapped)
      /\ \A q \in Importers : pc[q] = "update" => found[q] # 0
  BY DEF IInv, IdInv
<1>c. \A q \in Importers : pc[q] \in {"search", "update"} => Current(q).slot \in Slots
  BY CurrentType DEF IInv, Requesting, Requests
<1>1. CASE ReportWritten \/ (\E n \in 1..written : ReportTouched(n)) \/ UNCHANGED vars
  <2>1. UNCHANGED <<importer, neutron, failures>>
    BY <1>1 DEF ReportWritten, ReportTouched, vars
  <2> QED
    BY <2>1 DEF JustInv, importer, neutron, Current, Work
<1>2. ASSUME NEW p \in Importers, Step(p) PROVE JustInv'
  <2>f. failures = 0
    BY <1>t, <1>2 DEF Step, Populate, Refused, RequestFails, AnswerLost, Create, Conflicts, Search,
                      SearchFindsNone, Update, UpdateFindsNone
  <2>1. CASE Populate(p) \/ Refused(p)
    <3>1. /\ \A q \in Importers : pc'[q] \in {"search", "update"} =>
                 pc'[q] = pc[q] /\ Work(q)' = Work(q)
          /\ UNCHANGED <<at, found, mapping, summary, neutron>>
      BY <1>t, <2>1 DEF Populate, Refused, Work
    <3> QED
      BY <2>f, <3>1 DEF JustInv, Current, neutron
  <2>w. CASE \A q \in Importers : Work(q)' = Work(q)
    <3>1. CASE Create(p) \/ Update(p)
      <4>1. /\ Requesting(p) /\ Proceed(p, {}) /\ UNCHANGED <<found, deleted>>
        BY <3>1 DEF Create, Update, Created, Updated, Requesting, Requests
      <4>2. \A q \in Importers : pc'[q] \in {"search", "update"} =>
                pc'[q] = pc[q] /\ Current(q)' = Current(q)
        BY <2>f, <2>w, <4>1, JustProceeds DEF Current
      <4>3. \A s \in Slots : /\ store[s] # Unmapped => store'[s] # Unmapped
                             /\ store[s].id # 0 => store'[s].id = store[s].id
        <5>1. CASE Created(p)
          BY <1>t, <1>i, <5>1 DEF Created, Unmapped
        <5>2. CASE Updated(p)
          BY <1>t, <1>i, <5>2 DEF Updated, Unmapped
        <5> QED
          BY <3>1, <5>1, <5>2 DEF Create, Update
      <4>4. \A q \in Importers : mapping'[q] \subseteq deleted
               /\ \A key \in DOMAIN summary'[q] : summary'[q][key] \subseteq deleted
        BY <2>f, <4>1, JustProceeds
      <4> QED
        BY <1>i, <1>c, <2>f, <4>1, <4>2, <4>3, <4>4 DEF JustInv
    <3>2. CASE SearchFindsNone(p) \/ UpdateFindsNone(p)
      <4>1. Requesting(p) /\ Proceed(p, {Current(p).slot}) /\ UNCHANGED <<found, neutron>>
        BY <3>2 DEF SearchFindsNone, UpdateFindsNone, Raises, Requesting, Requests
      <4>2. {Current(p).slot} \subseteq deleted
        BY <1>c, <2>f, <3>2 DEF SearchFindsNone, UpdateFindsNone, JustInv
      <4>3. \A q \in Importers :
               /\ mapping'[q] \subseteq deleted
               /\ \A key \in DOMAIN summary'[q] : summary'[q][key] \subseteq deleted
               /\ pc'[q] \in {"search", "update"} =>
                      q # p /\ pc'[q] = pc[q] /\ at'[q] = at[q]
        BY <2>f, <4>1, <4>2, JustProceeds
      <4> QED
        BY <2>f, <2>w, <4>1, <4>3 DEF JustInv, Current, neutron
    <3>3. CASE Conflicts(p) \/ Search(p)
      <4>1. /\ UNCHANGED <<at, mapping, summary, neutron>>
            /\ \/ /\ pc' = [pc EXCEPT ![p] = "search"] /\ found' = found
                  /\ store[Current(p).slot] # Unmapped
               \/ /\ pc' = [pc EXCEPT ![p] = "update"]
                  /\ found' = [found EXCEPT ![p] = store[Current(p).slot].id]
        BY <3>3 DEF Conflicts, Search
      <4>2. \A q \in Importers : Current(q)' = Current(q)
        BY <2>w, <4>1 DEF Current
      <4> QED
        BY <1>t, <2>f, <4>1, <4>2 DEF JustInv, neutron
    <3>4. ~RequestFails(p) /\ ~AnswerLost(p)
      BY <1>t, <2>f DEF RequestFails, AnswerLost
    <3> QED
      BY <1>2, <2>1, <3>1, <3>2, <3>3, <3>4 DEF Step
  <2>3. Populate(p) \/ Refused(p) \/ chosen' = chosen
    BY <1>2 DEF Step, RequestFails, AnswerLost, Create, Conflicts, Search, SearchFindsNone,
                Update, UpdateFindsNone, Stays
  <2>4. chosen' = chosen => \A q \in Importers : Work(q)' = Work(q)
    BY DEF Work
  <2> QED
    BY <2>1, <2>w, <2>3, <2>4
<1>3. ASSUME NEW slot \in Slots, Delete(slot) PROVE JustInv'
  <2>1. /\ store' = [store EXCEPT ![slot] = Unmapped] /\ deleted' = deleted \cup {slot}
        /\ UNCHANGED <<importer, failures>>
    BY <1>3 DEF Delete
  <2>2. \A q \in Importers : Current(q)' = Current(q)
    BY <2>1 DEF Current, Work, importer
  <2> QED
    BY <1>t, <1>c, <2>1, <2>2 DEF JustInv, importer
<1> QED
  BY <1>1, <1>2, <1>3 DEF Next, Finished

\* With every request answered, importers never make each other fail: what a summary
\* names was deleted by somebody.
THEOREM Justified == Spec => []FailuresJustified
<1>1. Init => JustInv
  BY DEF Init, JustInv
<1>2. JustInv => FailuresJustified
  BY DEF JustInv, FailuresJustified
<1> QED
  BY InitIInv, NextIInv, <1>1, NextJustInv, <1>2, PTL DEF Spec

-----------------------------------------------------------------------------
(* The import started last.                                                 *)

\* It is the only one under way unless it is overlapped, and one that has not started
\* has overlapped nobody.
SoleInv ==
    /\ last \subseteq Importers /\ \A p, q \in last : p = q
    /\ \A p \in last \cup overlapped : pc[p] \notin {"populate", "refused"}
    /\ \A p \in last \ overlapped : Active \subseteq {p}
    /\ last = {} => Active = {}

LEMMA NextSole == IInv /\ SoleInv /\ [Next]_vars => SoleInv'
<1> SUFFICES ASSUME IInv, SoleInv, [Next]_vars PROVE SoleInv'
  OBVIOUS
<1>t. pc \in [Importers -> Requests \cup {"populate", "complete", "aborted", "refused"}]
  BY DEF IInv, LocalInv, TypeOK
<1>1. ASSUME NEW p \in Importers, Populate(p) PROVE SoleInv'
  <2>1. /\ pc[p] = "populate" /\ pc' = [pc EXCEPT ![p] = "create"] /\ last' = {p}
        /\ overlapped' = overlapped \cup (IF Active = {} THEN {} ELSE Active \cup {p})
    BY <1>1 DEF Populate
  <2>2. Active' = Active \cup {p}
    BY <1>t, <2>1 DEF Active, Requests
  <2>3. \A q \in overlapped' : pc'[q] \notin {"populate", "refused"}
    BY <1>t, <2>1 DEF SoleInv, Active, Requests
  <2> QED
    BY <1>t, <2>1, <2>2, <2>3 DEF SoleInv
<1>2. ASSUME UNCHANGED <<last, overlapped>>, Active' \subseteq Active,
             \A q \in Importers : pc[q] \notin {"populate", "refused"} =>
                                      pc'[q] \notin {"populate", "refused"}
      PROVE  SoleInv'
  BY <1>2 DEF SoleInv, IInv, LocalInv, TypeOK
<1>3. ASSUME NEW p \in Importers, Step(p), ~Populate(p) PROVE SoleInv'
  <2>1. CASE Refused(p)
    BY <1>t, <1>2, <2>1 DEF Refused, Active, Requests
  <2>2. CASE ~Refused(p)
    <3>1. /\ Requesting(p) /\ UNCHANGED <<last, overlapped>>
      BY <1>3, <2>2 DEF Step, RequestFails, AnswerLost, Create, Conflicts, Search,
                        SearchFindsNone, Update, UpdateFindsNone, Created, Updated, Requesting,
                        Requests, Stays
    <3>2. \E next \in Requests \cup {"complete", "aborted"} : pc' = [pc EXCEPT ![p] = next]
      BY <1>3, <2>2 DEF Step, RequestFails, AnswerLost, Create, Conflicts, Search,
                        SearchFindsNone, Update, UpdateFindsNone, Raises, Proceed, Requests
    <3> QED
      BY <1>t, <1>2, <3>1, <3>2 DEF Requesting, Active, Requests
  <2> QED
    BY <2>1, <2>2
<1>4. UNCHANGED importer => SoleInv'
  BY <1>2 DEF importer, Active
<1>5. ReportWritten \/ (\E n \in 1..written : ReportTouched(n))
          \/ (\E slot \in Slots : Delete(slot)) \/ UNCHANGED vars => UNCHANGED importer
  BY DEF ReportWritten, ReportTouched, Delete, vars
<1> QED
  BY <1>1, <1>3, <1>4, <1>5 DEF Next, Finished

\* The slots of a report are different.
LEMMA OneSlotEach ==
  ASSUME TypeOK, NEW p \in Importers, NEW a \in DOMAIN Work(p), NEW b \in DOMAIN Work(p),
         Work(p)[a].slot = Work(p)[b].slot
  PROVE  a = b
<1>1. chosen[p] \in DOMAIN Reports /\ Work(p) = AllWork[chosen[p]]
  <2>1. chosen[p] # 0
    BY DEF Work
  <2> QED
    BY <2>1, ImportFacts DEF TypeOK, Work
<1> DEFINE slots == [k \in DOMAIN AllWork[chosen[p]] |-> AllWork[chosen[p]][k].slot]
<1>2. IsInjective(slots)
  BY <1>1, ImportFacts
<1> QED
  BY <1>1, <1>2 DEF IsInjective

\* A step of the import itself: what it was done with stays, and so does what it writes.
LEMMA WinsStep ==
  ASSUME IInv, LastImportWins, NEW p \in Importers, Requesting(p), last \ overlapped \subseteq {p},
         NEW done \in BOOLEAN, LocalStep(p, done), Stays, UNCHANGED deleted,
         \/ ~done /\ UNCHANGED <<store, nextId>>
         \/ Created(p)
         \/ Updated(p)
  PROVE  LastImportWins'
<1>w. \A q \in Importers : Work(q)' = Work(q)
  BY DEF Stays, Work
<1>s. /\ \A s \in Slots : \/ store'[s].port = store[s].port
                          \/ s = Current(p).slot /\ store'[s].port = Current(p).port
      /\ done => store'[Current(p).slot].port = Current(p).port
  BY Writes
<1>c. at[p] \in DOMAIN Work(p) /\ Current(p) = Work(p)[at[p]]
  BY CurrentType DEF IInv, Current
<1> SUFFICES ASSUME p \in last \ overlapped, NEW n \in 1..at'[p] - 1
             PROVE  \/ store'[Work(p)[n].slot].port = Work(p)[n].port
                    \/ InSummary(p, Work(p)[n])'
                    \/ Work(p)[n].slot \in deleted
  <2>1. \A q \in last' \ overlapped' : q = p
    BY DEF Stays
  <2> QED
    BY <1>w, <2>1 DEF LastImportWins, Stays, InSummary
<1>n. n \in DOMAIN Work(p) /\ n \in Nat /\ Work(p)[n].slot \in Slots /\ Work(p)[n] \in Mappings
  <2>1. at'[p] \in Nat /\ at'[p] <= Len(Work(p)) + 1
    BY <1>w DEF LocalStep, ImporterOK
  <2>2. n \in DOMAIN Work(p) /\ n \in Nat
    BY <2>1, WorkType DEF IInv, LocalInv
  <2> QED
    BY <2>2, MappingType DEF IInv, LocalInv
<1>1. CASE n < at[p]
  <2>1. n \in 1..at[p] - 1
    BY <1>n, <1>1 DEF IInv, LocalInv, TypeOK
  <2>2. \/ store[Work(p)[n].slot].port = Work(p)[n].port
        \/ InSummary(p, Work(p)[n])
        \/ Work(p)[n].slot \in deleted
    BY <2>1 DEF LastImportWins
  <2>3. Work(p)[n].slot # Current(p).slot
    <3>1. TypeOK /\ n # at[p]
      BY <1>n, <1>1 DEF IInv, LocalInv, TypeOK
    <3> QED
      BY <1>c, <1>n, <3>1, OneSlotEach
  <2>4. InSummary(p, Work(p)[n]) => \A m \in Mappings : m = Work(p)[n] => InSummary(p, m)'
    BY <1>n DEF LocalStep, SummaryGrows
  <2>5. CASE InSummary(p, Work(p)[n])
    BY <1>n, <1>w, <2>4, <2>5 DEF InSummary
  <2>6. CASE store[Work(p)[n].slot].port = Work(p)[n].port
    BY <1>n, <1>s, <2>3, <2>6
  <2> QED
    BY <2>2, <2>5, <2>6
<1>2. CASE n = at[p] /\ (done \/ \A m \in Mappings : m = Current(p) => InSummary(p, m)')
  <2>1. (\A m \in Mappings : m = Work(p)[n] => InSummary(p, m)') => InSummary(p, Work(p)[n])'
    BY <1>n, <1>w DEF InSummary
  <2> QED
    BY <1>c, <1>s, <1>2, <2>1
<1> QED
  BY <1>1, <1>2 DEF LocalStep, Passes

\* Steps that leave every import where it is and add at most to what was deleted.
LEMMA WinsKept ==
  ASSUME IInv, LastImportWins, UNCHANGED <<chosen, at, summary, last, overlapped>>,
         deleted \subseteq deleted', \A s \in Slots \ deleted' : store'[s] = store[s]
  PROVE  LastImportWins'
<1>w. \A q \in Importers : Work(q)' = Work(q)
  BY DEF Work
<1>1. ASSUME NEW q \in Importers, NEW n \in 1..at[q] - 1 PROVE Work(q)[n].slot \in Slots
  BY SettledType DEF IInv, LocalInv
<1>2. last \subseteq Importers
  BY DEF IInv, LocalInv, TypeOK
<1> SUFFICES ASSUME NEW q \in last \ overlapped, NEW n \in 1..at[q] - 1
             PROVE  \/ store'[Work(q)[n].slot].port = Work(q)[n].port
                    \/ InSummary(q, Work(q)[n])'
                    \/ Work(q)[n].slot \in deleted'
  BY <1>w, <1>2 DEF LastImportWins, InSummary
<1>3. \/ store[Work(q)[n].slot].port = Work(q)[n].port
      \/ InSummary(q, Work(q)[n])
      \/ Work(q)[n].slot \in deleted
  BY DEF LastImportWins
<1> QED
  BY <1>w, <1>1, <1>2, <1>3 DEF InSummary

LEMMA NextWins == IInv /\ SoleInv /\ LastImportWins /\ [Next]_vars => LastImportWins'
<1> SUFFICES ASSUME IInv, SoleInv, LastImportWins, [Next]_vars PROVE LastImportWins'
  OBVIOUS
<1>1. CASE ReportWritten \/ (\E n \in 1..written : ReportTouched(n)) \/ UNCHANGED vars
  <2>1. UNCHANGED <<importer, neutron>>
    BY <1>1 DEF ReportWritten, ReportTouched, vars
  <2> QED
    BY <2>1, WinsKept DEF importer, neutron
<1>2. ASSUME NEW p \in Importers, Populate(p) PROVE LastImportWins'
  <2>1. pc[p] = "populate" /\ last' = {p} /\ UNCHANGED at
    BY <1>2 DEF Populate
  <2>2. at[p] = 1
    BY <2>1 DEF IInv, LocalInv, TypeOK, PlaceInv, Work
  <2> QED
    BY <2>1, <2>2 DEF LastImportWins
<1>3. ASSUME NEW p \in Importers, Refused(p) \/ Conflicts(p) \/ Search(p)
      PROVE  LastImportWins'
  <2>1. UNCHANGED <<chosen, at, summary, last, overlapped, neutron>>
    BY <1>3 DEF Refused, Conflicts, Search, Stays
  <2> QED
    BY <2>1, WinsKept DEF neutron
<1>4. ASSUME NEW p \in Importers, Step(p),
             ~(Populate(p) \/ Refused(p) \/ Conflicts(p) \/ Search(p))
      PROVE  LastImportWins'
  <2>1. Requesting(p) /\ Stays /\ UNCHANGED <<found, deleted, deletes>>
    BY <1>4, Ending
  <2>2. last \ overlapped \subseteq {p}
    BY <2>1 DEF SoleInv, Active, Requesting
  <2>3. PICK done \in BOOLEAN :
           /\ LocalStep(p, done)
           /\ \/ ~done /\ UNCHANGED <<store, nextId>>
              \/ Created(p)
              \/ Updated(p)
    BY <1>4, Ending
  <2> QED
    BY <2>1, <2>2, <2>3, WinsStep
<1>5. ASSUME NEW slot \in Slots, Delete(slot) PROVE LastImportWins'
  <2>1. /\ store' = [store EXCEPT ![slot] = Unmapped] /\ deleted' = deleted \cup {slot}
        /\ UNCHANGED importer
    BY <1>5 DEF Delete
  <2> QED
    BY <2>1, WinsKept DEF importer, IInv, LocalInv, TypeOK
<1> QED
  BY <1>1, <1>2, <1>3, <1>4, <1>5 DEF Next, Finished

\* The import started last decides what Neutron holds, unless another was under way
\* with it.
THEOREM Wins == Spec => []LastImportWins
<1>1. Init => SoleInv /\ LastImportWins
  BY DEF Init, SoleInv, LastImportWins, Active, Requests
<1> QED
  BY InitIInv, NextIInv, <1>1, NextSole, NextWins, PTL DEF Spec

-----------------------------------------------------------------------------
(* The import implements MappingStore.                                      *)

LEMMA StoreInit == Init => StoreOf!Init
  BY DEF Init, StoreOf!Init, Work

\* Steps between the writes.
LEMMA StoreStutter ==
  ASSUME UNCHANGED <<chosen, at>>, \A s \in Slots : store'[s].port = store[s].port
  PROVE  UNCHANGED StoreOf!vars
  BY DEF StoreOf!vars, Work

\* A request that ends writes the mapping the importer is at, or gives it up.
LEMMA StoreEnding ==
  ASSUME IInv, NEW p \in Importers, Step(p),
         ~(Populate(p) \/ Refused(p) \/ Conflicts(p) \/ Search(p))
  PROVE  StoreOf!Put(p) \/ StoreOf!GivesUp(p) \/ UNCHANGED StoreOf!vars
<1>1. Requesting(p) /\ UNCHANGED chosen
  BY Ending DEF Stays
<1>2. at' = [at EXCEPT ![p] = @ + 1] \/ UNCHANGED at
  BY DEF Step, RequestFails, AnswerLost, Create, SearchFindsNone, Update, UpdateFindsNone,
         Raises, Proceed
<1>3. \/ \A s \in Slots : store'[s].port = store[s].port
      \/ \A s \in Slots : store'[s].port = IF s = Current(p).slot THEN Current(p).port
                                                                 ELSE store[s].port
  <2>1. PICK done \in BOOLEAN : \/ ~done /\ UNCHANGED <<store, nextId>>
                                \/ Created(p)
                                \/ Updated(p)
    BY Ending
  <2> QED
    BY <1>1, <2>1, Writes
<1>4. /\ at \in [Importers -> Nat \ {0}] /\ Len(Work(p)) \in Nat /\ at[p] <= Len(Work(p))
      /\ Current(p) = Work(p)[at[p]] /\ Current(p).slot \in Slots
  BY <1>1, CurrentType, WorkType DEF IInv, LocalInv, TypeOK, PlaceInv, Current
<1> DEFINE settled == [q \in Importers |-> at[q] - 1]
           ports == [s \in Slots |-> store[s].port]
<1>5. settled[p] < Len(Work(p)) /\ Work(p)[settled[p] + 1] = Current(p)
  BY <1>4
<1>6. \/ settled' = [settled EXCEPT ![p] = @ + 1]
      \/ settled' = settled
  <2>1. CASE at' = [at EXCEPT ![p] = @ + 1]
    <3>1. \A q \in Importers : at[q] \in Int /\ at'[q] = IF q = p THEN at[q] + 1 ELSE at[q]
      BY <1>4, <2>1
    <3>2. \A q \in Importers : at'[q] - 1 = IF q = p THEN (at[q] - 1) + 1 ELSE at[q] - 1
      BY <3>1
    <3> QED
      BY <3>2
  <2> QED
    BY <1>2, <2>1
<1>7. \/ ports' = ports
      \/ ports' = [ports EXCEPT ![Current(p).slot] = Current(p).port]
  BY <1>3, <1>4
<1>8. [q \in Importers |-> Work(q)]' = [q \in Importers |-> Work(q)]
  BY <1>1 DEF Work
<1> HIDE DEF settled, ports
<1> QED
  BY <1>5, <1>6, <1>7, <1>8 DEF StoreOf!Put, StoreOf!GivesUp, StoreOf!Settled, StoreOf!vars,
                                settled, ports

LEMMA StoreNext == IInv /\ [Next]_vars => [StoreOf!Next]_(StoreOf!vars)
<1> SUFFICES ASSUME IInv, [Next]_vars PROVE [StoreOf!Next]_(StoreOf!vars)
  OBVIOUS
<1>1. CASE ReportWritten \/ (\E n \in 1..written : ReportTouched(n)) \/ UNCHANGED vars
  <2>1. UNCHANGED <<importer, neutron>>
    BY <1>1 DEF ReportWritten, ReportTouched, vars
  <2> QED
    BY <2>1, StoreStutter DEF importer, neutron
<1>2. ASSUME NEW p \in Importers, Populate(p) PROVE StoreOf!Begin(p)
  <2>1. Work(p) = <<>> /\ UNCHANGED <<at, store>>
    BY <1>2 DEF Populate, IInv, LocalInv, PlaceInv, Work, neutron
  <2>2. \A q \in Importers \ {p} : Work(q)' = Work(q)
    BY <1>2 DEF Populate, IInv, LocalInv, TypeOK, Work
  <2> QED
    BY <2>1, <2>2 DEF StoreOf!Begin
<1>3. ASSUME NEW p \in Importers, Refused(p) \/ Conflicts(p) \/ Search(p)
      PROVE  UNCHANGED StoreOf!vars
  <2>1. UNCHANGED <<chosen, at, neutron>>
    BY <1>3 DEF Refused, Conflicts, Search, Stays
  <2> QED
    BY <2>1, StoreStutter DEF neutron
<1>4. ASSUME NEW p \in Importers, Step(p),
             ~(Populate(p) \/ Refused(p) \/ Conflicts(p) \/ Search(p))
      PROVE  StoreOf!Put(p) \/ StoreOf!GivesUp(p) \/ UNCHANGED StoreOf!vars
  BY <1>4, StoreEnding
<1>5. ASSUME NEW slot \in Slots, Delete(slot) PROVE StoreOf!Remove(slot)
  <2>1. store' = [store EXCEPT ![slot] = Unmapped] /\ UNCHANGED <<chosen, at>>
    BY <1>5 DEF Delete, importer
  <2>2. [s \in Slots |-> store[s].port]' = [[s \in Slots |-> store[s].port] EXCEPT
                                               ![slot] = Unmapped.port]
    BY <2>1 DEF IInv, LocalInv, TypeOK
  <2> QED
    BY <2>1, <2>2 DEF StoreOf!Remove, Work
<1> QED
  BY <1>1, <1>2, <1>3, <1>4, <1>5 DEF Next, Finished, StoreOf!Next

\* To Neutron an import is a series of single writes, one per mapping in the order of
\* the report, however many requests each takes and whatever else is written.
THEOREM ImplementsStore == Spec => KeepsStore
<1>1. Spec => [][StoreOf!Next]_(StoreOf!vars)
  BY InitIInv, NextIInv, StoreNext, PTL DEF Spec
<1>2. Spec => StoreOf!Init
  BY StoreInit, PTL DEF Spec
<1> QED
  BY <1>1, <1>2, PTL DEF KeepsStore, StoreOf!Spec

-----------------------------------------------------------------------------
(* Comparing an imported report.                                            *)

\* A complete import is done with all its mappings, and what was deleted took a
\* deletion.
DoneInv ==
    /\ \A p \in Importers : pc[p] = "complete" => at[p] = Len(Work(p)) + 1
    /\ deletes = 0 => deleted = {}

LEMMA NextDone == IInv /\ DoneInv /\ [Next]_vars => DoneInv'
<1> SUFFICES ASSUME IInv, DoneInv, [Next]_vars PROVE DoneInv'
  OBVIOUS
<1>t. /\ pc \in [Importers -> Requests \cup {"populate", "complete", "aborted", "refused"}]
      /\ at \in [Importers -> Nat \ {0}] /\ deletes \in Nat
      /\ chosen \in [Importers -> 0..Len(Reports)]
  BY ImportAssumption DEF IInv, LocalInv, TypeOK
<1>1. ASSUME NEW p \in Importers, Populate(p) \/ Refused(p) PROVE DoneInv'
  BY <1>t, <1>1 DEF Populate, Refused, neutron, DoneInv, Work
<1>2. ASSUME NEW p \in Importers, Requesting(p), Stays, UNCHANGED <<deleted, deletes>>,
             \/ \E new : Proceed(p, new)
             \/ UNCHANGED at /\ \E next \in {"search", "update", "aborted"} :
                                   pc' = [pc EXCEPT ![p] = next]
      PROVE  DoneInv'
  <2>1. \A q \in Importers : Work(q)' = Work(q)
    BY <1>2 DEF Stays, Work
  <2>2. CASE \E new : Proceed(p, new)
    <3>1. /\ pc' = [pc EXCEPT ![p] = IF at[p] = Len(Work(p)) THEN "complete" ELSE "create"]
          /\ at' = [at EXCEPT ![p] = @ + 1]
      BY <2>2 DEF Proceed
    <3> QED
      BY <1>t, <1>2, <2>1, <3>1 DEF DoneInv
  <2>3. CASE UNCHANGED at /\ \E next \in {"search", "update", "aborted"} :
                                pc' = [pc EXCEPT ![p] = next]
    BY <1>t, <1>2, <2>1, <2>3 DEF DoneInv
  <2> QED
    BY <1>2, <2>2, <2>3
<1>3. ASSUME NEW p \in Importers, Step(p), ~Populate(p), ~Refused(p) PROVE DoneInv'
  <2>1. Requesting(p) /\ Stays /\ UNCHANGED <<deleted, deletes>>
    BY <1>3 DEF Step, RequestFails, AnswerLost, Create, Conflicts, Search, SearchFindsNone,
                Update, UpdateFindsNone, Created, Updated, Requesting, Requests, neutron
  <2>2. \/ \E new : Proceed(p, new)
        \/ UNCHANGED at /\ \E next \in {"search", "update", "aborted"} :
                              pc' = [pc EXCEPT ![p] = next]
    BY <1>3 DEF Step, RequestFails, AnswerLost, Create, Conflicts, Search, SearchFindsNone,
                Update, UpdateFindsNone, Raises
  <2> QED
    BY <1>2, <2>1, <2>2
<1>4. ASSUME NEW slot \in Slots, Delete(slot) PROVE DoneInv'
  BY <1>t, <1>4 DEF Delete, DoneInv, Work, importer
<1>5. CASE ReportWritten \/ (\E n \in 1..written : ReportTouched(n)) \/ UNCHANGED vars
  BY <1>5 DEF ReportWritten, ReportTouched, vars, importer, neutron, DoneInv, Work
<1> QED
  BY <1>1, <1>3, <1>4, <1>5 DEF Next, Finished

\* The new map has a virtual function under the port of a mapping of the import.
LEMMA MapOfReport ==
  ASSUME NEW report, IsReport(report), NEW slot \in DOMAIN NewReportMap(report)
  PROVE  \E n \in DOMAIN MappingsIn(report) :
            /\ MappingsIn(report)[n].slot = slot
            /\ MappingsIn(report)[n].port = NewReportMap(report)[slot]
<1> DEFINE interface == CHOOSE i \in ToSet(report) : slot \in VfSlots(i)
<1>1. slot \in UNION {VfSlots(i) : i \in ToSet(report)}
      /\ NewReportMap(report)[slot] = interface.port
  BY DEF NewReportMap
<1>2. interface \in ToSet(report) /\ slot \in VfSlots(interface)
  BY <1>1
<1> HIDE DEF interface
<1>3. PICK i \in DOMAIN report : report[i] = interface
  BY <1>2 DEF ToSet
<1>4. PICK a \in DOMAIN interface.vfs : slot = <<interface.host, interface.vfs[a]>>
  BY <1>2 DEF VfSlots
<1>5. interface.vfs \in Seq(ToSet(interface.vfs))
  BY <1>3 DEF IsReport
<1>6. a \in Nat /\ a <= Len(interface.vfs) /\ a \in 1..Len(interface.vfs) + 1
  BY <1>5
<1>7. /\ a \in DOMAIN MappingsOf(interface)
      /\ MappingsOf(interface)[a].slot = slot
      /\ MappingsOf(interface)[a].port = interface.port
  BY <1>4, <1>5, <1>6, OfInterface
<1>8. PICK n \in DOMAIN MappingsIn(report) :
         MappingsIn(report)[n] = MappingsOf(interface)[a]
  <2>1. \A k \in DOMAIN MappingsOf(report[i]) :
           \E n \in DOMAIN MappingsIn(report) : MappingsIn(report)[n] = MappingsOf(report[i])[k]
    BY OfReport
  <2> QED
    BY <1>3, <1>7, <2>1
<1> QED
  BY <1>1, <1>7, <1>8

\* After undisturbed imports each mapping of an imported report is in Neutron, with
\* the port of one of them.
LEMMA AllMapped ==
  ASSUME IInv, JustInv, DoneInv, Undisturbed, NEW p \in Importers, chosen[p] # 0,
         NEW n \in DOMAIN Work(p)
  PROVE  /\ Work(p)[n].slot \in OldReportSlots
         /\ store[Work(p)[n].slot].port \in PortsFor(Work(p)[n].slot)
<1>1. Work(p) \in Seq(Mappings) /\ Work(p)[n].slot \in Slots
  BY WorkType, MappingType DEF IInv, LocalInv
<1>2. at[p] = Len(Work(p)) + 1 /\ deleted = {} /\ failures = 0
  BY DEF Undisturbed, DoneInv, IInv, LocalInv, PlaceInv
<1>3. n \in 1..at[p] - 1
  BY <1>1, <1>2
<1>4. ~InSummary(p, Work(p)[n])
  BY <1>2 DEF JustInv, InSummary
<1>5. store[Work(p)[n].slot].port \in PortsFor(Work(p)[n].slot)
  BY <1>2, <1>3, <1>4 DEF IInv, ImportAccounted
<1>6. store[Work(p)[n].slot] # Unmapped
  BY <1>5, ImportAssumption DEF PortsFor
<1> QED
  BY <1>1, <1>5, <1>6 DEF OldReportSlots

LEMMA QuietThen == IInv /\ JustInv /\ DoneInv => CompareQuiet
<1> SUFFICES ASSUME IInv, JustInv, DoneInv, Undisturbed, NEW p \in Importers, chosen[p] # 0
             PROVE  LET report == Reports[chosen[p]]
                    IN  /\ NewPortAdded(report) = {}
                        /\ \A slot \in PortModified(report) :
                              PortsFor(slot) # {NewReportMap(report)[slot]}
  BY DEF CompareQuiet
<1> DEFINE report == Reports[chosen[p]]
<1>1. IsReport(report) /\ Work(p) = MappingsIn(report)
  <2>1. chosen[p] \in DOMAIN Reports
    BY ImportAssumption DEF IInv, LocalInv, TypeOK
  <2> QED
    BY <2>1, ImportAssumption DEF Work, AllWork
<1> HIDE DEF report
<1>2. ASSUME NEW slot \in DOMAIN NewReportMap(report)
      PROVE  slot \in OldReportSlots /\ store[slot].port \in PortsFor(slot)
  <2>1. PICK n \in DOMAIN Work(p) : Work(p)[n].slot = slot
    BY <1>1, MapOfReport
  <2> QED
    BY <2>1, AllMapped
<1>3. NewPortAdded(report) = {}
  BY <1>2 DEF NewPortAdded
<1>4. ASSUME NEW slot \in PortModified(report)
      PROVE  PortsFor(slot) # {NewReportMap(report)[slot]}
  <2>1. slot \in DOMAIN NewReportMap(report) /\ NewReportMap(report)[slot] # store[slot].port
    BY <1>4 DEF PortModified
  <2> QED
    BY <1>2, <2>1
<1> QED
  BY <1>3, <1>4 DEF report

\* Comparing a report that was imported undisturbed shows no new port, and no modified
\* one but where another importer had a different port, for all reports and any number
\* of importers (topology_import.py:90-135, compare_topology.py:35-66).
THEOREM Quiet == Spec => []CompareQuiet
<1>1. Init => JustInv
  BY DEF Init, JustInv
<1>2. Init => DoneInv
  BY DEF Init, DoneInv
<1> QED
  BY InitIInv, NextIInv, <1>1, NextJustInv, <1>2, NextDone, QuietThen, PTL DEF Spec
=============================================================================
