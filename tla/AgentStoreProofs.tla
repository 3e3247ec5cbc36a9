-------------------------- MODULE AgentStoreProofs --------------------------
(***************************************************************************)
(* Proofs about AgentStore for every set of agents, hosts and edits, every *)
(* number of failing system calls and any number of crashes.               *)
(***************************************************************************)
EXTENDS AgentStore, TLAPS

\* What the two writers rely on.  A writer that met nobody on its way (solo)
\* owns agents.json.tmp; without an overlap in doubt every writer is solo.
WriterInv ==
  /\ \A w \in Writers : writer[w].pc # "write" => writer[w].fd = "none"
  /\ writer["save"].pc # "redirty"
  /\ phase = "down" => \A w \in Writers : writer[w].pc = "idle"
  /\ \A w \in Writers : OnDisk(w) /\ writer[w].solo =>
       /\ ~OnDisk(Other(w))
       /\ writer[w].pc = "write" => writer[w].fd = "tmp" /\ tmp = Blank
       /\ writer[w].pc = "rename" => tmp = writer[w].data
  /\ "overlap" \notin doubt =>
       /\ path \notin {Blank, Torn}
       /\ \A w \in Writers : OnDisk(w) => writer[w].solo

\* How the writers' data and the file relate to memory.
DataInv ==
  /\ OnDisk("save") => writer["save"].data = agents
  /\ OnDisk("flush") /\ writer["flush"].solo =>
       /\ Identity(writer["flush"].data) = Identity(agents)
       /\ ~dirty => writer["flush"].data = agents
  /\ Up /\ LockFree /\ doubt = {} =>
       /\ Identity(Recover(path)) = Identity(agents)
       /\ ~dirty /\ writer["flush"].pc = "idle" => Recover(path) = agents

-----------------------------------------------------------------------------
(* Types.                                                                  *)

\* A registry without agents is a registry.
LEMMA EmptyIsMap == Empty \in AgentMap
  BY DEF Empty, AgentMap

\* Whatever is on disk, a restart has a registry.
LEMMA RecoverIsMap == ASSUME NEW f \in File PROVE Recover(f) \in AgentMap
  BY EmptyIsMap DEF Recover, File

\* A writer at rest is a writer.
LEMMA RestingIsWriter == Resting \in Writer
  BY EmptyIsMap DEF Resting, Writer

\* The start of a locked save keeps the types of what it changes.
LEMMA BeginSaveType ==
  ASSUME TypeOK, NEW m \in AgentMap, BeginSave(m)
  PROVE  agents' \in AgentMap /\ writer' \in [Writers -> Writer] /\ doubt' \in SUBSET {"overlap", "failed"}
  BY DEF TypeOK, BeginSave, Writers, Writer, OnDisk

\* So does a system call that fails,
LEMMA FailStepType ==
  ASSUME TypeOK, NEW w \in Writers, NEW rest \in [Writers -> Writer], FailStep(w, rest)
  PROVE  writer' \in [Writers -> Writer] /\ doubt' \in SUBSET {"overlap", "failed"}
  BY RestingIsWriter DEF TypeOK, FailStep, Writers, Writer

\* and the copy a flush takes.
LEMMA SnapshotType ==
  ASSUME TypeOK, TakeSnapshot
  PROVE  agents' \in AgentMap /\ dirty' \in BOOLEAN /\ writer' \in [Writers -> Writer]
         /\ path' \in File /\ tmp' \in File /\ faults' \in 0 .. MaxFaults
         /\ doubt' \in SUBSET {"overlap", "failed"}
  BY DEF TypeOK, TakeSnapshot, Writers, Writer

\* The faults stay within their bound.
LEMMA FaultyType == ASSUME TypeOK, Faulty PROVE faults' \in 0 .. MaxFaults
  BY StoreAssumption DEF TypeOK, Faulty

\* Every step keeps the types.
LEMMA TypeStep == TypeOK /\ [Next]_vars => TypeOK'
  <1> SUFFICES ASSUME TypeOK, [Next]_vars PROVE TypeOK'
    OBVIOUS
  <1>1. ASSUME NEW id \in Ids, NEW url \in Urls, NEW meta \in Metas, Register(id, url, meta)
        PROVE  TypeOK'
    <2>1. PICK victim \in Replaced(id, url) :
            BeginSave([agents EXCEPT ![victim] = NoAgent, ![id] = [url |-> url, meta |-> meta]])
      BY <1>1 DEF Register
    <2>2. [agents EXCEPT ![victim] = NoAgent, ![id] = [url |-> url, meta |-> meta]] \in AgentMap
      BY DEF TypeOK, AgentMap, Agent, Replaced, Rivals
    <2>3. QED
      BY <1>1, <2>1, <2>2, BeginSaveType DEF Register, TypeOK
  <1>2. ASSUME NEW id \in Ids, Unregister(id) PROVE TypeOK'
    <2>1. [agents EXCEPT ![id] = NoAgent] \in AgentMap
      BY DEF TypeOK, AgentMap
    <2>2. QED
      BY <1>2, <2>1, BeginSaveType DEF Unregister, TypeOK
  <1>3. CASE PersistAll
    <2>1. agents \in AgentMap
      BY DEF TypeOK
    <2>2. QED
      BY <1>3, <2>1, BeginSaveType DEF PersistAll, TypeOK
  <1>4. ASSUME NEW id \in Ids, NEW meta \in Metas, UpdateAgent(id, meta) PROVE TypeOK'
    <2>1. agents' \in AgentMap
      BY <1>4 DEF UpdateAgent, TypeOK, AgentMap, Agent
    <2>2. QED
      BY <1>4, <2>1 DEF UpdateAgent, TypeOK
  <1>5. ASSUME NEW id \in Ids, ChangeStatus(id) PROVE TypeOK'
    BY <1>5 DEF ChangeStatus, TypeOK
  <1>6. CASE FlushTick
    BY <1>6, SnapshotType DEF FlushTick, TypeOK
  <1>7. CASE MarkDirtyAgain
    BY <1>7, RestingIsWriter DEF MarkDirtyAgain, TypeOK, Writers
  <1>8. ASSUME NEW w \in Writers, SaveStep(w) PROVE TypeOK'
    <2>1. CASE Create(w)
      BY <2>1 DEF Create, TypeOK, Writers, Writer, File
    <2>2. CASE Write(w)
      <3>1. tmp' \in File /\ path' \in File
        BY <2>2 DEF Write, Overwrite, TypeOK, Writer, File
      <3>2. QED
        BY <2>2, <3>1 DEF Write, TypeOK, Writers, Writer
    <2>3. CASE Rename(w)
      <3>1. writer' \in [Writers -> Writer]
        BY <2>3, RestingIsWriter DEF Rename, Renamed, TypeOK, Writers, Writer, Other
      <3>2. QED
        BY <2>3, <3>1 DEF Rename, TypeOK, File
    <2>4. CASE RenameFails(w)
      BY <2>4, FaultyType DEF RenameFails, TypeOK, Writers, Writer
    <2>5. CASE Cleanup(w)
      <3>1. [writer EXCEPT ![Other(w)].fd = IF @ = "tmp" THEN "gone" ELSE @] \in [Writers -> Writer]
        BY DEF TypeOK, Writers, Writer, Other
      <3>2. QED
        BY <2>5, <3>1, FailStepType DEF Cleanup, TypeOK, File
    <2>6. QED
      BY <1>8, <2>1, <2>2, <2>3, <2>4, <2>5 DEF SaveStep
  <1>9. ASSUME NEW w \in Writers, SaveFault(w) PROVE TypeOK'
    <2>1. CASE CreateFails(w)
      BY <2>1, FailStepType, FaultyType DEF CreateFails, TypeOK
    <2>2. CASE WriteFails(w)
      <3>1. [writer EXCEPT ![w].fd = "none"] \in [Writers -> Writer]
        BY DEF TypeOK, Writers, Writer
      <3>2. tmp' \in File /\ path' \in File
        BY <2>2 DEF WriteFails, TypeOK, File
      <3>3. QED
        BY <2>2, <3>1, <3>2, FailStepType, FaultyType DEF WriteFails, TypeOK
    <2>3. QED
      BY <1>9, <2>1, <2>2 DEF SaveFault
  <1>10. CASE StopFlushLoop
    BY <1>10 DEF StopFlushLoop, TypeOK
  <1>11. CASE FinalFlush
    BY <1>11, SnapshotType DEF FinalFlush, TypeOK
  <1>12. CASE ProcessEnds
    BY <1>12, EmptyIsMap, RestingIsWriter DEF ProcessEnds, TypeOK
  <1>13. CASE Restart
    BY <1>13, RecoverIsMap DEF Restart, TypeOK
  <1>14. CASE UNCHANGED vars
    BY <1>14 DEF vars, TypeOK
  <1>15. QED
    BY <1>1, <1>2, <1>3, <1>4, <1>5, <1>6, <1>7, <1>8, <1>9, <1>10, <1>11, <1>12,
       <1>13, <1>14 DEF Next, Exit, Crash

\* Every variable keeps its type, whatever races and whatever fails.
THEOREM TypeCorrect == Spec => []TypeOK
  <1>1. Init => TypeOK
    <2>1. 0 \in 0 .. MaxFaults
      BY StoreAssumption
    <2>2. QED
      BY <2>1, EmptyIsMap, RestingIsWriter DEF Init, TypeOK, File
  <1>2. QED
    BY <1>1, TypeStep, PTL DEF Spec

-----------------------------------------------------------------------------
(* One agent per host.                                                     *)

\* No two agents share a host where there is none.
LEMMA EmptyIsUnique == HostUnique(Empty)
  BY DEF HostUnique, Empty

\* Deleting the first rival is enough, because there is at most one.
LEMMA RegisterKeepsUnique ==
  ASSUME agents \in AgentMap, HostUnique(agents),
         NEW id \in Ids, NEW url \in Urls, NEW meta \in Metas, NEW victim \in Replaced(id, url)
  PROVE  HostUnique([agents EXCEPT ![victim] = NoAgent, ![id] = [url |-> url, meta |-> meta]])
  <1> DEFINE new == [agents EXCEPT ![victim] = NoAgent, ![id] = [url |-> url, meta |-> meta]]
  <1> SUFFICES ASSUME NEW i \in Ids, NEW j \in Ids, new[i] # NoAgent, new[j] # NoAgent,
                      new[i].url = new[j].url
               PROVE  i = j
    BY DEF HostUnique
  <1>1. victim \in Ids
    BY DEF Replaced, Rivals
  <1>2. new[id] = [url |-> url, meta |-> meta]
    BY <1>1 DEF AgentMap
  <1>3. \A k \in Ids \ {id} : new[k] # NoAgent => k # victim /\ new[k] = agents[k]
    BY <1>1 DEF AgentMap
  <1>4. ASSUME NEW k \in Ids \ {id}, new[k] # NoAgent PROVE new[k].url # url
    <2> SUFFICES ASSUME new[k].url = url PROVE FALSE
      OBVIOUS
    <2>1. k \in Rivals(id, url) /\ k # victim
      BY <1>3, <1>4 DEF Rivals
    <2>2. victim \in Rivals(id, url)
      BY <2>1 DEF Replaced
    <2>3. QED
      BY <2>1, <2>2 DEF Rivals, HostUnique
  <1>a. new[id].url = url
    BY <1>2
  <1> HIDE DEF new
  <1>5. CASE i = id \/ j = id
    <2>1. i = id => j \notin Ids \ {id}
      BY <1>a, <1>4
    <2>2. j = id => i \notin Ids \ {id}
      BY <1>a, <1>4
    <2>3. QED
      BY <1>5, <2>1, <2>2
  <1>6. CASE i # id /\ j # id
    BY <1>3, <1>6 DEF HostUnique
  <1>7. QED
    BY <1>5, <1>6

\* An edit moves no agent.
LEMMA UpdateKeepsUnique ==
  ASSUME agents \in AgentMap, HostUnique(agents), NEW id \in Ids, agents[id] # NoAgent,
         NEW meta \in Metas
  PROVE  HostUnique([agents EXCEPT ![id].meta = meta])
  <1> DEFINE new == [agents EXCEPT ![id].meta = meta]
  <1>1. \A k \in Ids : new[k] # NoAgent => agents[k] # NoAgent /\ new[k].url = agents[k].url
    BY DEF AgentMap, Agent
  <1>2. QED
    BY <1>1 DEF HostUnique

\* The part of OneAgentPerHost that system calls move around.
LEMMA FileStepKeepsUnique ==
  ASSUME TypeOK, OneAgentPerHost, NEW w \in Writers, SaveStep(w) \/ SaveFault(w)
  PROVE  OneAgentPerHost'
  <1> USE EmptyIsUnique DEF OneAgentPerHost
  <1>1. agents' = agents
    BY DEF SaveStep, SaveFault, Create, CreateFails, Write, WriteFails, Rename, RenameFails, Cleanup
  <1>2. \A x \in Writers : writer'[x].data \in {writer[x].data, Empty}
    BY DEF SaveStep, SaveFault, Create, CreateFails, Write, WriteFails, Rename, RenameFails,
           Cleanup, FailStep, TypeOK, Writers, Writer, Resting, Other
  <1>3. /\ path' \in {path, tmp, writer[w].data, Torn}
        /\ tmp' \in {tmp, NoFile, Blank, Torn, writer[w].data}
    BY DEF SaveStep, SaveFault, Create, CreateFails, Write, WriteFails, Rename, RenameFails,
           Cleanup, Overwrite
  <1>4. HostUnique(Recover(NoFile)) /\ HostUnique(Recover(Blank)) /\ HostUnique(Recover(Torn))
    BY DEF Recover
  <1>5. HostUnique(Recover(writer[w].data))
    BY DEF Recover
  <1>6. HostUnique(Recover(path')) /\ HostUnique(Recover(tmp'))
    BY <1>3, <1>4, <1>5
  <1>7. \A x \in Writers : HostUnique(writer'[x].data)
    BY <1>2
  <1>8. QED
    BY <1>1, <1>6, <1>7 DEF HostUnique

\* A locked save starts with the registry's own data.
LEMMA BeginSaveKeepsUnique ==
  ASSUME TypeOK, OneAgentPerHost, NEW m \in AgentMap, HostUnique(m), BeginSave(m),
         UNCHANGED <<path, tmp>>
  PROVE  OneAgentPerHost'
  <1>1. agents' = m
    BY DEF BeginSave
  <1>2. \A x \in Writers : writer'[x].data \in {writer[x].data, m}
    BY DEF BeginSave, TypeOK, Writers, Writer
  <1>3. HostUnique(agents') /\ \A x \in Writers : HostUnique(writer'[x].data)
    BY <1>1, <1>2 DEF OneAgentPerHost
  <1>4. QED
    BY <1>3 DEF OneAgentPerHost, HostUnique

\* Every step keeps one agent per host.
LEMMA UniqueStep == TypeOK /\ OneAgentPerHost /\ [Next]_vars => OneAgentPerHost'
  <1> SUFFICES ASSUME TypeOK, OneAgentPerHost, [Next]_vars PROVE OneAgentPerHost'
    OBVIOUS
  <1>1. ASSUME NEW id \in Ids, NEW url \in Urls, NEW meta \in Metas, Register(id, url, meta)
        PROVE  OneAgentPerHost'
    <2>1. PICK victim \in Replaced(id, url) :
            BeginSave([agents EXCEPT ![victim] = NoAgent, ![id] = [url |-> url, meta |-> meta]])
      BY <1>1 DEF Register
    <2>2. [agents EXCEPT ![victim] = NoAgent, ![id] = [url |-> url, meta |-> meta]] \in AgentMap
      BY DEF TypeOK, AgentMap, Agent, Replaced, Rivals
    <2>3. HostUnique([agents EXCEPT ![victim] = NoAgent, ![id] = [url |-> url, meta |-> meta]])
      BY RegisterKeepsUnique DEF TypeOK, OneAgentPerHost
    <2>4. QED
      BY <1>1, <2>1, <2>2, <2>3, BeginSaveKeepsUnique DEF Register
  <1>2. ASSUME NEW id \in Ids, Unregister(id) PROVE OneAgentPerHost'
    <2>1. [agents EXCEPT ![id] = NoAgent] \in AgentMap
      BY DEF TypeOK, AgentMap
    <2>2. HostUnique([agents EXCEPT ![id] = NoAgent])
      BY DEF TypeOK, AgentMap, OneAgentPerHost, HostUnique
    <2>3. QED
      BY <1>2, <2>1, <2>2, BeginSaveKeepsUnique DEF Unregister
  <1>3. CASE PersistAll
    BY <1>3, BeginSaveKeepsUnique DEF PersistAll, TypeOK, OneAgentPerHost
  <1>4. ASSUME NEW id \in Ids, NEW meta \in Metas, UpdateAgent(id, meta) PROVE OneAgentPerHost'
    <2>1. HostUnique([agents EXCEPT ![id].meta = meta])
      BY <1>4, UpdateKeepsUnique DEF UpdateAgent, TypeOK, OneAgentPerHost
    <2>2. HostUnique(agents')
      BY <1>4, <2>1 DEF UpdateAgent
    <2>3. QED
      BY <1>4, <2>2 DEF UpdateAgent, OneAgentPerHost, HostUnique
  <1>5. ASSUME NEW id \in Ids, ChangeStatus(id) PROVE OneAgentPerHost'
    BY <1>5 DEF ChangeStatus, OneAgentPerHost, HostUnique
  <1>6. ASSUME TakeSnapshot PROVE OneAgentPerHost'
    <2>1. \A x \in Writers : writer'[x].data \in {writer[x].data, agents}
      BY <1>6 DEF TakeSnapshot, TypeOK, Writers, Writer
    <2>2. \A x \in Writers : HostUnique(writer'[x].data)
      BY <2>1 DEF OneAgentPerHost
    <2>3. QED
      BY <1>6, <2>2 DEF TakeSnapshot, OneAgentPerHost, HostUnique
  <1>7. CASE MarkDirtyAgain
    <2>1. \A x \in Writers : writer'[x].data \in {writer[x].data, Empty}
      BY <1>7 DEF MarkDirtyAgain, TypeOK, Writers, Writer, Resting
    <2>2. \A x \in Writers : HostUnique(writer'[x].data)
      BY <2>1, EmptyIsUnique DEF OneAgentPerHost
    <2>3. QED
      BY <1>7, <2>2 DEF MarkDirtyAgain, OneAgentPerHost, HostUnique
  <1>8. ASSUME NEW w \in Writers, SaveStep(w) \/ SaveFault(w) PROVE OneAgentPerHost'
    BY <1>8, FileStepKeepsUnique
  <1>9. ASSUME UNCHANGED <<agents, writer, path, tmp>> PROVE OneAgentPerHost'
    BY <1>9 DEF OneAgentPerHost, HostUnique
  <1>10. CASE ProcessEnds
    <2>1. HostUnique(agents') /\ \A x \in Writers : HostUnique(writer'[x].data)
      BY <1>10, EmptyIsUnique DEF ProcessEnds, Resting
    <2>2. QED
      BY <1>10, <2>1 DEF ProcessEnds, OneAgentPerHost, HostUnique
  <1>11. CASE Restart
    <2>1. HostUnique(agents')
      BY <1>11 DEF Restart, OneAgentPerHost
    <2>2. QED
      BY <1>11, <2>1 DEF Restart, OneAgentPerHost, HostUnique
  <1>12. QED
    BY <1>1, <1>2, <1>3, <1>4, <1>5, <1>6, <1>7, <1>8, <1>9, <1>10, <1>11
       DEF Next, Exit, Crash, FlushTick, FinalFlush, StopFlushLoop, vars

\* No two agents ever share a host: not in memory, not in the copy a flush is
\* about to write, and not in anything a restart can load.
THEOREM HostsStayUnique == Spec => []OneAgentPerHost
  <1>1. Init => OneAgentPerHost
    BY EmptyIsUnique DEF Init, OneAgentPerHost, Resting, Recover
  <1>2. QED
    BY <1>1, UniqueStep, TypeStep, TypeCorrect, PTL DEF Spec

-----------------------------------------------------------------------------
(* The file is never half-written unless two writers overlapped.           *)

\* A whole document is none of the other contents of a file.
LEMMA MapsAreReadable == \A m \in AgentMap : m \notin {NoFile, Blank, Torn}
  BY StoreAssumption DEF AgentMap, Agent

\* A locked save starts alone, or notes the overlap.
LEMMA BeginSaveKeepsWriterInv ==
  ASSUME TypeOK, WriterInv, Up, LockFree, NEW m \in AgentMap, BeginSave(m),
         UNCHANGED <<phase, path, tmp>>
  PROVE  WriterInv'
  BY ZenonT(40) DEF TypeOK, WriterInv, BeginSave, Up, LockFree, OnDisk, Writers, Writer, Other

\* So does a flush.
LEMMA SnapshotKeepsWriterInv ==
  ASSUME TypeOK, WriterInv, TakeSnapshot, phase # "down", phase' # "down"
  PROVE  WriterInv'
  BY DEF TypeOK, WriterInv, TakeSnapshot, LockFree, OnDisk, Writers, Writer, Other

\* A writer's system calls, failing ones included, keep the file whole.
LEMMA FileStepKeepsWriterInv ==
  ASSUME TypeOK, WriterInv, NEW w \in Writers, SaveStep(w) \/ SaveFault(w)
  PROVE  WriterInv'
  <1> USE DEF WriterInv, OnDisk, Writers, Writer, Other, Resting
  <1>1. CASE Create(w)
    BY <1>1 DEF Create, TypeOK
  <1>2. CASE CreateFails(w)
    BY <1>2 DEF CreateFails, FailStep, TypeOK
  <1>3. CASE Write(w)
    <2>1. writer[w].solo => tmp' = writer[w].data /\ path' = path
      BY <1>3 DEF Write, Overwrite
    <2>2. QED
      BY <1>3, <2>1 DEF Write, TypeOK
  <1>4. CASE WriteFails(w)
    <2>1. writer[w].solo => path' = path
      BY <1>4 DEF WriteFails
    <2>2. QED
      BY <1>4, <2>1 DEF WriteFails, FailStep, TypeOK
  <1>5. CASE Rename(w)
    <2>1. writer[w].solo => path' \notin {Blank, Torn}
      BY <1>5, MapsAreReadable DEF Rename, TypeOK
    <2>2. ~writer[w].solo => doubt' = doubt /\ "overlap" \in doubt
      BY <1>5 DEF Rename
    <2>3. QED
      BY SMTT(60), <1>5, <2>1, <2>2 DEF Rename, Renamed, TypeOK
  <1>6. CASE RenameFails(w)
    BY <1>6 DEF RenameFails, TypeOK
  <1>7. CASE Cleanup(w)
    <2>1. \A v \in Writers : writer'[v].pc # "write" => writer'[v].fd = "none"
      BY <1>7 DEF Cleanup, FailStep, TypeOK
    <2>2. /\ writer'["save"].pc # "redirty" /\ phase' # "down" /\ path' = path
          /\ ~OnDisk(w)' /\ writer'[Other(w)].pc = writer[Other(w)].pc
          /\ writer'[Other(w)].solo = writer[Other(w)].solo
      <3>1. CASE w = "save"
        BY <1>7, <3>1 DEF Cleanup, FailStep, TypeOK
      <3>2. CASE w = "flush"
        BY <1>7, <3>2 DEF Cleanup, FailStep, TypeOK
      <3>3. QED
        BY <3>1, <3>2
    <2>3. doubt \subseteq doubt' /\ OnDisk(w)
      BY <1>7 DEF Cleanup, FailStep
    <2>4. ~(OnDisk(Other(w)) /\ writer[Other(w)].solo)
      BY <2>3
    <2>5. QED
      BY <2>1, <2>2, <2>3, <2>4
  <1>8. QED
    BY <1>1, <1>2, <1>3, <1>4, <1>5, <1>6, <1>7 DEF SaveStep, SaveFault

\* Every step keeps WriterInv,
LEMMA WriterStep == TypeOK /\ WriterInv /\ [Next]_vars => WriterInv'
  <1> SUFFICES ASSUME TypeOK, WriterInv, [Next]_vars PROVE WriterInv'
    OBVIOUS
  <1>1. ASSUME NEW id \in Ids, NEW url \in Urls, NEW meta \in Metas, Register(id, url, meta)
        PROVE  WriterInv'
    <2>1. PICK victim \in Replaced(id, url) :
            BeginSave([agents EXCEPT ![victim] = NoAgent, ![id] = [url |-> url, meta |-> meta]])
      BY <1>1 DEF Register
    <2>2. [agents EXCEPT ![victim] = NoAgent, ![id] = [url |-> url, meta |-> meta]] \in AgentMap
      BY DEF TypeOK, AgentMap, Agent, Replaced, Rivals
    <2>3. QED
      BY <1>1, <2>1, <2>2, BeginSaveKeepsWriterInv DEF Register
  <1>2. ASSUME NEW id \in Ids, Unregister(id) PROVE WriterInv'
    <2>1. [agents EXCEPT ![id] = NoAgent] \in AgentMap
      BY DEF TypeOK, AgentMap
    <2>2. QED
      BY <1>2, <2>1, BeginSaveKeepsWriterInv DEF Unregister
  <1>3. CASE PersistAll
    BY <1>3, BeginSaveKeepsWriterInv DEF PersistAll, TypeOK
  <1>4. CASE FlushTick
    BY <1>4, SnapshotKeepsWriterInv DEF FlushTick
  <1>5. CASE FinalFlush
    <2>1. CASE dirty
      BY <1>5, <2>1, SnapshotKeepsWriterInv DEF FinalFlush
    <2>2. CASE ~dirty
      BY <1>5, <2>2 DEF FinalFlush, WriterInv, OnDisk
    <2>3. QED
      BY <2>1, <2>2
  <1>6. CASE MarkDirtyAgain
    BY <1>6 DEF MarkDirtyAgain, WriterInv, TypeOK, OnDisk, Writers, Writer, Other, Resting
  <1>7. ASSUME NEW w \in Writers, SaveStep(w) \/ SaveFault(w) PROVE WriterInv'
    BY <1>7, FileStepKeepsWriterInv
  <1>8. CASE ProcessEnds
    BY <1>8 DEF ProcessEnds, WriterInv, OnDisk, Writers, Resting
  <1>9. CASE Restart
    BY <1>9 DEF Restart, WriterInv, OnDisk, Writers
  <1>10. CASE StopFlushLoop
    BY <1>10 DEF StopFlushLoop, WriterInv, OnDisk
  <1>11. ASSUME UNCHANGED <<phase, writer, path, tmp, doubt>> PROVE WriterInv'
    BY <1>11 DEF WriterInv, OnDisk
  <1>12. QED
    BY <1>1, <1>2, <1>3, <1>4, <1>5, <1>6, <1>7, <1>8, <1>9, <1>10, <1>11
       DEF Next, Exit, Crash, UpdateAgent, ChangeStatus, vars

\* and it holds at the start,
LEMMA InitWriterInv == Init => WriterInv
  BY StoreAssumption DEF Init, WriterInv, OnDisk, Writers, Resting

\* so it always holds.
LEMMA WriterInvHolds == Spec => []WriterInv
  BY InitWriterInv, WriterStep, TypeCorrect, PTL DEF Spec

\* agents.json holds a whole document at every moment, through failed system
\* calls and kills, as long as no flush overlaps a locked save.
THEOREM FileStaysWhole == Spec => []FileAtomic
  <1>1. WriterInv => FileAtomic
    BY DEF WriterInv, FileAtomic
  <1>2. QED
    BY <1>1, WriterInvHolds, PTL

-----------------------------------------------------------------------------
(* Registrations are durable, and a quiet store agrees with its file.      *)

\* A restart reads back what was written.
LEMMA RecoverMap == \A m \in AgentMap : Recover(m) = m
  BY MapsAreReadable DEF Recover

\* An edit changes neither who is registered nor where.
LEMMA UpdateKeepsIdentity ==
  ASSUME agents \in AgentMap, NEW id \in Ids, agents[id] # NoAgent, NEW meta \in Metas
  PROVE  Identity([agents EXCEPT ![id].meta = meta]) = Identity(agents)
  <1> DEFINE new == [agents EXCEPT ![id].meta = meta]
  <1>1. new[id].url = agents[id].url /\ new[id] # NoAgent
    BY StoreAssumption DEF AgentMap, Agent
  <1>2. \A i \in Ids \ {id} : new[i] = agents[i]
    BY DEF AgentMap
  <1>3. \A i \in Ids : (IF new[i] = NoAgent THEN NoAgent ELSE new[i].url)
                     = (IF agents[i] = NoAgent THEN NoAgent ELSE agents[i].url)
    BY <1>1, <1>2
  <1>4. QED
    BY <1>3 DEF Identity

\* A locked save starts with data that is up to date.
LEMMA BeginSaveKeepsDataInv ==
  ASSUME TypeOK, DataInv, Up, LockFree, NEW m \in AgentMap, BeginSave(m),
         UNCHANGED <<phase, dirty, path, tmp>>
  PROVE  DataInv'
  <1>1. /\ agents' = m
        /\ writer'["save"].data = m
        /\ writer'["save"].pc = "create"
        /\ writer'["flush"].pc = writer["flush"].pc
        /\ OnDisk("flush")' => ~writer'["flush"].solo
    BY DEF BeginSave, TypeOK, OnDisk, Writers, Writer
  <1>2. QED
    BY <1>1 DEF DataInv, OnDisk, Up, LockFree

\* What reaches the file is the writer's data, and a failure is noted.
LEMMA FileStepKeepsDataInv ==
  ASSUME TypeOK, WriterInv, DataInv, NEW w \in Writers, SaveStep(w) \/ SaveFault(w)
  PROVE  DataInv'
  <1>0. UNCHANGED <<phase, agents, dirty>>
    BY DEF SaveStep, SaveFault, Create, CreateFails, Write, WriteFails, Rename, RenameFails, Cleanup
  <1> USE DEF OnDisk, Writers, Writer, Other, Resting, Up, LockFree
  <1>1. CASE Create(w)
    BY <1>0, <1>1 DEF Create, TypeOK, DataInv
  <1>2. CASE CreateFails(w)
    BY <1>0, <1>2 DEF CreateFails, FailStep, TypeOK, DataInv
  <1>3. CASE Write(w)
    <2>1. w = "flush" /\ "overlap" \notin doubt => path' = path
      BY <1>3 DEF Write, WriterInv
    <2>2. UNCHANGED doubt /\ \A x \in Writers :
             writer'[x].data = writer[x].data /\ writer'[x].solo = writer[x].solo
      BY <1>3 DEF Write, TypeOK
    <2>3. \A x \in Writers : writer'[x].pc = IF x = w THEN "rename" ELSE writer[x].pc
      BY <1>3 DEF Write, TypeOK
    <2>4. writer[w].pc = "write"
      BY <1>3 DEF Write
    <2>5. OnDisk("save")' => writer'["save"].data = agents'
      BY <1>0, <2>2, <2>3, <2>4 DEF DataInv
    <2>6. OnDisk("flush")' /\ writer'["flush"].solo =>
            /\ Identity(writer'["flush"].data) = Identity(agents')
            /\ ~dirty' => writer'["flush"].data = agents'
      BY <1>0, <2>2, <2>3, <2>4 DEF DataInv
    <2>7. ASSUME (Up /\ LockFree)', doubt' = {}
          PROVE  /\ Identity(Recover(path')) = Identity(agents')
                 /\ ~dirty' /\ writer'["flush"].pc = "idle" => Recover(path') = agents'
      <3>1. w = "flush" /\ LockFree /\ Up /\ doubt = {}
        BY <1>0, <2>2, <2>3, <2>7
      <3>2. QED
        BY <1>0, <2>1, <2>3, <3>1 DEF DataInv
    <2>8. QED
      BY <2>5, <2>6, <2>7 DEF DataInv, Identity
  <1>4. CASE WriteFails(w)
    <2>1. w = "flush" /\ "overlap" \notin doubt => path' = path
      BY <1>4 DEF WriteFails, WriterInv
    <2>2. w = "save" => doubt' # {} /\ writer' = [writer EXCEPT !["save"] = Resting]
      BY <1>4 DEF WriteFails, FailStep, TypeOK
    <2>3. w = "flush" => doubt' = doubt /\ writer'["save"] = writer["save"]
                         /\ writer'["flush"].pc = "redirty"
      BY <1>4 DEF WriteFails, FailStep, TypeOK
    <2>4. QED
      BY <1>0, <2>1, <2>2, <2>3 DEF DataInv, TypeOK
  <1>5. CASE Rename(w)
    <2>1. /\ writer'[w] = Resting
          /\ writer'[Other(w)].pc = writer[Other(w)].pc
          /\ writer'[Other(w)].data = writer[Other(w)].data
          /\ writer'[Other(w)].solo = writer[Other(w)].solo
      BY ZenonT(40), <1>5 DEF Rename, TypeOK
    <2>2. writer[w].solo => /\ ~OnDisk(Other(w))
                            /\ path' = writer[w].data
                            /\ Recover(path') = path'
      BY <1>5, RecoverMap DEF Rename, WriterInv, TypeOK
    <2>3. ~writer[w].solo => doubt' # {}
      BY <1>5 DEF Rename, WriterInv
    <2>4. CASE w = "save"
      <3>1. writer'["save"].pc = "idle" /\ OnDisk("save")
        BY <1>5, <2>1, <2>4 DEF Rename
      <3>2. writer["save"].solo => path' = agents /\ Recover(path') = agents
        BY <2>2, <2>4, <3>1 DEF DataInv
      <3>3. QED
        BY <1>0, <2>1, <2>3, <2>4, <3>1, <3>2 DEF DataInv
    <2>5. CASE w = "flush"
      <3>1. writer'["flush"].pc = "idle" /\ OnDisk("flush")
        BY <1>5, <2>1, <2>5 DEF Rename
      <3>2. writer["flush"].solo =>
              /\ Identity(Recover(path')) = Identity(agents)
              /\ ~dirty => Recover(path') = agents
        BY <2>2, <2>5, <3>1 DEF DataInv
      <3>3. QED
        BY <1>0, <2>1, <2>3, <2>5, <3>1, <3>2 DEF DataInv
    <2>6. QED
      BY <2>4, <2>5
  <1>6. CASE RenameFails(w)
    BY <1>0, <1>6 DEF RenameFails, TypeOK, DataInv
  <1>7. CASE Cleanup(w)
    BY SMTT(60), <1>0, <1>7 DEF Cleanup, FailStep, TypeOK, DataInv
  <1>8. QED
    BY <1>1, <1>2, <1>3, <1>4, <1>5, <1>6, <1>7 DEF SaveStep, SaveFault

\* A flush copies the registry as it is.
LEMMA SnapshotKeepsDataInv ==
  ASSUME TypeOK, WriterInv, DataInv, TakeSnapshot, Up, Up'
  PROVE  DataInv'
  <1>1. /\ writer'["save"] = writer["save"]
        /\ writer'["flush"].data = agents
        /\ writer'["flush"].pc = "create"
    BY DEF TakeSnapshot, TypeOK, Writers
  <1>2. QED
    BY <1>1 DEF TakeSnapshot, DataInv, OnDisk, LockFree

\* Every step keeps DataInv,
LEMMA DataStep == TypeOK /\ WriterInv /\ DataInv /\ [Next]_vars => DataInv'
  <1> SUFFICES ASSUME TypeOK, WriterInv, DataInv, [Next]_vars PROVE DataInv'
    OBVIOUS
  <1>1. ASSUME NEW id \in Ids, NEW url \in Urls, NEW meta \in Metas, Register(id, url, meta)
        PROVE  DataInv'
    <2>1. PICK victim \in Replaced(id, url) :
            BeginSave([agents EXCEPT ![victim] = NoAgent, ![id] = [url |-> url, meta |-> meta]])
      BY <1>1 DEF Register
    <2>2. [agents EXCEPT ![victim] = NoAgent, ![id] = [url |-> url, meta |-> meta]] \in AgentMap
      BY DEF TypeOK, AgentMap, Agent, Replaced, Rivals
    <2>3. QED
      BY <1>1, <2>1, <2>2, BeginSaveKeepsDataInv DEF Register
  <1>2. ASSUME NEW id \in Ids, Unregister(id) PROVE DataInv'
    <2>1. [agents EXCEPT ![id] = NoAgent] \in AgentMap
      BY DEF TypeOK, AgentMap
    <2>2. QED
      BY <1>2, <2>1, BeginSaveKeepsDataInv DEF Unregister
  <1>3. CASE PersistAll
    BY <1>3, BeginSaveKeepsDataInv DEF PersistAll, TypeOK
  <1>4. ASSUME NEW id \in Ids, NEW meta \in Metas, UpdateAgent(id, meta) PROVE DataInv'
    <2>1. Identity(agents') = Identity(agents)
      BY <1>4, UpdateKeepsIdentity DEF UpdateAgent, TypeOK
    <2>2. QED
      BY <1>4, <2>1 DEF UpdateAgent, DataInv, OnDisk, Up, LockFree
  <1>5. ASSUME NEW id \in Ids, ChangeStatus(id) PROVE DataInv'
    BY <1>5 DEF ChangeStatus, DataInv, OnDisk, Up, LockFree, Identity
  <1>6. CASE FlushTick
    BY <1>6, SnapshotKeepsDataInv DEF FlushTick, Up
  <1>7. CASE FinalFlush
    <2>1. CASE dirty
      BY <1>7, <2>1, SnapshotKeepsDataInv DEF FinalFlush, Up
    <2>2. CASE ~dirty
      BY <1>7, <2>2 DEF FinalFlush, DataInv, OnDisk, Up, LockFree, Identity
    <2>3. QED
      BY <2>1, <2>2
  <1>8. CASE MarkDirtyAgain
    BY <1>8 DEF MarkDirtyAgain, DataInv, TypeOK, OnDisk, Writers, Writer, Resting, Up, LockFree, Identity
  <1>9. ASSUME NEW w \in Writers, SaveStep(w) \/ SaveFault(w) PROVE DataInv'
    BY <1>9, FileStepKeepsDataInv
  <1>10. CASE ProcessEnds
    BY <1>10 DEF ProcessEnds, DataInv, OnDisk, Writers, Resting, Up
  <1>11. CASE Restart
    BY <1>11 DEF Restart, WriterInv, DataInv, OnDisk, Writers, Identity
  <1>12. CASE StopFlushLoop
    BY <1>12 DEF StopFlushLoop, DataInv, OnDisk, Up, LockFree, Identity
  <1>13. CASE UNCHANGED vars
    BY <1>13 DEF vars, DataInv, OnDisk, Up, LockFree, Identity
  <1>14. QED
    BY <1>1, <1>2, <1>3, <1>4, <1>5, <1>6, <1>7, <1>8, <1>9, <1>10, <1>11, <1>12, <1>13
       DEF Next, Exit, Crash

\* and it holds at the start,
LEMMA InitDataInv == Init => DataInv
  BY DEF Init, DataInv, OnDisk, Writers, Resting, Recover

\* so it always holds.
LEMMA DataInvHolds == Spec => []DataInv
  BY InitDataInv, DataStep, WriterInvHolds, TypeCorrect, PTL DEF Spec

\* Unless a flush raced a locked save, or a save failed, every answered
\* registration and unregistration is what a restart would find.
THEOREM RegistrationsAreDurable == Spec => []IdentityDurable
  <1>1. DataInv => IdentityDurable
    BY DEF DataInv, IdentityDurable
  <1>2. QED
    BY <1>1, DataInvHolds, PTL

\* The dirty flag is honest: when it is down and no writer is at work the file
\* holds the registry, last edits included.
THEOREM QuietStoreIsSaved == Spec => []Settled
  <1>1. DataInv => Settled
    BY DEF DataInv, Settled, LockFree, Writers
  <1>2. QED
    BY <1>1, DataInvHolds, PTL
=============================================================================
