----------------------------- MODULE AgentStore -----------------------------
(***************************************************************************)
(* The agent registry and its JSON file: AgentRegistry                     *)
(* (internal/registry/registry.go), Persister (internal/registry/          *)
(* persister.go) and the part of main.go that loads, stops and restarts    *)
(* them.                                                                   *)
(*                                                                         *)
(* Two writers save the registry.  Register, Unregister and PersistAll     *)
(* call Persister.Save while they hold AgentRegistry.mu (writer "save");   *)
(* the flush loop copies the map under mu and calls SaveCompact after      *)
(* releasing it (writer "flush").  Both go through the same temporary      *)
(* file, so their system calls interleave.                                 *)
(*                                                                         *)
(* Data abstraction: an agent is its host (url) and one value, meta, for   *)
(* the fields UpdateAgent edits.  Status and LastSeenAt are left out (Load *)
(* overwrites the status); what their setters do to the file, raising the  *)
(* dirty flag, is kept.  The callers may call in any order: after an       *)
(* UpdateAgent a handler calls PersistAll in a critical section of its     *)
(* own, with room for others in between.  The file system is the one of a  *)
(* running kernel: a crash ends the process, not the machine.              *)
(***************************************************************************)
EXTENDS Naturals

CONSTANTS
  Ids,        \* agent identifiers
  Urls,       \* host addresses, compared as the strings they are
  Metas,      \* values of the fields that a PATCH or an enrichment edits
  NoAgent,    \* no agent has this identifier
  NoFile,     \* the file does not exist
  Blank,      \* the file exists and has no bytes yet
  Torn,       \* the file's bytes are not one JSON document
  MaxFaults   \* bound on failing system calls

ASSUME StoreAssumption ==
  /\ NoAgent \notin [url : Urls, meta : Metas]
  /\ {NoFile, Blank, Torn} \cap [Ids -> [url : Urls, meta : Metas] \cup {NoAgent}] = {}
  /\ NoFile # Blank /\ NoFile # Torn /\ Blank # Torn
  /\ MaxFaults \in Nat

VARIABLES
  phase,    \* of the process: running, draining, final or down
  agents,   \* AgentRegistry.agents
  dirty,    \* AgentRegistry.dirty
  writer,   \* the two activations of Persister.save
  path,     \* agents.json
  tmp,      \* agents.json.tmp
  faults,   \* system calls that failed so far
  doubt     \* history: why the file may be behind memory since the last good save

vars == <<phase, agents, dirty, writer, path, tmp, faults, doubt>>

Agent == [url : Urls, meta : Metas]
AgentMap == [Ids -> Agent \cup {NoAgent}]
Empty == [i \in Ids |-> NoAgent]
Writers == {"save", "flush"}
Other(w) == IF w = "save" THEN "flush" ELSE "save"

\* fd is where the inode the writer has open now lives: a rename moves it to
\* agents.json, a second rename or a remove leaves it without a name.
Writer == [pc   : {"idle", "create", "write", "rename", "cleanup", "redirty"},
           fd   : {"none", "tmp", "path", "gone"},
           data : AgentMap,
           solo : BOOLEAN]
Resting == [pc |-> "idle", fd |-> "none", data |-> Empty, solo |-> TRUE]

File == AgentMap \cup {NoFile, Blank, Torn}

TypeOK ==
  /\ phase \in {"running", "draining", "final", "down"}
  /\ agents \in AgentMap
  /\ dirty \in BOOLEAN
  /\ writer \in [Writers -> Writer]
  /\ path \in File
  /\ tmp \in File
  /\ faults \in 0 .. MaxFaults
  /\ doubt \in SUBSET {"overlap", "failed"}

Up == phase # "down"
LockFree == writer["save"].pc = "idle"    \* AgentRegistry.mu is not held over a save
OnDisk(w) == writer[w].pc \in {"create", "write", "rename", "cleanup"}

\* Mutant: a missing or damaged file is used as if it were a map.
RecoverUnchecked(f) == f

\* Persister.Load together with main's reaction to its error (start fresh).
Recover(f) == IF f \in {NoFile, Blank, Torn} THEN Empty ELSE f

Init ==
  /\ phase = "running"
  /\ agents = Empty
  /\ dirty = FALSE
  /\ writer = [w \in Writers |-> Resting]
  /\ path = NoFile
  /\ tmp = NoFile
  /\ faults = 0
  /\ doubt = {}

-----------------------------------------------------------------------------
(* Persister.save, one action per system call.                             *)

\* The locked writer starts; mu stays held until its pc is "idle" again.
\* A flush that is on its way to the disk is now racing with it.
BeginSave(m) ==
  /\ agents' = m
  /\ writer' = [writer EXCEPT
                  !["save"] = [pc |-> "create", fd |-> "none", data |-> m, solo |-> ~OnDisk("flush")],
                  !["flush"].solo = @ /\ ~OnDisk("flush")]
  /\ doubt' = doubt \cup (IF OnDisk("flush") THEN {"overlap"} ELSE {})

\* The writer returns an error.  doFlush still has to raise the flag again;
\* the locked callers only report it.
FailStep(w, rest) ==
  /\ writer' = IF w = "flush" THEN [rest EXCEPT !["flush"].pc = "redirty"]
                              ELSE [rest EXCEPT !["save"] = Resting]
  /\ doubt' = doubt \cup (IF w = "save" THEN {"failed"} ELSE {})

Faulty == faults < MaxFaults /\ faults' = faults + 1

\* os.WriteFile opens with O_CREATE and O_TRUNC: a file that is there is
\* emptied, also under the hands of the other writer.
Create(w) ==
  /\ writer[w].pc = "create"
  /\ tmp' = Blank
  /\ writer' = [writer EXCEPT ![w].pc = "write", ![w].fd = "tmp"]
  /\ UNCHANGED <<phase, agents, dirty, path, faults, doubt>>

CreateFails(w) ==
  /\ writer[w].pc = "create"
  /\ Faulty
  /\ FailStep(w, writer)
  /\ UNCHANGED <<phase, agents, dirty, path, tmp>>

\* Bytes written from offset 0 over those the other writer left: if these
\* were longer, their tail stays behind the new document.
Overwrite(old, new) ==
  IF old \in {Blank, Empty} THEN {new} ELSE {new, Torn}

Write(w) ==
  /\ writer[w].pc = "write"
  /\ IF writer[w].fd = "tmp" THEN tmp' \in Overwrite(tmp, writer[w].data)
                             ELSE tmp' = tmp
  /\ IF writer[w].fd = "path" THEN path' \in Overwrite(path, writer[w].data)
                              ELSE path' = path
  /\ writer' = [writer EXCEPT ![w].pc = "rename", ![w].fd = "none"]
  /\ UNCHANGED <<phase, agents, dirty, faults, doubt>>

\* Mutant: the error of os.WriteFile is ignored and the rename goes ahead.
WriteErrorIgnored(w) ==
  /\ writer[w].pc = "write"
  /\ Faulty
  /\ tmp' \in IF writer[w].fd = "tmp" THEN {tmp, Torn} ELSE {tmp}
  /\ path' \in IF writer[w].fd = "path" THEN {path, Torn} ELSE {path}
  /\ writer' = [writer EXCEPT ![w].pc = "rename", ![w].fd = "none"]
  /\ UNCHANGED <<phase, agents, dirty, doubt>>

\* A write that stops half-way, on a full disk for instance.
WriteFails(w) ==
  /\ writer[w].pc = "write"
  /\ Faulty
  /\ tmp' \in IF writer[w].fd = "tmp" THEN {tmp, Torn} ELSE {tmp}
  /\ path' \in IF writer[w].fd = "path" THEN {path, Torn} ELSE {path}
  /\ FailStep(w, [writer EXCEPT ![w].fd = "none"])
  /\ UNCHANGED <<phase, agents, dirty>>

\* What a rename of agents.json.tmp does to the file the other writer has open.
Renamed(fd) == IF fd = "tmp" THEN "path" ELSE IF fd = "path" THEN "gone" ELSE fd

Rename(w) ==
  /\ writer[w].pc = "rename"
  /\ tmp # NoFile
  /\ path' = tmp
  /\ tmp' = NoFile
  /\ writer' = [writer EXCEPT ![w] = Resting, ![Other(w)].fd = Renamed(@)]
  /\ doubt' = IF writer[w].solo THEN {} ELSE doubt
  /\ UNCHANGED <<phase, agents, dirty, faults>>

\* The other writer may have renamed the file away.
RenameFails(w) ==
  /\ writer[w].pc = "rename"
  /\ IF tmp = NoFile THEN UNCHANGED faults ELSE Faulty
  /\ writer' = [writer EXCEPT ![w].pc = "cleanup"]
  /\ UNCHANGED <<phase, agents, dirty, path, tmp, doubt>>

\* os.Remove(tmpPath), whoever wrote what is there now.
Cleanup(w) ==
  /\ writer[w].pc = "cleanup"
  /\ tmp' = NoFile
  /\ FailStep(w, [writer EXCEPT ![Other(w)].fd = IF @ = "tmp" THEN "gone" ELSE @])
  /\ UNCHANGED <<phase, agents, dirty, path, faults>>

SaveStep(w) == Create(w) \/ Write(w) \/ Rename(w) \/ RenameFails(w) \/ Cleanup(w)
SaveFault(w) == CreateFails(w) \/ WriteFails(w)

-----------------------------------------------------------------------------
(* AgentRegistry.                                                          *)

\* Other agents at the same host.
Rivals(id, url) == {i \in Ids \ {id} : agents[i] # NoAgent /\ agents[i].url = url}

\* Mutant: nobody is replaced.
ReplacedNobody(id, url) == {id}

\* The loop of Register stops at the first rival it meets in map order.
Replaced(id, url) == IF Rivals(id, url) = {} THEN {id} ELSE Rivals(id, url)

Register(id, url, meta) ==
  /\ Up /\ LockFree
  /\ \E victim \in Replaced(id, url) :
       BeginSave([agents EXCEPT ![victim] = NoAgent, ![id] = [url |-> url, meta |-> meta]])
  /\ UNCHANGED <<phase, dirty, path, tmp, faults>>

\* Mutant: an unregistration waits for the flush loop, like a status change.
UnregisterLater(id) ==
  /\ Up /\ LockFree
  /\ agents[id] # NoAgent
  /\ agents' = [agents EXCEPT ![id] = NoAgent]
  /\ dirty' = TRUE
  /\ UNCHANGED <<phase, writer, path, tmp, faults, doubt>>

Unregister(id) ==
  /\ Up /\ LockFree
  /\ agents[id] # NoAgent
  /\ BeginSave([agents EXCEPT ![id] = NoAgent])
  /\ UNCHANGED <<phase, dirty, path, tmp, faults>>

PersistAll ==
  /\ Up /\ LockFree
  /\ BeginSave(agents)
  /\ UNCHANGED <<phase, dirty, path, tmp, faults>>

\* UpdateAgent with a callback that edits fields and returns true.
UpdateAgent(id, meta) ==
  /\ Up /\ LockFree
  /\ agents[id] # NoAgent
  /\ agents' = [agents EXCEPT ![id].meta = meta]
  /\ dirty' = TRUE
  /\ UNCHANGED <<phase, writer, path, tmp, faults, doubt>>

\* SetStatus, Touch and MarkOffline when they change the status.
ChangeStatus(id) ==
  /\ Up /\ LockFree
  /\ agents[id] # NoAgent
  /\ dirty' = TRUE
  /\ UNCHANGED <<phase, agents, writer, path, tmp, faults, doubt>>

\* The locked half of doFlush: copy the map, clear the flag, release mu.
TakeSnapshot ==
  /\ LockFree
  /\ dirty
  /\ writer["flush"].pc = "idle"
  /\ writer' = [writer EXCEPT !["flush"] = [pc |-> "create", fd |-> "none", data |-> agents, solo |-> TRUE]]
  /\ dirty' = FALSE
  /\ UNCHANGED <<agents, path, tmp, faults, doubt>>

\* A tick of flushLoop.  Its select may still prefer a tick when the context
\* is already cancelled.
FlushTick == phase \in {"running", "draining"} /\ TakeSnapshot /\ UNCHANGED phase

\* Mutant: the error branch of doFlush only logs.
FlushErrorIgnored ==
  /\ writer["flush"].pc = "redirty"
  /\ LockFree
  /\ writer' = [writer EXCEPT !["flush"] = Resting]
  /\ UNCHANGED <<phase, agents, dirty, path, tmp, faults, doubt>>

\* The error branch of doFlush needs mu again.
MarkDirtyAgain ==
  /\ writer["flush"].pc = "redirty"
  /\ LockFree
  /\ dirty' = TRUE
  /\ writer' = [writer EXCEPT !["flush"] = Resting]
  /\ UNCHANGED <<phase, agents, path, tmp, faults, doubt>>

-----------------------------------------------------------------------------
(* The process: main and its deferred StopFlushLoop, crashes and restarts. *)

\* A signal, or StopFlushLoop, cancels the context of the loop.
StopFlushLoop ==
  /\ phase = "running"
  /\ phase' = "draining"
  /\ UNCHANGED <<agents, dirty, writer, path, tmp, faults, doubt>>

\* StopFlushLoop has waited for the loop, so a flush in flight is finished.
FinalFlush ==
  /\ phase = "draining"
  /\ phase' = "final"
  /\ writer["flush"].pc = "idle" /\ LockFree
  /\ IF dirty THEN TakeSnapshot
              ELSE UNCHANGED <<agents, dirty, writer, path, tmp, faults, doubt>>

\* Memory is gone; the files stay as they are.
ProcessEnds ==
  /\ phase' = "down"
  /\ agents' = Empty
  /\ dirty' = FALSE
  /\ writer' = [w \in Writers |-> Resting]
  /\ UNCHANGED <<path, tmp, faults, doubt>>

\* main returns after the final flush; goroutines still at work are cut off.
Exit == phase = "final" /\ writer["flush"].pc = "idle" /\ ProcessEnds

Crash == Up /\ ProcessEnds

\* main: Load, or start fresh when Load fails.
Restart ==
  /\ phase = "down"
  /\ phase' = "running"
  /\ agents' = Recover(path)
  /\ doubt' = IF path \in {Blank, Torn} THEN {"overlap"} ELSE {}
  /\ UNCHANGED <<dirty, writer, path, tmp, faults>>

-----------------------------------------------------------------------------
Next ==
  \/ \E id \in Ids, url \in Urls, meta \in Metas : Register(id, url, meta)
  \/ \E id \in Ids : Unregister(id)
  \/ PersistAll
  \/ \E id \in Ids, meta \in Metas : UpdateAgent(id, meta)
  \/ \E id \in Ids : ChangeStatus(id)
  \/ FlushTick
  \/ MarkDirtyAgain
  \/ \E w \in Writers : SaveStep(w) \/ SaveFault(w)
  \/ StopFlushLoop
  \/ FinalFlush
  \/ Exit
  \/ Crash
  \/ Restart

\* A system call returns; the ticker keeps ticking until the signal; Go's mutex hands itself to
\* a waiter that has starved for a millisecond, which makes waiting for mu fair
\* even when it is only free now and then.
Fairness ==
  /\ \A w \in Writers : WF_vars(SaveStep(w))
  /\ SF_vars(phase = "running" /\ FlushTick)
  /\ SF_vars(MarkDirtyAgain)

Spec == Init /\ [][Next]_vars
FairSpec == Spec /\ Fairness

-----------------------------------------------------------------------------
(* Properties.                                                             *)

HostUnique(m) ==
  \A i, j \in Ids :
    m[i] # NoAgent /\ m[j] # NoAgent /\ m[i].url = m[j].url => i = j

\* Only one agent per host (the comment of Register, which stops at the first
\* rival it deletes): in memory, in the copy a flush writes, and in whatever a
\* restart would load, across crashes and failed saves.
OneAgentPerHost ==
  /\ HostUnique(agents)
  /\ \A w \in Writers : HostUnique(writer[w].data)
  /\ HostUnique(Recover(path))
  /\ HostUnique(Recover(tmp))

Identity(m) == [i \in Ids |-> IF m[i] = NoAgent THEN NoAgent ELSE m[i].url]

\* As long as no flush raced a locked save and no save failed, every
\* registration and unregistration that was answered is on disk: a crash now
\* loses none and brings none back.
IdentityDurable ==
  Up /\ LockFree /\ doubt = {} => Identity(Recover(path)) = Identity(agents)

\* When nothing is pending the file is exactly the registry: no edit that
\* cleared the dirty flag has been forgotten.
Settled ==
  /\ Up /\ doubt = {} /\ ~dirty
  /\ \A w \in Writers : writer[w].pc = "idle"
  => Recover(path) = agents

\* Without two writers at once, agents.json is never half-written, whatever
\* fails and wherever the process is killed.
FileAtomic == "overlap" \notin doubt => path \notin {Blank, Torn}

\* A registry that stays as it is reaches the disk: the flush loop retries
\* after every failure and forgets no change.
ChangesReachDisk ==
  \A m \in AgentMap :
    (dirty /\ agents = m) ~>
      (path = m \/ agents # m \/ "overlap" \in doubt \/ phase # "running")

\* What the comments of Register and Unregister promise without condition:
\* "registration changes ... should survive a crash".  Stated where no save is
\* under way or pending and the file parses: a restart then knows the same agents.
RegistrationSurvivesCrash ==
  /\ phase = "running" /\ ~dirty
  /\ \A w \in Writers : writer[w].pc = "idle"
  /\ path \notin {Blank, Torn}
  => Identity(Recover(path)) = Identity(agents)

\* What the comments of Persister promise without condition: "writes the
\* agents map to disk atomically".
AtomicWrites == path \notin {Blank, Torn}
=============================================================================
