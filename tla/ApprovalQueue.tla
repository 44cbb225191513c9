----------------------------- MODULE ApprovalQueue -----------------------------
(***************************************************************************)
(* The journal file of the governance approval queue in use:               *)
(* src/src/governance_approval_queue.ml.  Domains of several processes     *)
(* submit, decide, consume, inspect and recover; every system call is a    *)
(* step of its own, and between any two a call may fail, a process may die *)
(* or the machine may lose its power.                                      *)
(***************************************************************************)
EXTENDS ApprovalJournal

CONSTANTS Process,     \* the processes that use the file, by PID
          Actor,       \* their domains
          ProcessOf,   \* the process of each domain
          MaxLines,    \* max_journal_bytes, in lines
          Nobody,      \* no process
          Nothing

ASSUME ProcessOfAssumption == ProcessOf \in [Actor -> Process]
ASSUME NobodyAssumption == Nobody \notin Process
ASSUME MaxLinesAssumption == MaxLines \in Nat

VARIABLES exists,      \* the path names the journal
          linked,      \* and the directory says so durably
          file,        \* the lines a reader sees
          disk,        \* the lines that survive a power loss for certain
          guard,       \* process_guard of each process
          lock,        \* the process that owns the record lock
          pc,          \* where each actor is
          request,     \* what it was called for
          head,        \* the committed history its scan found
          told,        \* the latest history some caller was answered from
          deliveries   \* the decisions Consume returned

vars == <<exists, linked, file, disk, guard, lock, pc, request, head, told, deliveries>>

Request == [op : {"submit"}, proposal : Proposal, value : Approvers]
           \cup [op : {"decide"}, proposal : Proposal, value : Decision]
           \cup [op : {"consume"}, proposal : Proposal, value : {Nothing}]
           \cup [op : {"inspect", "recover"}, proposal : {Nothing}, value : {Nothing}]
NoRequest == [op |-> "none", proposal |-> Nothing, value |-> Nothing]

\* The file syncs, and where each leads: the truncation's own, the barrier
\* before an answer, the two of an append and the barrier after it.
AfterSync == [ syncing_truncation |-> "syncing",
               syncing |-> "syncing_directory",
               syncing_record |-> "writing_commit",
               syncing_commit |-> "resyncing",
               resyncing |-> "resyncing_directory" ]

Locked == DOMAIN AfterSync \cup
          {"scanning", "truncating", "syncing_directory", "choosing", "writing_record",
           "ending_record", "writing_commit", "ending_commit", "resyncing_directory",
           "acknowledging"}
ProgramCounter == Locked \cup {"idle", "opening", "locking"}

\* A guard inherited through fork holds the PID of another process.
Init ==
  /\ exists = FALSE
  /\ linked = FALSE
  /\ file = <<>>
  /\ disk = <<>>
  /\ guard \in {g \in [Process -> Process \cup {Nobody}] : \A p \in Process : g[p] # p}
  /\ lock = Nobody
  /\ pc = [a \in Actor |-> "idle"]
  /\ request = [a \in Actor |-> NoRequest]
  /\ head = [a \in Actor |-> <<>>]
  /\ told = <<>>
  /\ deliveries = <<>>

journal == <<exists, linked, file, disk>>
answers == <<told, deliveries>>

----------------------------------------------------------------------------
(* with_locked *)

GoTo(a, step) == pc' = [pc EXCEPT ![a] = step] /\ UNCHANGED <<request, head, guard, lock>>

\* Closing any descriptor of the file gives up the process's record lock.
Leave(a) ==
  LET p == ProcessOf[a]
  IN  /\ pc' = [pc EXCEPT ![a] = "idle"]
      /\ request' = [request EXCEPT ![a] = NoRequest]
      /\ head' = [head EXCEPT ![a] = <<>>]
      /\ lock' = IF lock = p THEN Nobody ELSE lock
      /\ guard' = [guard EXCEPT ![p] = IF @ = p THEN Nobody ELSE @]

\* A wrong entry: the record lock alone keeps domains apart.
CallUnguarded(a, r) ==
  /\ pc[a] = "idle"
  /\ guard' = [guard EXCEPT ![ProcessOf[a]] = ProcessOf[a]]
  /\ pc' = [pc EXCEPT ![a] = "opening"]
  /\ request' = [request EXCEPT ![a] = r]
  /\ UNCHANGED <<head, lock, journal, answers>>

\* A call that finds the guard taken answers Busy, which changes nothing.
Call(a, r) ==
  /\ pc[a] = "idle"
  /\ guard[ProcessOf[a]] # ProcessOf[a]
  /\ guard' = [guard EXCEPT ![ProcessOf[a]] = ProcessOf[a]]
  /\ pc' = [pc EXCEPT ![a] = "opening"]
  /\ request' = [request EXCEPT ![a] = r]
  /\ UNCHANGED <<head, lock, journal, answers>>

OpenExisting(a) ==
  /\ pc[a] = "opening"
  /\ exists
  /\ GoTo(a, "locking")
  /\ UNCHANGED <<journal, answers>>

Create(a) ==
  /\ pc[a] = "opening"
  /\ ~exists
  /\ request[a].op = "submit"
  /\ exists' = TRUE
  /\ GoTo(a, "locking")
  /\ UNCHANGED <<linked, file, disk, answers>>

Missing(a) ==
  /\ pc[a] = "opening"
  /\ ~exists
  /\ request[a].op # "submit"
  /\ Leave(a)
  /\ UNCHANGED <<journal, answers>>

\* A record lock does not keep out its own process.
TakeLock(a) ==
  /\ pc[a] = "locking"
  /\ lock \in {Nobody, ProcessOf[a]}
  /\ lock' = ProcessOf[a]
  /\ pc' = [pc EXCEPT ![a] = "scanning"]
  /\ UNCHANGED <<request, head, guard, journal, answers>>

BusyLock(a) ==
  /\ pc[a] = "locking"
  /\ lock \notin {Nobody, ProcessOf[a]}
  /\ Leave(a)
  /\ UNCHANGED <<journal, answers>>

----------------------------------------------------------------------------
(* read_scan, truncate_recovery, durability_barrier                        *)

\* What read_descriptor and scan_string together accept.
Readable(c) == Len(c) <= MaxLines /\ Scans(c)

\* A wrong continuation: an answer may come from lines nobody has synced.
ScanWithoutBarrier(a) ==
  /\ pc[a] = "scanning"
  /\ Readable(file)
  /\ request[a].op # "inspect"
  /\ head' = [head EXCEPT ![a] = Committed(file)]
  /\ pc' = [pc EXCEPT ![a] = IF Len(file) > RecoverAt(file) THEN "truncating" ELSE "choosing"]
  /\ UNCHANGED <<request, guard, lock, journal, answers>>

Scan(a) ==
  /\ pc[a] = "scanning"
  /\ Readable(file)
  /\ request[a].op # "inspect"
  /\ head' = [head EXCEPT ![a] = Committed(file)]
  /\ pc' = [pc EXCEPT ![a] = IF Len(file) > RecoverAt(file) THEN "truncating" ELSE "syncing"]
  /\ UNCHANGED <<request, guard, lock, journal, answers>>

\* The snapshot, or the diagnostic of a journal that cannot be read.
ScanOnly(a) ==
  /\ pc[a] = "scanning"
  /\ request[a].op = "inspect" \/ ~Readable(file)
  /\ Leave(a)
  /\ UNCHANGED <<journal, answers>>

Truncate(a) ==
  /\ pc[a] = "truncating"
  /\ file' = SubSeq(file, 1, 2 * Len(head[a]))
  /\ GoTo(a, "syncing_truncation")
  /\ UNCHANGED <<exists, linked, disk, answers>>

SyncFile(a) ==
  /\ pc[a] \in DOMAIN AfterSync
  /\ disk' = file
  /\ GoTo(a, AfterSync[pc[a]])
  /\ UNCHANGED <<exists, linked, file, answers>>

SyncParent(a) ==
  /\ pc[a] \in {"syncing_directory", "resyncing_directory"}
  /\ linked' = TRUE
  /\ GoTo(a, IF pc[a] = "syncing_directory" THEN "choosing" ELSE "acknowledging")
  /\ UNCHANGED <<exists, file, disk, answers>>

----------------------------------------------------------------------------
(* The decision each operation takes, and append_event.                    *)

EventOf(a) ==
  CASE request[a].op = "submit" -> [kind |-> "Submit", proposal |-> request[a].proposal,
                                    value |-> request[a].value]
    [] request[a].op = "decide" -> [kind |-> "Decide", proposal |-> request[a].proposal,
                                    value |-> request[a].value]
    [] request[a].op = "consume" -> [kind |-> "Consume", proposal |-> request[a].proposal,
                                     value |-> DecisionOf(head[a], request[a].proposal)]

History(a) == Append(head[a], EventOf(a))

\* Submit appends for an absent proposal, Decide for a pending one its list
\* admits the decision of, Consume for a decided one; recover never does.
Appends(a) ==
  \/ /\ request[a].op = "submit"
     /\ StatusOf(head[a], request[a].proposal) = "Absent"
  \/ /\ request[a].op = "decide"
     /\ StatusOf(head[a], request[a].proposal) = "Pending"
     /\ <<ApproversOf(head[a], request[a].proposal), request[a].value>> \in Allowed
  \/ /\ request[a].op = "consume"
     /\ StatusOf(head[a], request[a].proposal) = "Decided"

\* A wrong answer: a repeated Consume gets the decision again.
AnswerAgain(a) ==
  /\ pc[a] = "choosing"
  /\ ~Appends(a)
  /\ told' = head[a]
  /\ deliveries' = IF /\ request[a].op = "consume"
                      /\ StatusOf(head[a], request[a].proposal) = "Stale"
                   THEN Append(deliveries, [proposal |-> request[a].proposal,
                                            decision |-> DecisionOf(head[a], request[a].proposal)])
                   ELSE deliveries
  /\ Leave(a)
  /\ UNCHANGED journal

\* Unchanged, Stale, Pending_delivery, or the diagnostic that names what is
\* durable already.
Answer(a) ==
  /\ pc[a] = "choosing"
  /\ ~Appends(a)
  /\ told' = head[a]
  /\ Leave(a)
  /\ UNCHANGED <<journal, deliveries>>

\* A wrong append: the limit is checked for the record, not for its commit.
StartAppendOnRecord(a) ==
  /\ pc[a] = "choosing"
  /\ Appends(a)
  /\ Len(file) + 1 <= MaxLines
  /\ GoTo(a, "writing_record")
  /\ UNCHANGED <<journal, answers>>

StartAppend(a) ==
  /\ pc[a] = "choosing"
  /\ Appends(a)
  /\ Len(file) + 2 <= MaxLines
  /\ GoTo(a, "writing_record")
  /\ UNCHANGED <<journal, answers>>

TooLarge(a) ==
  /\ pc[a] = "choosing"
  /\ Appends(a)
  /\ Len(file) + 2 > MaxLines
  /\ Leave(a)
  /\ UNCHANGED <<journal, answers>>

\* write_all: part of the line first, then the rest.
LineOf(a) ==
  IF pc[a] \in {"writing_record", "ending_record"} THEN Record(History(a)) ELSE Commit(History(a))

BeginLine(a) ==
  /\ pc[a] \in {"writing_record", "writing_commit"}
  /\ file' = Append(file, Torn(LineOf(a)))
  /\ GoTo(a, IF pc[a] = "writing_record" THEN "ending_record" ELSE "ending_commit")
  /\ UNCHANGED <<exists, linked, disk, answers>>

\* A wrong order: the commit is written before the record is synced.
EndLineUnsynced(a) ==
  /\ pc[a] \in {"ending_record", "ending_commit"}
  /\ file' = [file EXCEPT ![Len(file)] = LineOf(a)]
  /\ GoTo(a, IF pc[a] = "ending_record" THEN "writing_commit" ELSE "syncing_commit")
  /\ UNCHANGED <<exists, linked, disk, answers>>

EndLine(a) ==
  /\ pc[a] \in {"ending_record", "ending_commit"}
  /\ file' = [file EXCEPT ![Len(file)] = LineOf(a)]
  /\ GoTo(a, IF pc[a] = "ending_record" THEN "syncing_record" ELSE "syncing_commit")
  /\ UNCHANGED <<exists, linked, disk, answers>>

\* Applied, or Delivered with the decision consumed.
Acknowledge(a) ==
  /\ pc[a] = "acknowledging"
  /\ told' = History(a)
  /\ deliveries' = IF request[a].op = "consume"
                   THEN Append(deliveries, [proposal |-> request[a].proposal,
                                            decision |-> EventOf(a).value])
                   ELSE deliveries
  /\ Leave(a)
  /\ UNCHANGED journal

----------------------------------------------------------------------------
(* What goes wrong. *)

\* A system call fails, or the path is found changed: E1526.
Fail(a) ==
  /\ pc[a] # "idle"
  /\ Leave(a)
  /\ UNCHANGED <<journal, answers>>

Forgotten(A) ==
  /\ pc' = [a \in Actor |-> IF a \in A THEN "idle" ELSE pc[a]]
  /\ request' = [a \in Actor |-> IF a \in A THEN NoRequest ELSE request[a]]
  /\ head' = [a \in Actor |-> IF a \in A THEN <<>> ELSE head[a]]

\* A process dies and is started again; the kernel drops its lock.
Crash(p) ==
  /\ Forgotten({a \in Actor : ProcessOf[a] = p})
  /\ guard' = [guard EXCEPT ![p] = Nobody]
  /\ lock' = IF lock = p THEN Nobody ELSE lock
  /\ UNCHANGED <<journal, answers>>

(***************************************************************************)
(* What a power loss may leave of the file: an unsynced truncation happens *)
(* or not; of the unsynced lines at the end any number survive, and each   *)
(* of those may be incomplete.                                             *)
(***************************************************************************)
Survivors ==
  {disk, file} \cup
  UNION {{[i \in 1..n |-> IF i \in T THEN Torn(file[i]) ELSE file[i]]
            : T \in SUBSET ((Len(disk) + 1)..n)}
         : n \in Len(disk)..Len(file)}

PowerLoss ==
  /\ \/ \E c \in Survivors : file' = c /\ disk' = c /\ exists' = exists /\ linked' = exists
     \/ ~linked /\ file' = <<>> /\ disk' = <<>> /\ exists' = FALSE /\ linked' = FALSE
  /\ Forgotten(Actor)
  /\ guard' = [p \in Process |-> Nobody]
  /\ lock' = Nobody
  /\ UNCHANGED answers

Next ==
  \/ \E a \in Actor :
       \/ \E r \in Request : Call(a, r)
       \/ OpenExisting(a)
       \/ Create(a)
       \/ Missing(a)
       \/ TakeLock(a)
       \/ BusyLock(a)
       \/ Scan(a)
       \/ ScanOnly(a)
       \/ Truncate(a)
       \/ SyncFile(a)
       \/ SyncParent(a)
       \/ Answer(a)
       \/ StartAppend(a)
       \/ TooLarge(a)
       \/ BeginLine(a)
       \/ EndLine(a)
       \/ Acknowledge(a)
       \/ Fail(a)
  \/ \E p \in Process : Crash(p)
  \/ PowerLoss

Spec == Init /\ [][Next]_vars

----------------------------------------------------------------------------
(* Properties. *)

\* Every variable stays in its declared range, and the journal within the
\* limit that the next reader enforces.
TypeOK ==
  /\ exists \in BOOLEAN
  /\ linked \in BOOLEAN
  /\ file \in Seq(Line) /\ Len(file) <= MaxLines
  /\ disk \in Seq(Line)
  /\ guard \in [Process -> Process \cup {Nobody}]
  /\ lock \in Process \cup {Nobody}
  /\ pc \in [Actor -> ProgramCounter]
  /\ request \in [Actor -> Request \cup {NoRequest}]
  /\ head \in [Actor -> Seq(Event)]
  /\ told \in Seq(Event)
  /\ deliveries \in Seq([proposal : Proposal, decision : Decision])

\* At most one domain of all processes is between taking the lock and
\* leaving, although a process does not lock itself out and may inherit a
\* guard through fork.
OneActorAtATime ==
  \A a, b \in Actor : pc[a] \in Locked /\ pc[b] \in Locked => a = b

\* No crash, failure or power loss ever leaves a journal that the next caller
\* cannot read: at every moment, whatever would survive is within the size the
\* reader takes, and is a chain of legal transactions and at most the
\* beginning of one more.
JournalAlwaysScans == \A c \in Survivors : Readable(c)

\* What a caller was answered from is never taken back: it is committed in
\* whatever a power loss would leave, directory entry included.
ToldIsDurable ==
  /\ \A c \in Survivors : IsPrefix(told, Committed(c))
  /\ told # <<>> => linked

\* The durable journal and the deliveries are a single-use approval.
Durable == IF linked THEN Committed(disk) ELSE <<>>

Approval == INSTANCE SingleUseApproval WITH
  status <- [p \in Proposal |-> StatusOf(Durable, p)],
  decision <- [p \in Proposal |-> IF StatusOf(Durable, p) \in {"Decided", "Stale"}
                                  THEN DecisionOf(Durable, p) ELSE Nothing]

ImplementsSingleUse == Approval!ApprovalSpec
==============================================================================
