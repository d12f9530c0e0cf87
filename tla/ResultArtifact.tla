--------------------------- MODULE ResultArtifact ---------------------------
(***************************************************************************)
(* One Result Artifact on a local filesystem (result_artifact.py): it is   *)
(* created by one of several racing processes, then filled with write-once *)
(* files and sealed by a manifest.  Every publication is journalled twice, *)
(* in a trusted record outside the artifact (journals, published, claimed, *)
(* closed) and in the artifact tree, so that a process that is killed, or  *)
(* whose fsync fails, leaves a state from which any process can resume.    *)
(*                                                                         *)
(* Transactions are numbered by their place in the trusted record; number  *)
(* t stands for the random token, the inodes and the bytes of that         *)
(* transaction, so linked[d] = t means "d is a link to the data of t" and  *)
(* checkpoint = t "checkpoint.json is the one t staged".  Sessions exclude *)
(* each other by a lock on the root, hence the single session variable;    *)
(* each action changes the disk in one place and the session then owes the *)
(* fsyncs the code performs before it goes on.  Only the owner writes      *)
(* here: tampering, and the power loss the design excludes, are left out.  *)
(***************************************************************************)
EXTENDS Naturals, Sequences, FiniteSets

CONSTANTS
  Creators,  \* processes that try to create the artifact
  Files,     \* relative paths of the partitions and candidates
  Contents,  \* bytes of a file, or the coverage a manifest states
  Capacity,  \* _MAX_ANCHOR_TRANSACTIONS
  Manifest,  \* the path "manifest.json"
  Nobody,    \* no root has its public name yet
  NoEntry    \* the session publishes nothing

ASSUME FilesAssumption == Manifest \notin Files
ASSUME CapacityAssumption == Capacity \in Nat \ {0}
ASSUME NobodyAssumption == Nobody \notin Creators
ASSUME NoEntryAssumption == NoEntry \notin Contents

VARIABLES
  creators,    \* progress of each process in create
  root,        \* the creator whose private root got the public name
  journals,    \* trusted record: the publications it authorises, in order
  published,   \* trusted record: journals known to be in the artifact
  claimed,     \* trusted record: stages about to move into quarantine
  closed,      \* trusted record: stages that authorise nothing any more
  visible,     \* journals linked into .protocol
  linked,      \* for each path the transaction whose data it links, or 0
  checkpoint,  \* the transaction whose checkpoint is checkpoint.json, or 0
  stage,       \* place and files of the stage of each transaction
  dirty,       \* directories with an entry no fsync has covered
  session,     \* the operation that holds the lock of the root
  acked,       \* files whose write returned
  opened,      \* a handle for writing was returned to somebody
  receipts     \* what the manifests described whose receipts were returned

record == <<journals, published, claimed, closed>>
tree == <<visible, linked, checkpoint>>
birth == <<creators, root>>
told == <<acked, opened, receipts>>
vars == <<birth, record, tree, stage, dirty, session, told>>

Tokens == 1..Capacity
Entries == [path : Files \cup {Manifest}, content : Contents]
Items == {"data", "journal", "checkpoint"}
NoStage == [place |-> "none", items |-> {}]
Idle == [op |-> "none", step |-> "idle", entry |-> NoEntry, owed |-> {}]

\* What sync() covers: the tree, its parent and the quarantine.  The directory
\* of the trusted record ("anchor") and the stages ("staging") are not in it.
TreeDirectories == {"root", "protocol", "files", "parent", "quarantine"}
Directories == TreeDirectories \cup {"anchor", "staging"}

Required(e) == IF e.path = Manifest THEN Items \ {"checkpoint"} ELSE Items
DirectoryOf(path) == IF path = Manifest THEN "root" ELSE "files"

Last == Len(journals)
IsFile(t) == journals[t].path # Manifest
Staged == {t \in 1..Last : stage[t].place # "none"}

\* _observe: the last transaction has not reached its commit point.
Pending ==
  /\ Last > 0
  /\ IF IsFile(Last) THEN checkpoint = Last - 1 ELSE linked[Manifest] = 0

Committed(t) == t < Last \/ ~Pending

\* _observe and stage_snapshot: what is left of a stage is what may be left.
StageIsLawful(t) ==
  LET s == stage[t] IN
  /\ s.place = "parent" => t \notin closed
  /\ s.place = "quarantine" => t \in claimed
  /\ t \in claimed \ closed => s.place # "none"
  /\ s.place # "none" => s.items \subseteq Required(journals[t])
  /\ s.place # "none" /\ ~Committed(t) => s.items = Required(journals[t])
  /\ s.place = "none" => Committed(t) /\ t \in closed

\* _observe: the artifact is one that the trusted record explains.
ObserveOK ==
  /\ creators[root] = "committed"
  /\ visible \in {1..Last, 1..(Last - 1)}
  /\ (Last > 0 /\ Last \notin visible) =>
       Last \notin published /\ Pending /\ linked[journals[Last].path] = 0
  /\ \A t \in 1..Last : ~IsFile(t) => t = Last
  /\ \A t, u \in 1..Last : journals[t].path = journals[u].path => t = u
  /\ \A t \in 1..Last : \/ linked[journals[t].path] = t
                        \/ ~Committed(t) /\ linked[journals[t].path] = 0
  /\ \A d \in Files \cup {Manifest} :
       linked[d] # 0 => \E t \in 1..Last : journals[t].path = d
  /\ checkpoint = IF Last > 0 /\ (~IsFile(Last) \/ Pending) THEN Last - 1 ELSE Last
  /\ \A t \in 1..Last : StageIsLawful(t)

Finalized == linked[Manifest] # 0
Completed == {journals[t].path : t \in 1..Last}

Init ==
  /\ creators = [p \in Creators |-> "idle"] /\ root = Nobody
  /\ journals = <<>> /\ published = {} /\ claimed = {} /\ closed = {}
  /\ visible = {} /\ linked = [d \in Files \cup {Manifest} |-> 0]
  /\ checkpoint = 0
  /\ stage = [t \in Tokens |-> NoStage]
  /\ dirty = {} /\ session = Idle /\ acked = {} /\ opened = FALSE
  /\ receipts = {}

-----------------------------------------------------------------------------
(* create: a complete private root, its trusted record, then its name.     *)

CreatePrepare(p) ==
  /\ root = Nobody /\ creators[p] = "idle"
  /\ creators' = [creators EXCEPT ![p] = "prepared"]
  /\ UNCHANGED <<root, record, tree, stage, dirty, session, told>>

CreateCommit(p) ==
  /\ creators[p] = "prepared"
  /\ creators' = [creators EXCEPT ![p] = "committed"]
  /\ UNCHANGED <<root, record, tree, stage, dirty, session, told>>

\* The exclusive rename: the name must be free.  The lock of the root, taken
\* while it was private, is held until the parent and the root are synced.
CreatePublish(p) ==
  /\ creators[p] = "committed" /\ root = Nobody
  /\ root' = p
  /\ dirty' = dirty \cup {"parent"}
  /\ session' = [op |-> "create", step |-> "answer", entry |-> NoEntry,
                 owed |-> {"parent", "root"}]
  /\ UNCHANGED <<creators, record, tree, stage, told>>

\* Killed, a failed fsync, or a name that is taken: the private root and its
\* record stay behind under names nobody uses again.
CreateAbandon(p) ==
  /\ creators[p] # "idle" /\ root # p
  /\ creators' = [creators EXCEPT ![p] = "idle"]
  /\ UNCHANGED <<root, record, tree, stage, dirty, session, told>>

-----------------------------------------------------------------------------
(* A session: begun under the lock, it changes one thing, makes it durable *)
(* and goes on.  A refused operation changes nothing.                      *)

\* The session has no fsync outstanding and is to take this step.
At(step) == session.step = step /\ session.owed = {}

\* It goes on with step once the directories in owed are synced.
GoOn(step, owed) ==
  session' = [session EXCEPT !.step = step, !.owed = owed]

Touch(directories) == dirty' = dirty \cup directories

\* Mutant: the data are linked again.
AfterVouchRelinks == "file"
\* _recover once the journal is vouched for: the data may be linked already.
AfterVouch == IF linked[journals[Last].path] = 0 THEN "file" ELSE "checkpoint"

\* Mutant: the directory of the trusted record is not synced.
PreflightOfParent == {"parent"}
\* _session, before it looks at anything: _supported ends in an fsync of the
\* directory it is given, the parent and then that of the trusted record.
Preflight == {"parent", "anchor"}

\* Mutant: a completed path may be written again.
StartOverwrites(e) ==
  /\ session = Idle /\ opened /\ ObserveOK
  /\ ~Finalized /\ ~Pending /\ Staged = {} /\ Last < Capacity
  /\ session' = [op |-> "publish", step |-> "prepare", entry |-> e, owed |-> Preflight]
  /\ UNCHANGED <<birth, record, tree, stage, dirty, told>>

\* write_completed_partition, write_candidate and finalize, through a handle
\* that create or resume returned
Start(e) ==
  /\ session = Idle /\ opened /\ ObserveOK
  /\ ~Finalized
  /\ ~Pending /\ Staged = {}
  /\ e.path \notin Completed
  /\ Last < Capacity
  /\ session' = [op |-> "publish", step |-> "prepare", entry |-> e, owed |-> Preflight]
  /\ UNCHANGED <<birth, record, tree, stage, dirty, told>>

\* The lock is taken and the preflight is owed; what _recover does first depends
\* on what is on disk.
BeginRecovery(owed) ==
  /\ session = Idle /\ root # Nobody /\ ObserveOK
  /\ session' =
       [op |-> "resume", entry |-> NoEntry,
        step |-> IF ~Pending THEN IF Staged = {} THEN "answer" ELSE "clean"
                 ELSE IF Last \notin visible THEN "journal"
                 ELSE IF Last \notin published THEN "vouch"
                 ELSE AfterVouch,
        owed |-> Preflight \cup owed]
  /\ UNCHANGED <<birth, record, tree, stage, dirty, told>>

\* Mutant: what a resume can read it takes for durable.
ResumeTrustsReading == BeginRecovery({})

\* resume and recover_finalized_receipt; with nothing to recover only the
\* durability of what is there is proved.
Resume ==
  BeginRecovery(IF Pending /\ (Last \notin visible \/ Last \in published)
                THEN {} ELSE TreeDirectories)

\* prepare: a stage with its data, journal and checkpoint, beside the root.
Prepare ==
  /\ At("prepare")
  /\ stage' = [stage EXCEPT ![Last + 1] =
                 [place |-> "parent", items |-> Required(session.entry)]]
  /\ Touch({"parent"}) /\ GoOn("remember", {"parent"})
  /\ UNCHANGED <<birth, record, tree, told>>

\* remember: the trusted record authorises the publication.
Remember ==
  /\ At("remember")
  /\ journals' = Append(journals, session.entry)
  /\ Touch({"anchor"}) /\ GoOn("journal", {"anchor"})
  /\ UNCHANGED <<birth, published, claimed, closed, tree, stage, told>>

\* publish_journal; a resumed session syncs everything before it vouches.
PublishJournal ==
  /\ At("journal")
  /\ visible' = visible \cup {Last}
  /\ Touch({"protocol"})
  /\ GoOn("vouch", IF session.op = "resume" THEN TreeDirectories ELSE {"protocol"})
  /\ UNCHANGED <<birth, record, linked, checkpoint, stage, told>>

\* published: the trusted record says the journal is in place.
Published ==
  /\ At("vouch")
  /\ published' = published \cup {Last}
  /\ Touch({"anchor"}) /\ GoOn(AfterVouch, {"anchor"})
  /\ UNCHANGED <<birth, journals, claimed, closed, tree, stage, told>>

\* publish_file: the link fails when the name exists.
PublishFile ==
  /\ At("file")
  /\ LET path == journals[Last].path IN
     /\ linked[path] = 0
     /\ linked' = [linked EXCEPT ![path] = Last]
     /\ Touch({DirectoryOf(path)})
     /\ IF path = Manifest THEN GoOn("clean", TreeDirectories)
                           ELSE GoOn("checkpoint", {"files"})
  /\ UNCHANGED <<birth, record, visible, checkpoint, stage, told>>

\* replace_checkpoint, then sync: the commit point of a file.
ReplaceCheckpoint ==
  /\ At("checkpoint")
  /\ checkpoint' = Last
  /\ stage' = [stage EXCEPT ![Last].items = @ \ {"checkpoint"}]
  /\ Touch({"root", "staging"})
  /\ GoOn("clean", TreeDirectories \cup {"staging"})
  /\ UNCHANGED <<birth, record, visible, linked, told>>

\* _recover: everything is committed and explained before anything is removed.
Sealed == ObserveOK /\ ~Pending

Oldest(t) == t \in Staged /\ \A u \in Staged : t <= u

\* cleanup: the record first claims the stage ...
Claim(t) ==
  /\ At("clean") /\ Sealed /\ Oldest(t) /\ t \notin claimed
  /\ claimed' = claimed \cup {t}
  /\ Touch({"anchor"}) /\ GoOn("clean", {"anchor"})
  /\ UNCHANGED <<birth, journals, published, closed, tree, stage, told>>

\* Mutant: a stage is emptied before it is closed.
MoveUnclosed(t) ==
  /\ At("clean") /\ Sealed /\ Oldest(t) /\ t \in claimed
  /\ stage' = [stage EXCEPT ![t].place = "quarantine"]
  /\ dirty' = IF stage[t].place = "parent" THEN dirty \cup {"parent", "quarantine"}
                                           ELSE dirty
  /\ GoOn("empty", {"parent", "quarantine"})
  /\ UNCHANGED <<birth, record, tree, told>>

\* ... which moves out of the caller's directory into the quarantine ...
Move(t) ==
  /\ At("clean") /\ Sealed /\ Oldest(t) /\ t \in claimed
  /\ stage' = [stage EXCEPT ![t].place = "quarantine"]
  /\ dirty' = IF stage[t].place = "parent" THEN dirty \cup {"parent", "quarantine"}
                                           ELSE dirty
  /\ GoOn(IF t \in closed THEN "empty" ELSE "close", {"parent", "quarantine"})
  /\ UNCHANGED <<birth, record, tree, told>>

\* ... where, once closed, it can be deleted and never authorise again.
Close(t) ==
  /\ At("close") /\ Oldest(t)
  /\ closed' = closed \cup {t}
  /\ Touch({"anchor"}) /\ GoOn("empty", {"anchor"})
  /\ UNCHANGED <<birth, journals, published, claimed, tree, stage, told>>

Empty(t) ==
  /\ At("empty") /\ Oldest(t)
  /\ \E i \in stage[t].items :
       stage' = [stage EXCEPT ![t].items = @ \ {i}]
  /\ Touch({"staging"}) /\ GoOn("empty", {"staging"})
  /\ UNCHANGED <<birth, record, tree, told>>

RemoveStage(t) ==
  /\ At("empty") /\ Oldest(t) /\ stage[t].items = {}
  /\ stage' = [stage EXCEPT ![t] = NoStage]
  /\ dirty' = (dirty \ {"staging"}) \cup {"quarantine"}
  /\ GoOn("clean", {"quarantine"})
  /\ UNCHANGED <<birth, record, tree, told>>

\* A resume proves the durability of what it found once more.
Finish ==
  /\ At("clean") /\ Sealed /\ Staged = {}
  /\ GoOn("answer", IF session.op = "resume" THEN TreeDirectories ELSE {})
  /\ UNCHANGED <<birth, record, tree, stage, dirty, told>>

\* The operation returns: create and resume a handle, but a finalize, or a
\* resume that finds the manifest, the receipt.
Answer ==
  /\ At("answer") /\ ObserveOK
  /\ acked' = IF session.op = "publish" /\ session.entry.path # Manifest
              THEN acked \cup {session.entry} ELSE acked
  /\ opened' = (opened \/ session.op = "create" \/ (session.op = "resume" /\ ~Finalized))
  /\ receipts' = IF Finalized THEN receipts \cup {journals} ELSE receipts
  /\ session' = Idle
  /\ UNCHANGED <<birth, record, tree, stage, dirty>>

\* One fsync succeeds.
Fsync(d) ==
  /\ d \in session.owed
  /\ dirty' = dirty \ {d}
  /\ session' = [session EXCEPT !.owed = @ \ {d}]
  /\ UNCHANGED <<birth, record, tree, stage, told>>

\* A stage that no record authorises keeps a name nobody looks up.
Unremembered ==
  [t \in Tokens |-> IF t <= Last THEN stage[t] ELSE NoStage]

\* The process is killed, or a system call or fsync fails and the operation
\* raises.
Interrupt ==
  /\ session # Idle
  /\ session' = Idle
  /\ stage' = Unremembered
  /\ UNCHANGED <<birth, record, tree, dirty, told>>

Create == \E p \in Creators : \/ CreatePrepare(p) \/ CreateCommit(p)
                              \/ CreatePublish(p) \/ CreateAbandon(p)

Progress ==
  \/ Prepare \/ Remember \/ PublishJournal \/ Published \/ PublishFile
  \/ ReplaceCheckpoint
  \/ \E t \in Tokens : Claim(t) \/ Move(t) \/ Close(t) \/ Empty(t) \/ RemoveStage(t)
  \/ Finish \/ Answer
  \/ \E d \in Directories : Fsync(d)

Next ==
  \/ Create
  \/ \E e \in Entries : Start(e)
  \/ Resume
  \/ Progress
  \/ Interrupt

Spec == Init /\ [][Next]_vars

\* A session that is not interrupted does its next step, and a consumer goes on
\* asking for what it is owed: it resumes whenever the artifact is free.
Fairness == WF_vars(Progress) /\ WF_vars(Resume)

LiveSpec == Spec /\ Fairness

-----------------------------------------------------------------------------
(* Properties.                                                             *)

\* Whenever the public name exists, and wherever a process is killed, the next
\* _observe accepts what it finds: no crash point is unrecoverable.
Recoverable == root # Nobody => ObserveOK

\* cleanup closes a stage, the only other evidence of the transaction, after
\* the journal, the data and the checkpoint or manifest are durable.
EvidenceOutlivesCommit ==
  Last \in closed => dirty \cap {"root", "protocol", "files"} = {}

\* An operation that is about to return has left no entry of the tree, its
\* parent, the quarantine, a stage or the trusted record that an fsync has not
\* covered, whoever made that entry and however often an fsync failed since.
SuccessIsDurable == At("answer") => dirty = {}

\* The transactional artifact implements a log that is written once: a file
\* joins it when its checkpoint is replaced, the manifest seals it when linked.
Log == INSTANCE WriteOnceLog WITH
  Unsealed <- NoEntry,
  log <- SubSeq(journals, 1, checkpoint),
  seal <- IF Finalized THEN journals[Last].content ELSE NoEntry

ImplementsLog == Log!Spec

\* docs/specs/0008-amendment-b-artifact-protocol.md: the original commitment of
\* a transaction is durable before its journal is published in the artifact,
\* also when it is a resume that publishes it after the fsync of the record
\* failed.
CommitmentBeforeJournal == [][visible' # visible => "anchor" \notin dirty]_vars

\* If processes stop being killed and fsync stops failing, a transaction that
\* was interrupted at any point is completed and its stage is cleaned up.
InterruptedCompletes ==
  (<>[][~Interrupt]_vars) => (Pending \/ Staged # {}) ~> (~Pending /\ Staged = {})
=============================================================================
