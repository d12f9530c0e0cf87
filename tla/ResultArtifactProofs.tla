------------------------ MODULE ResultArtifactProofs ------------------------
(***************************************************************************)
(* The safety of ResultArtifact, for any creators, files, contents and     *)
(* capacity, and that it implements WriteOnceLog.  ArtifactInv is          *)
(* inductive: it adds to what _observe accepts where the session stands,   *)
(* which stages it may still need, and what it has not yet synced.         *)
(***************************************************************************)
EXTENDS ResultArtifact, SequenceTheorems, TLAPS

Paths == Files \cup {Manifest}
Places == {"none", "parent", "quarantine"}
Ops == {"none", "create", "publish", "resume"}
Publishing == {"journal", "vouch", "file", "checkpoint"}
Cleaning == {"clean", "close", "empty", "answer"}
Steps == {"idle", "prepare", "remember"} \cup Publishing \cup Cleaning
Sessions == [op : Ops, step : Steps, entry : Entries \cup {NoEntry}, owed : SUBSET Directories]

\* Every variable has the type the code gives it; transactions are numbered up to Last.
TypeOK ==
  /\ creators \in [Creators -> {"idle", "prepared", "committed"}]
  /\ root \in Creators \cup {Nobody}
  /\ journals \in Seq(Entries) /\ Last <= Capacity
  /\ published \in SUBSET (1..Last)
  /\ claimed \in SUBSET (1..Last)
  /\ closed \in SUBSET (1..Last)
  /\ visible \in SUBSET (1..Last)
  /\ linked \in [Paths -> 0..Last]
  /\ checkpoint \in 0..Last
  /\ stage \in [Tokens -> [place : Places, items : SUBSET Items]]
  /\ dirty \in SUBSET Directories
  /\ session \in Sessions
  /\ acked \in SUBSET Entries
  /\ opened \in BOOLEAN
  /\ receipts \in SUBSET Seq(Entries)

\* Before it has a public name an artifact is untouched; after, its creator's record
\* is complete.
Born ==
  /\ root = Nobody => /\ session = Idle /\ ~opened
                      /\ journals = <<>> /\ dirty = {}
  /\ root # Nobody => creators[root] = "committed"

\* The files of the artifact are those of the record, each path once, the last one
\* perhaps on its way.
Written ==
  /\ \A t \in 1..Last : ~IsFile(t) => t = Last
  /\ \A t, u \in 1..Last : journals[t].path = journals[u].path => t = u
  /\ \A t \in 1..Last : \/ linked[journals[t].path] = t
                        \/ ~Committed(t) /\ linked[journals[t].path] = 0
  /\ \A d \in Paths : linked[d] # 0 => \E t \in 1..Last : journals[t].path = d
  /\ checkpoint = IF Last > 0 /\ (~IsFile(Last) \/ Pending) THEN Last - 1 ELSE Last

\* The journals in the artifact are those of the record, or all but the last.
Shown ==
  /\ visible \in {1..Last, 1..(Last - 1)}
  /\ (Last > 0 /\ Last \notin visible) =>
       Last \notin published /\ Pending /\ linked[journals[Last].path] = 0

\* A stage holds what is still needed of it; only one of a committed transaction is
\* claimed, and only a claimed one is closed.  Beyond the record there is at most the
\* stage of the entry to be remembered.
StagesFit ==
  /\ \A t \in 1..Last : StageIsLawful(t)
  /\ closed \subseteq claimed
  /\ \A t \in claimed : Committed(t)
  /\ \A t \in Tokens : t > Last =>
       stage[t] = IF session.step = "remember" /\ t = Last + 1
                  THEN [place |-> "parent", items |-> Required(session.entry)]
                  ELSE NoStage

\* Where a session stands follows from what is on disk, whether it published what is
\* there itself or found it.
SessionFits ==
  /\ session.step = "idle" => session = Idle
  /\ session.step \in {"prepare", "remember"} =>
       /\ session.op = "publish" /\ session.entry \in Entries
       /\ ~Finalized /\ ~Pending /\ Staged = {}
       /\ session.entry.path \notin Completed /\ Last < Capacity
  /\ session.step \in Publishing => Pending
  /\ session.step = "journal" => Last \notin visible
  /\ session.step \in {"vouch", "file", "checkpoint"} => Last \in visible
  /\ session.step = "file" => linked[journals[Last].path] = 0
  /\ session.step = "checkpoint" => IsFile(Last) /\ linked[journals[Last].path] = Last
  /\ session.step \in Cleaning => ~Pending
  /\ session.step = "close" =>
       \A t \in 1..Last : Oldest(t) => t \in claimed /\ stage[t].place = "quarantine"
  /\ session.step = "empty" =>
       \A t \in 1..Last : Oldest(t) => t \in closed /\ stage[t].place = "quarantine"
  /\ session.step = "answer" => Staged = {}
  /\ session.op = "publish" /\ session.step \in Publishing \cup Cleaning =>
       Last > 0 /\ session.entry = journals[Last]

\* What a session that cleans up has not synced yet it still owes; stages are dirty
\* while there are any; and a closed transaction is durable.
Durable ==
  /\ session.step \in Cleaning => dirty \cap TreeDirectories \subseteq session.owed
  /\ "staging" \in dirty => Staged # {}
  /\ Last \in closed => dirty \cap {"root", "protocol", "files"} = {}

ArtifactInv ==
  TypeOK /\ Born /\ Written /\ Shown /\ StagesFit /\ SessionFits /\ Durable

-----------------------------------------------------------------------------
(* Operators.                                                              *)

LEMMA RequiredItems ==
  ASSUME NEW e \in Entries PROVE Required(e) \in SUBSET Items
BY DEF Required, Items, Entries

\* What the type invariant says of the record.
LEMMA LastTypes ==
  ASSUME TypeOK
  PROVE  /\ Last \in Nat /\ Last <= Capacity /\ Capacity \in Nat \ {0}
         /\ 1..Last \subseteq Tokens
         /\ \A t \in 1..Last : journals[t] \in Entries /\ journals[t].path \in Paths
<1>1. journals \in Seq(Entries) /\ Last <= Capacity /\ Last \in Nat /\ Capacity \in Nat \ {0}
  BY CapacityAssumption DEF TypeOK, Last
<1>2. \A t \in 1..Last : journals[t] \in Entries
  BY <1>1 DEF Last
<1>3. \A e \in Entries : e.path \in Paths
  BY DEF Entries, Paths
<1> QED
  BY <1>1, <1>2, <1>3 DEF Tokens

\* A transaction that is not committed has its whole stage, which nothing has claimed.
LEMMA PendingStage ==
  ASSUME TypeOK, StagesFit, Pending
  PROVE  /\ Last \in Staged /\ stage[Last].items = Required(journals[Last])
         /\ stage[Last].place = "parent" /\ Last \notin claimed /\ Last \notin closed
<1>1. Last \in 1..Last /\ ~Committed(Last)
  BY LastTypes DEF Pending, Committed
<1>2. Last \notin claimed /\ Last \notin closed
  BY <1>1 DEF StagesFit
<1>3. stage[Last].place \in Places
  BY <1>1, LastTypes DEF TypeOK
<1> QED
  BY <1>1, <1>2, <1>3 DEF StagesFit, StageIsLawful, Staged, Places

\* Whenever the artifact has its name, _observe accepts it.
LEMMA InvObserve == ASSUME ArtifactInv, root # Nobody PROVE ObserveOK
BY DEF ArtifactInv, Born, Written, Shown, StagesFit, ObserveOK, Paths, Last

\* A session exists only after the artifact got its name.
LEMMA SessionRoot == ASSUME ArtifactInv, session # Idle PROVE root # Nobody
BY DEF ArtifactInv, Born

LEMMA InitInv == Init => ArtifactInv
<1> SUFFICES ASSUME Init PROVE ArtifactInv
  OBVIOUS
<1>1. Last = 0 /\ 1..Last = {}
  BY DEF Init, Last
<1>2. TypeOK
  <2>1. session \in Sessions
    BY DEF Init, Idle, Sessions, Ops, Steps
  <2>2. stage \in [Tokens -> [place : Places, items : SUBSET Items]]
    BY DEF Init, NoStage, Places
  <2>3. linked \in [Paths -> 0..Last] /\ checkpoint \in 0..Last /\ Last <= Capacity
    BY <1>1, CapacityAssumption DEF Init, Paths
  <2>4. creators \in [Creators -> {"idle", "prepared", "committed"}]
    BY DEF Init
  <2>5. journals \in Seq(Entries) /\ receipts \in SUBSET Seq(Entries)
    BY DEF Init
  <2>7. opened \in BOOLEAN
    BY DEF Init
  <2>6. /\ root \in Creators \cup {Nobody} /\ dirty \in SUBSET Directories
        /\ acked \in SUBSET Entries /\ published \in SUBSET (1..Last)
        /\ claimed \in SUBSET (1..Last) /\ closed \in SUBSET (1..Last)
        /\ visible \in SUBSET (1..Last)
    BY DEF Init
  <2> QED
    BY <2>1, <2>2, <2>3, <2>4, <2>5, <2>6, <2>7 DEF TypeOK
<1> QED
  BY <1>1, <1>2 DEF Init, ArtifactInv, Born, Written, Shown, StagesFit, SessionFits, Durable,
       Pending, NoStage, Idle, Staged, Publishing, Cleaning, Paths

-----------------------------------------------------------------------------
(* Steps that leave the disk as it is.                                     *)

LEMMA DiskKept ==
  ASSUME Written, Shown, UNCHANGED <<record, tree>>
  PROVE  /\ Written' /\ Shown'
         /\ Last' = Last /\ Pending' = Pending /\ Finalized' = Finalized
         /\ Completed' = Completed /\ AfterVouch' = AfterVouch
         /\ \A t : IsFile(t)' = IsFile(t) /\ Committed(t)' = Committed(t)
<1>1. journals' = journals /\ published' = published /\ claimed' = claimed /\ closed' = closed
      /\ visible' = visible /\ linked' = linked /\ checkpoint' = checkpoint
  BY DEF record, tree
<1>2. Last' = Last /\ \A t : IsFile(t)' = IsFile(t)
  BY <1>1 DEF Last, IsFile
<1>3. Pending' = Pending
  BY <1>1, <1>2 DEF Pending
<1>4. \A t : Committed(t)' = Committed(t)
  BY <1>2, <1>3 DEF Committed
<1>5. Finalized' = Finalized /\ Completed' = Completed /\ AfterVouch' = AfterVouch
  BY <1>1, <1>2 DEF Finalized, Completed, AfterVouch
<1>6. Written'
  BY <1>1, <1>2, <1>3, <1>4 DEF Written
<1>7. Shown'
  BY <1>1, <1>2, <1>3 DEF Shown
<1> QED
  BY <1>2, <1>3, <1>4, <1>5, <1>6, <1>7

\* If the stages stay as well and nothing was or is about to be remembered, they fit
\* as before.
LEMMA StagesKept ==
  ASSUME Written, Shown, StagesFit, UNCHANGED <<record, tree, stage>>,
         session.step # "remember", session'.step # "remember"
  PROVE  /\ StagesFit' /\ Staged' = Staged
         /\ \A t : Oldest(t)' = Oldest(t)
<1>1. Last' = Last /\ \A t : Committed(t)' = Committed(t)
  BY DiskKept
<1>2. journals' = journals /\ claimed' = claimed /\ closed' = closed
  BY DEF record
<1>3. \A t : StageIsLawful(t)' = StageIsLawful(t)
  BY <1>1, <1>2 DEF StageIsLawful
<1>4. StagesFit'
  BY <1>1, <1>2, <1>3 DEF StagesFit
<1>5. Staged' = Staged
  BY <1>1 DEF Staged
<1> QED
  BY <1>4, <1>5 DEF Oldest

LEMMA CreateInv == ASSUME ArtifactInv, Create PROVE ArtifactInv'
<1>1. TypeOK /\ Born /\ Written /\ Shown /\ StagesFit /\ SessionFits /\ Durable
  BY DEF ArtifactInv
<1>2. PICK p \in Creators : \/ CreatePrepare(p) \/ CreateCommit(p)
                            \/ CreatePublish(p) \/ CreateAbandon(p)
  BY DEF Create
<1>3. UNCHANGED <<record, tree, stage, told>>
  BY <1>2 DEF CreatePrepare, CreateCommit, CreatePublish, CreateAbandon
<1>4. /\ Written' /\ Shown' /\ Last' = Last /\ Pending' = Pending
      /\ Finalized' = Finalized /\ Completed' = Completed
      /\ \A t : IsFile(t)' = IsFile(t)
  BY <1>1, <1>3, DiskKept
<1>5. CASE CreatePublish(p)
  <2>1. root = Nobody /\ session = Idle /\ dirty = {} /\ journals = <<>> /\ ~opened
    BY <1>1, <1>5 DEF Born, CreatePublish
  <2>2. Last = 0
    BY <2>1 DEF Last
  <2>3. session' = [op |-> "create", step |-> "answer", entry |-> NoEntry,
                    owed |-> {"parent", "root"}] /\ dirty' = {"parent"}
        /\ root' = p /\ creators' = creators /\ creators[p] = "committed"
    BY <1>5, <2>1 DEF CreatePublish
  <2>4. StagesFit' /\ Staged' = Staged
    BY <1>1, <1>3, <2>1, <2>3, StagesKept DEF Idle
  <2>5. TypeOK'
    BY <1>1, <1>3, <1>4, <2>3 DEF TypeOK, record, tree, told, Sessions, Ops, Steps, Cleaning,
         Directories, TreeDirectories
  <2>6. Born'
    BY <2>3, NobodyAssumption DEF Born
  <2>7. SessionFits'
    BY <1>4, <2>2, <2>3, <2>4 DEF SessionFits, Publishing, Cleaning, Pending, Staged
  <2>8. Durable'
    BY <1>1, <1>3, <1>4, <2>2, <2>3 DEF TypeOK, Durable, TreeDirectories, record
  <2> QED
    BY <1>4, <2>4, <2>5, <2>6, <2>7, <2>8 DEF ArtifactInv
<1>6. CASE ~CreatePublish(p)
  <2>1. UNCHANGED <<root, dirty, session>>
    BY <1>2, <1>6 DEF CreatePrepare, CreateCommit, CreateAbandon
  <2>2. creators' \in [Creators -> {"idle", "prepared", "committed"}]
    BY <1>1, <1>2, <1>6 DEF TypeOK, CreatePrepare, CreateCommit, CreateAbandon
  <2>3. TypeOK'
    BY <1>1, <1>3, <1>4, <2>1, <2>2 DEF TypeOK, record, tree, told
  <2>4. root # Nobody => creators'[root] = "committed"
    BY <1>1, <1>2, <1>6 DEF TypeOK, Born, CreatePrepare, CreateCommit, CreateAbandon
  <2>5. Born'
    BY <1>1, <1>3, <2>1, <2>4 DEF Born, record, told
  <2>6. StagesFit' /\ SessionFits' /\ Durable'
    BY <1>1, <1>3, <2>1 DEF StagesFit, SessionFits, Durable, StageIsLawful, Committed, Pending,
         Last, IsFile, Staged, Oldest, Finalized, Completed, record, tree
  <2> QED
    BY <1>4, <2>3, <2>5, <2>6 DEF ArtifactInv
<1> QED
  BY <1>5, <1>6

\* A session that starts, goes on or ends without touching the disk: what it owes and
\* where it stands still have to fit.
LEMMA SessionOnly ==
  ASSUME ArtifactInv, UNCHANGED <<birth, record, tree, stage>>,
         session.step # "remember", session'.step # "remember",
         session' \in Sessions, dirty' \in SUBSET dirty,
         acked' \in SUBSET Entries, opened' \in BOOLEAN, receipts' \in SUBSET Seq(Entries),
         root # Nobody, SessionFits',
         session'.step \in Cleaning => dirty' \cap TreeDirectories \subseteq session'.owed
  PROVE  ArtifactInv'
<1>1. TypeOK /\ Born /\ Written /\ Shown /\ StagesFit /\ Durable
  BY DEF ArtifactInv
<1>2. Written' /\ Shown' /\ Last' = Last
  BY <1>1, DiskKept
<1>3. StagesFit' /\ Staged' = Staged
  BY <1>1, StagesKept
<1>4. TypeOK'
  BY <1>1, <1>2 DEF TypeOK, birth, record, tree
<1>5. Born'
  BY <1>1 DEF Born, birth
<1>6. Durable'
  BY <1>1, <1>2, <1>3 DEF Durable, record
<1> QED
  BY <1>2, <1>3, <1>4, <1>5, <1>6 DEF ArtifactInv

LEMMA StartInv == ASSUME ArtifactInv, NEW e \in Entries, Start(e) PROVE ArtifactInv'
<1>1. TypeOK /\ Born /\ Written /\ Shown /\ StagesFit /\ SessionFits /\ Durable
  BY DEF ArtifactInv
<1>2. /\ session = Idle /\ opened /\ ~Finalized /\ ~Pending /\ Staged = {}
      /\ e.path \notin Completed /\ Last < Capacity
      /\ session' = [op |-> "publish", step |-> "prepare", entry |-> e, owed |-> Preflight]
      /\ UNCHANGED <<birth, record, tree, stage, dirty, told>>
  BY DEF Start
<1>3. session' \in Sessions
  BY <1>2 DEF Sessions, Ops, Steps, Preflight, Directories, TreeDirectories
<1>4. root # Nobody
  BY <1>1, <1>2 DEF Born
<1>5. UNCHANGED <<record, tree>>
  BY <1>2
<1>6. /\ Last' = Last /\ Pending' = Pending /\ Finalized' = Finalized
      /\ Completed' = Completed
  BY <1>1, <1>5, DiskKept
<1>7. Staged' = {}
  BY <1>2, <1>6 DEF Staged
<1>8. SessionFits'
  BY <1>2, <1>6, <1>7 DEF SessionFits, Publishing, Cleaning
<1> QED
  BY <1>1, <1>2, <1>3, <1>4, <1>8, SessionOnly DEF Idle, told, TypeOK, Cleaning

LEMMA ResumeInv == ASSUME ArtifactInv, Resume PROVE ArtifactInv'
<1>1. TypeOK /\ Born /\ Written /\ Shown /\ StagesFit /\ SessionFits /\ Durable
  BY DEF ArtifactInv
<1> DEFINE step == IF ~Pending THEN IF Staged = {} THEN "answer" ELSE "clean"
                   ELSE IF Last \notin visible THEN "journal"
                   ELSE IF Last \notin published THEN "vouch"
                   ELSE AfterVouch
           owed == Preflight \cup (IF Pending /\ (Last \notin visible \/ Last \in published)
                                 THEN {} ELSE TreeDirectories)
<1>2. /\ session = Idle /\ root # Nobody
      /\ session' = [op |-> "resume", entry |-> NoEntry, step |-> step, owed |-> owed]
      /\ UNCHANGED <<birth, record, tree, stage, dirty, told>>
  BY DEF Resume, BeginRecovery
<1>3. step \in Publishing \cup {"answer", "clean"}
  BY DEF AfterVouch, Publishing
<1>4. session' \in Sessions
  BY <1>2, <1>3 DEF Sessions, Ops, Steps, Preflight, Directories, TreeDirectories, Cleaning
<1>5. UNCHANGED <<record, tree>>
  BY <1>2
<1>6. /\ Last' = Last /\ Pending' = Pending /\ visible' = visible /\ linked' = linked
      /\ journals' = journals /\ \A t : IsFile(t)' = IsFile(t)
  BY <1>1, <1>5, DiskKept DEF tree, record
<1>7. Staged' = Staged
  BY <1>2, <1>6 DEF Staged
<1>8. step = "checkpoint" => IsFile(Last) /\ linked[journals[Last].path] = Last
  <2>1. SUFFICES ASSUME step = "checkpoint"
                 PROVE  IsFile(Last) /\ linked[journals[Last].path] = Last
    OBVIOUS
  <2>2. Pending /\ linked[journals[Last].path] # 0
    BY <2>1 DEF AfterVouch
  <2>3. Last \in 1..Last
    BY <1>1, <2>2, LastTypes DEF Pending
  <2> QED
    BY <1>1, <2>2, <2>3 DEF Written, Pending, IsFile
<1>9. step = "file" => linked[journals[Last].path] = 0
  BY DEF AfterVouch
<1>10. /\ step \in Publishing => Pending
       /\ step = "journal" => Last \notin visible
       /\ step \in {"vouch", "file", "checkpoint"} => Last \in visible
       /\ step \in Cleaning => ~Pending
       /\ step = "answer" => Staged = {}
  BY DEF AfterVouch, Publishing, Cleaning
<1>11. SessionFits'
  BY <1>2, <1>3, <1>6, <1>7, <1>8, <1>9, <1>10 DEF SessionFits, Publishing
<1>12. session'.step \in Cleaning => TreeDirectories \subseteq session'.owed
  BY <1>2, <1>10
<1>13. session'.step # "remember"
  BY <1>2, <1>3 DEF Publishing
<1> HIDE DEF step, owed
<1> QED
  BY <1>1, <1>2, <1>4, <1>11, <1>12, <1>13, SessionOnly DEF Idle, told, TypeOK

LEMMA FsyncInv == ASSUME ArtifactInv, NEW d \in Directories, Fsync(d) PROVE ArtifactInv'
<1>1. TypeOK /\ Born /\ Written /\ Shown /\ StagesFit /\ SessionFits /\ Durable
  BY DEF ArtifactInv
<1>2. /\ d \in session.owed /\ dirty' = dirty \ {d}
      /\ session' = [session EXCEPT !.owed = @ \ {d}]
      /\ UNCHANGED <<birth, record, tree, stage, told>>
  BY DEF Fsync
<1>3. session \in Sessions
  BY <1>1 DEF TypeOK
<1>4. /\ session' \in Sessions /\ session'.op = session.op /\ session'.step = session.step
      /\ session'.entry = session.entry /\ session'.owed = session.owed \ {d}
  BY <1>2, <1>3 DEF Sessions
<1>5. UNCHANGED <<record, tree>>
  BY <1>2
<1>6. /\ Last' = Last /\ Pending' = Pending /\ Finalized' = Finalized
      /\ Completed' = Completed /\ visible' = visible /\ linked' = linked
      /\ journals' = journals /\ claimed' = claimed /\ closed' = closed
      /\ \A t : IsFile(t)' = IsFile(t) /\ Committed(t)' = Committed(t)
  BY <1>1, <1>5, DiskKept DEF tree, record
<1>7. Staged' = Staged /\ \A t : Oldest(t)' = Oldest(t)
  BY <1>2, <1>6 DEF Staged, Oldest
<1>8. session.step # "idle" /\ root # Nobody
  BY <1>1, <1>2 DEF SessionFits, Born, Idle
<1>9. SessionFits'
  BY <1>1, <1>2, <1>4, <1>6, <1>7, <1>8 DEF SessionFits
<1>10. Written' /\ Shown'
  BY <1>1, <1>5, DiskKept
<1>11. TypeOK'
  BY <1>1, <1>2, <1>4, <1>6 DEF TypeOK, birth, record, tree, told
<1>12. Born'
  BY <1>1, <1>2, <1>8 DEF Born, birth
<1>13. StagesFit'
  BY <1>1, <1>2, <1>4, <1>6 DEF StagesFit, StageIsLawful
<1>14. Durable'
  BY <1>1, <1>2, <1>4, <1>6, <1>7 DEF Durable
<1> QED
  BY <1>9, <1>10, <1>11, <1>12, <1>13, <1>14 DEF ArtifactInv

LEMMA FinishInv == ASSUME ArtifactInv, Finish PROVE ArtifactInv'
<1>1. TypeOK /\ Born /\ Written /\ Shown /\ StagesFit /\ SessionFits /\ Durable
  BY DEF ArtifactInv
<1> DEFINE owed == IF session.op = "resume" THEN TreeDirectories ELSE {}
<1>2. /\ session.step = "clean" /\ session.owed = {} /\ Staged = {} /\ ~Pending
      /\ session' = [session EXCEPT !.step = "answer", !.owed = owed]
      /\ UNCHANGED <<birth, record, tree, stage, dirty, told>>
  BY DEF Finish, At, GoOn, Sealed
<1>3. session \in Sessions
  BY <1>1 DEF TypeOK
<1>4. /\ session' \in Sessions /\ session'.op = session.op /\ session'.step = "answer"
      /\ session'.entry = session.entry /\ session'.owed = owed
  BY <1>2, <1>3 DEF Sessions, Steps, Cleaning, Directories
<1>5. UNCHANGED <<record, tree>>
  BY <1>2
<1>6. Last' = Last /\ Pending' = Pending /\ journals' = journals
  BY <1>1, <1>5, DiskKept DEF record
<1>7. Staged' = Staged
  BY <1>2, <1>6 DEF Staged
<1>8. root # Nobody
  BY <1>1, <1>2 DEF Born, Idle
<1>9. dirty \cap TreeDirectories = {}
  BY <1>1, <1>2 DEF Durable, Cleaning
<1>10. SessionFits'
  BY <1>1, <1>2, <1>4, <1>6, <1>7 DEF SessionFits, Publishing, Cleaning
<1> HIDE DEF owed
<1> QED
  BY <1>1, <1>2, <1>4, <1>8, <1>9, <1>10, SessionOnly DEF told, TypeOK

LEMMA AnswerInv == ASSUME ArtifactInv, Answer PROVE ArtifactInv'
<1>1. TypeOK /\ Born /\ Written /\ Shown /\ StagesFit /\ SessionFits /\ Durable
  BY DEF ArtifactInv
<1>2. /\ session.step = "answer" /\ session' = Idle
      /\ UNCHANGED <<birth, record, tree, stage, dirty>>
      /\ acked' = IF session.op = "publish" /\ session.entry.path # Manifest
                  THEN acked \cup {session.entry} ELSE acked
      /\ receipts' = IF Finalized THEN receipts \cup {journals} ELSE receipts
  BY DEF Answer, At
<1>3. opened' \in BOOLEAN
  BY DEF Answer
<1>4. root # Nobody
  BY <1>1, <1>2 DEF Born, Idle
<1>5. session.op = "publish" => session.entry \in Entries
  BY <1>1, <1>2, LastTypes DEF SessionFits, Cleaning
<1>6. acked' \in SUBSET Entries /\ receipts' \in SUBSET Seq(Entries)
  BY <1>1, <1>2, <1>5 DEF TypeOK
<1>7. session' \in Sessions /\ session'.step = "idle" /\ session'.op = "none"
  BY <1>2 DEF Idle, Sessions, Ops, Steps
<1>8. SessionFits'
  BY <1>2, <1>7 DEF SessionFits, Publishing, Cleaning
<1> QED
  BY <1>1, <1>2, <1>3, <1>4, <1>6, <1>7, <1>8, SessionOnly DEF Cleaning

LEMMA InterruptInv == ASSUME ArtifactInv, Interrupt PROVE ArtifactInv'
<1>1. TypeOK /\ Born /\ Written /\ Shown /\ StagesFit /\ SessionFits /\ Durable
  BY DEF ArtifactInv
<1>2. /\ session # Idle /\ session' = Idle /\ stage' = Unremembered
      /\ UNCHANGED <<birth, record, tree, dirty, told>>
  BY DEF Interrupt
<1>3. UNCHANGED <<record, tree>>
  BY <1>2
<1>4. /\ Written' /\ Shown' /\ Last' = Last /\ Pending' = Pending
      /\ \A t : Committed(t)' = Committed(t)
  BY <1>1, <1>3, DiskKept
<1>5. \A t \in 1..Last : stage'[t] = stage[t]
  BY <1>1, <1>2, LastTypes DEF Unremembered
<1>6. \A t \in Tokens : t > Last => stage'[t] = NoStage
  BY <1>1, <1>2, LastTypes DEF Unremembered, Tokens
<1>7. Staged' = Staged
  BY <1>4, <1>5 DEF Staged
<1>8. session' \in Sessions /\ session'.step = "idle" /\ session'.op = "none"
  BY <1>2 DEF Idle, Sessions, Ops, Steps
<1>9. TypeOK'
  <2>1. stage' \in [Tokens -> [place : Places, items : SUBSET Items]]
    BY <1>1, <1>2 DEF TypeOK, Unremembered, NoStage, Places
  <2> QED
    BY <1>1, <1>2, <1>4, <1>8, <2>1 DEF TypeOK, birth, record, tree, told
<1>10. Born'
  BY <1>1, <1>2 DEF Born, birth
<1>11. StagesFit'
  BY <1>1, <1>2, <1>4, <1>5, <1>6, <1>8 DEF StagesFit, StageIsLawful, record
<1>12. SessionFits'
  BY <1>2, <1>8 DEF SessionFits, Publishing, Cleaning
<1>13. Durable'
  BY <1>1, <1>2, <1>4, <1>7, <1>8 DEF Durable, Cleaning, record
<1> QED
  BY <1>4, <1>9, <1>10, <1>11, <1>12, <1>13 DEF ArtifactInv

-----------------------------------------------------------------------------
(* Publication, up to the commit point.                                    *)

\* What GoOn leaves of the session.
LEMMA GoOnFields ==
  ASSUME session \in Sessions, NEW step \in Steps, NEW owed \in SUBSET Directories,
         GoOn(step, owed)
  PROVE  /\ session' \in Sessions /\ session'.op = session.op /\ session'.step = step
         /\ session'.entry = session.entry /\ session'.owed = owed
BY DEF GoOn, Sessions

LEMMA PrepareInv == ASSUME ArtifactInv, Prepare PROVE ArtifactInv'
<1>1. TypeOK /\ Born /\ Written /\ Shown /\ StagesFit /\ SessionFits /\ Durable
  BY DEF ArtifactInv
<1>2. /\ session.step = "prepare" /\ dirty' = dirty \cup {"parent"}
      /\ GoOn("remember", {"parent"})
      /\ stage' = [stage EXCEPT ![Last + 1] =
                     [place |-> "parent", items |-> Required(session.entry)]]
      /\ UNCHANGED <<birth, record, tree, told>>
  BY DEF Prepare, At, Touch
<1>3. session \in Sessions
  BY <1>1 DEF TypeOK
<1>4. /\ session' \in Sessions /\ session'.op = session.op /\ session'.step = "remember"
      /\ session'.entry = session.entry /\ session'.owed = {"parent"}
  BY <1>2, <1>3, GoOnFields DEF Steps, Directories, TreeDirectories
<1>5. UNCHANGED <<record, tree>>
  BY <1>2
<1>6. /\ Written' /\ Shown' /\ Last' = Last /\ Pending' = Pending /\ Finalized' = Finalized
      /\ Completed' = Completed /\ \A t : Committed(t)' = Committed(t)
  BY <1>1, <1>5, DiskKept
<1>7. /\ session.op = "publish" /\ session.entry \in Entries /\ ~Finalized /\ ~Pending
      /\ Staged = {} /\ session.entry.path \notin Completed /\ Last < Capacity
  BY <1>1, <1>2 DEF SessionFits
<1>8. Last + 1 \in Tokens /\ Last \in Nat
  BY <1>1, <1>7, LastTypes DEF Tokens
<1>9. \A t \in 1..Last : stage'[t] = stage[t]
  BY <1>1, <1>2, <1>8, LastTypes DEF TypeOK
<1>10. \A t \in Tokens : t > Last =>
         stage'[t] = IF t = Last + 1
                     THEN [place |-> "parent", items |-> Required(session.entry)]
                     ELSE NoStage
  BY <1>1, <1>2, <1>8 DEF StagesFit, TypeOK
<1>11. Staged' = {}
  BY <1>6, <1>7, <1>9 DEF Staged
<1>12. TypeOK'
  <2>1. stage' \in [Tokens -> [place : Places, items : SUBSET Items]]
    BY <1>1, <1>2, <1>7, <1>8, RequiredItems DEF TypeOK, Places
  <2> QED
    BY <1>1, <1>2, <1>4, <1>6, <2>1
       DEF TypeOK, birth, record, tree, told, Directories, TreeDirectories
<1>13. Born'
  BY <1>1, <1>2 DEF Born, birth, Idle
<1>14. StagesFit'
  BY <1>1, <1>2, <1>4, <1>6, <1>9, <1>10 DEF StagesFit, StageIsLawful, record
<1>15. SessionFits'
  BY <1>4, <1>6, <1>7, <1>11 DEF SessionFits, Publishing, Cleaning
<1>16. Durable'
  BY <1>1, <1>2, <1>4, <1>6, <1>7, <1>11 DEF Durable, Cleaning, record
<1> QED
  BY <1>6, <1>12, <1>13, <1>14, <1>15, <1>16 DEF ArtifactInv

LEMMA RememberInv == ASSUME ArtifactInv, Remember PROVE ArtifactInv'
<1>1. TypeOK /\ Born /\ Written /\ Shown /\ StagesFit /\ SessionFits /\ Durable
  BY DEF ArtifactInv
<1>2. /\ session.step = "remember" /\ dirty' = dirty \cup {"anchor"}
      /\ GoOn("journal", {"anchor"}) /\ journals' = Append(journals, session.entry)
      /\ UNCHANGED <<birth, published, claimed, closed, tree, stage, told>>
  BY DEF Remember, At, Touch
<1> DEFINE e == session.entry
<1>3. session \in Sessions
  BY <1>1 DEF TypeOK
<1>4. /\ session' \in Sessions /\ session'.op = session.op /\ session'.step = "journal"
      /\ session'.entry = e /\ session'.owed = {"anchor"}
  BY <1>2, <1>3, GoOnFields DEF Steps, Publishing, Directories
<1>5. /\ session.op = "publish" /\ e \in Entries /\ ~Finalized /\ ~Pending
      /\ Staged = {} /\ e.path \notin Completed /\ Last < Capacity
  BY <1>1, <1>2 DEF SessionFits
<1> PICK n : n = Last + 1
  OBVIOUS
<1>6. Last \in Nat /\ n = Last + 1 /\ n \in Tokens /\ n # 0
  BY <1>1, <1>5, LastTypes DEF Tokens
<1>7. /\ journals' \in Seq(Entries) /\ Last' = n /\ journals'[n] = e
      /\ \A t \in 1..Last : journals'[t] = journals[t]
  BY <1>1, <1>2, <1>5, AppendProperties DEF TypeOK, Last
<1>8. /\ visible' = visible /\ linked' = linked /\ checkpoint' = checkpoint
      /\ published' = published /\ claimed' = claimed /\ closed' = closed /\ stage' = stage
  BY <1>2 DEF tree
<1>9. /\ 1..n = 1..Last \cup {n} /\ n \notin 1..Last
      /\ \A t \in 1..Last : t < n /\ IsFile(t)' = IsFile(t)
      /\ (IsFile(n)' <=> e.path # Manifest)
  <2>1. 1..n = 1..Last \cup {n} /\ n \notin 1..Last /\ \A t \in 1..Last : t < n
    BY <1>6
  <2>2. \A t \in 1..Last : IsFile(t)' = IsFile(t)
    BY <1>7 DEF IsFile
  <2>3. IsFile(n)' <=> e.path # Manifest
    BY <1>7 DEF IsFile
  <2> QED
    BY <2>1, <2>2, <2>3
<1>10. linked[Manifest] = 0 /\ linked[e.path] = 0 /\ e.path \in Paths
  BY <1>1, <1>5 DEF Finalized, Written, Completed, Entries, Paths
<1>11. /\ \A t \in 1..Last : IsFile(t) /\ linked[journals[t].path] = t
       /\ checkpoint = Last /\ visible = 1..Last
  <2>1. \A t \in 1..Last : Committed(t)
    BY <1>5, <1>6 DEF Committed
  <2>2. \A t \in 1..Last : linked[journals[t].path] = t
    BY <1>1, <2>1 DEF Written
  <2>3. \A t \in 1..Last : IsFile(t)
    BY <1>6, <1>10, <2>2 DEF IsFile
  <2>4. checkpoint = Last
    BY <1>1, <1>5, <1>6, <2>3 DEF Written
  <2>5. visible = 1..Last
    BY <1>1, <1>5, <1>6 DEF Shown
  <2> QED
    BY <2>2, <2>3, <2>4, <2>5
<1>12. Pending' /\ \A t \in 1..Last : Committed(t)'
  BY <1>6, <1>7, <1>8, <1>9, <1>10, <1>11 DEF Pending, Committed
<1>13. Written'
  <2>1. \A t \in 1..Last : journals[t].path # e.path
    BY <1>5 DEF Completed
  <2>2. \A t \in 1..n : ~IsFile(t)' => t = n
    BY <1>9, <1>11
  <2>3. \A t, u \in 1..n : journals'[t].path = journals'[u].path => t = u
    BY <1>1, <1>7, <1>9, <2>1 DEF Written
  <2>4. ~Committed(n)'
    BY <1>7, <1>12, <1>6 DEF Committed
  <2>5. \A t \in 1..n : \/ linked'[journals'[t].path] = t
                        \/ ~Committed(t)' /\ linked'[journals'[t].path] = 0
    <3>1. \A t \in 1..Last : linked'[journals'[t].path] = t
      BY <1>7, <1>8, <1>11
    <3>2. linked'[journals'[n].path] = 0
      BY <1>7, <1>8, <1>10
    <3> QED
      BY <1>9, <2>4, <3>1, <3>2
  <2>6. \A d \in Paths : linked'[d] # 0 => \E t \in 1..n : journals'[t].path = d
    BY <1>1, <1>7, <1>8, <1>9 DEF Written
  <2> QED
    BY <1>6, <1>7, <1>8, <1>11, <1>12, <2>2, <2>3, <2>5, <2>6 DEF Written
<1>14. Shown'
  BY <1>1, <1>6, <1>7, <1>8, <1>9, <1>10, <1>11, <1>12 DEF Shown, TypeOK
<1>15. TypeOK'
  <2>1. linked' \in [Paths -> 0..n] /\ checkpoint' \in 0..n /\ n <= Capacity
    BY <1>1, <1>5, <1>6, <1>8, CapacityAssumption DEF TypeOK
  <2>2. SUBSET (1..Last) \subseteq SUBSET (1..n)
    BY <1>9
  <2> QED
    BY <1>1, <1>2, <1>4, <1>7, <1>8, <2>1, <2>2 DEF TypeOK, birth, told, Directories
<1>16. Born'
  BY <1>1, <1>2 DEF Born, birth, Idle
<1>17. stage[n] = [place |-> "parent", items |-> Required(e)]
  BY <1>1, <1>2, <1>6 DEF StagesFit
<1>18. StagesFit'
  <2>1. \A t \in 1..Last : StageIsLawful(t)'
    <3>1. TAKE t \in 1..Last
    <3>2. stage[t].place = "none" /\ StageIsLawful(t)
      BY <1>1, <1>5, <3>1 DEF Staged, StagesFit
    <3> QED
      BY <1>8, <1>12, <3>2 DEF StageIsLawful
  <2>2. n \notin claimed /\ n \notin closed
    BY <1>1, <1>9 DEF TypeOK
  <2>3. StageIsLawful(n)'
    <3>1. /\ stage'[n].place = "parent" /\ stage'[n].items = Required(journals'[n])
          /\ n \notin claimed' /\ n \notin closed'
      BY <1>7, <1>8, <1>17, <2>2
    <3> QED
      BY <3>1 DEF StageIsLawful
  <2>4. \A t \in claimed : Committed(t)'
    BY <1>1, <1>12 DEF TypeOK
  <2>5. \A t \in Tokens : t > n => stage'[t] = NoStage
    BY <1>1, <1>2, <1>6, <1>8 DEF StagesFit, Tokens
  <2> QED
    <3>1. \A t \in 1..n : StageIsLawful(t)'
      BY <1>9, <2>1, <2>3
    <3>2. closed' \subseteq claimed' /\ \A t \in claimed' : Committed(t)'
      BY <1>1, <1>8, <2>4 DEF StagesFit
    <3> QED
      BY <1>4, <1>7, <2>5, <3>1, <3>2 DEF StagesFit
<1>19. SessionFits'
  BY <1>4, <1>6, <1>7, <1>8, <1>9, <1>11, <1>12 DEF SessionFits, Publishing, Cleaning
<1>20. Durable'
  <2>1. n \notin closed
    BY <1>1, <1>9 DEF TypeOK
  <2>2. "staging" \notin dirty'
    BY <1>1, <1>2, <1>5 DEF Durable
  <2> QED
    BY <1>4, <1>7, <1>8, <2>1, <2>2 DEF Durable, Cleaning
<1> QED
  BY <1>13, <1>14, <1>15, <1>16, <1>18, <1>19, <1>20 DEF ArtifactInv

\* What holds of a transaction that is on its way.
LEMMA OnItsWay ==
  ASSUME ArtifactInv, session.step \in Publishing
  PROVE  /\ Pending /\ Last > 0 /\ Last \in 1..Last /\ Last \in Nat
         /\ journals[Last] \in Entries /\ journals[Last].path \in Paths
         /\ stage[Last].items = Required(journals[Last]) /\ stage[Last].place = "parent"
         /\ Last \in Staged /\ Last \notin claimed /\ Last \notin closed
         /\ checkpoint = Last - 1 /\ ~Committed(Last) /\ linked[Manifest] = 0
         /\ session # Idle /\ root # Nobody
         /\ \A t \in 1..Last : t # Last => Committed(t) /\ IsFile(t)
<1>1. TypeOK /\ Born /\ Written /\ Shown /\ StagesFit /\ SessionFits /\ Durable
  BY DEF ArtifactInv
<1>2. Pending
  BY <1>1 DEF SessionFits
<1>3. Last > 0 /\ Last \in 1..Last /\ Last \in Nat
  BY <1>1, <1>2, LastTypes DEF Pending
<1>4. ~Committed(Last) /\ \A t \in 1..Last : t # Last => Committed(t) /\ IsFile(t)
  BY <1>1, <1>2, <1>3 DEF Committed, Written
<1>5. checkpoint = Last - 1
  BY <1>1, <1>2, <1>3 DEF Written
<1>6. linked[Manifest] = 0
  <2>1. CASE IsFile(Last)
    BY <1>1, <1>4, <2>1 DEF Written, Paths, IsFile
  <2>2. CASE ~IsFile(Last)
    BY <1>2, <2>2 DEF Pending
  <2> QED
    BY <2>1, <2>2
<1>7. session # Idle /\ root # Nobody
  BY <1>1 DEF Idle, Publishing, Born
<1> QED
  BY <1>1, <1>2, <1>3, <1>4, <1>5, <1>6, <1>7, LastTypes, PendingStage

LEMMA PublishJournalInv == ASSUME ArtifactInv, PublishJournal PROVE ArtifactInv'
<1>1. TypeOK /\ Born /\ Written /\ Shown /\ StagesFit /\ SessionFits /\ Durable
  BY DEF ArtifactInv
<1> DEFINE owed == IF session.op = "resume" THEN TreeDirectories ELSE {"protocol"}
<1>2. /\ session.step = "journal" /\ visible' = visible \cup {Last}
      /\ dirty' = dirty \cup {"protocol"} /\ GoOn("vouch", owed)
      /\ UNCHANGED <<birth, record, linked, checkpoint, stage, told>>
  BY DEF PublishJournal, At, Touch
<1>3. session \in Sessions
  BY <1>1 DEF TypeOK
<1>4. /\ session' \in Sessions /\ session'.op = session.op /\ session'.step = "vouch"
      /\ session'.entry = session.entry
  BY <1>2, <1>3, GoOnFields DEF Steps, Publishing, Directories, TreeDirectories
<1>5. /\ Pending /\ Last \in 1..Last /\ Last \in Nat /\ Last \notin closed
      /\ Last \notin visible /\ root # Nobody
  BY <1>1, <1>2, OnItsWay DEF Publishing, SessionFits
<1>6. /\ journals' = journals /\ Last' = Last /\ linked' = linked /\ checkpoint' = checkpoint
      /\ published' = published /\ claimed' = claimed /\ closed' = closed /\ stage' = stage
      /\ \A t : IsFile(t)' = IsFile(t)
  BY <1>2 DEF record, Last, IsFile
<1>7. Pending' = Pending /\ Finalized' = Finalized /\ \A t : Committed(t)' = Committed(t)
  BY <1>6 DEF Pending, Committed, Finalized
<1>8. visible' = 1..Last
  BY <1>1, <1>2, <1>5 DEF Shown
<1>9. TypeOK'
  BY <1>1, <1>2, <1>4, <1>6, <1>8 DEF TypeOK, birth, told, Directories, TreeDirectories
<1>10. Born'
  BY <1>1, <1>2, <1>5 DEF Born, birth
<1>11. Written'
  BY <1>1, <1>6, <1>7 DEF Written
<1>12. Shown'
  BY <1>6, <1>8, <1>5 DEF Shown
<1>13. StagesFit'
  BY <1>1, <1>2, <1>4, <1>6, <1>7 DEF StagesFit, StageIsLawful
<1>14. SessionFits'
  BY <1>1, <1>2, <1>4, <1>5, <1>6, <1>7, <1>8 DEF SessionFits, Publishing, Cleaning
<1>15. Staged' = Staged
  BY <1>6 DEF Staged
<1>16. Durable'
  BY <1>1, <1>2, <1>4, <1>5, <1>6, <1>15 DEF Durable, Cleaning
<1> QED
  BY <1>9, <1>10, <1>11, <1>12, <1>13, <1>14, <1>16 DEF ArtifactInv

LEMMA PublishedInv == ASSUME ArtifactInv, Published PROVE ArtifactInv'
<1>1. TypeOK /\ Born /\ Written /\ Shown /\ StagesFit /\ SessionFits /\ Durable
  BY DEF ArtifactInv
<1>2. /\ session.step = "vouch" /\ published' = published \cup {Last}
      /\ dirty' = dirty \cup {"anchor"} /\ GoOn(AfterVouch, {"anchor"})
      /\ UNCHANGED <<birth, journals, claimed, closed, tree, stage, told>>
  BY DEF Published, At, Touch
<1>3. session \in Sessions /\ AfterVouch \in {"file", "checkpoint"}
  BY <1>1 DEF TypeOK, AfterVouch
<1>4. /\ session' \in Sessions /\ session'.op = session.op /\ session'.step = AfterVouch
      /\ session'.entry = session.entry
  BY <1>2, <1>3, GoOnFields DEF Steps, Publishing, Directories
<1>5. /\ Pending /\ Last \in 1..Last /\ Last \notin closed /\ Last \in visible /\ root # Nobody
  BY <1>1, <1>2, OnItsWay DEF Publishing, SessionFits
<1>6. /\ journals' = journals /\ Last' = Last /\ visible' = visible /\ linked' = linked
      /\ checkpoint' = checkpoint /\ claimed' = claimed /\ closed' = closed /\ stage' = stage
      /\ \A t : IsFile(t)' = IsFile(t)
  BY <1>2 DEF tree, Last, IsFile
<1>7. Pending' = Pending /\ Finalized' = Finalized /\ \A t : Committed(t)' = Committed(t)
  BY <1>6 DEF Pending, Committed, Finalized
<1>8. AfterVouch = "checkpoint" => IsFile(Last) /\ linked[journals[Last].path] = Last
  BY <1>1, <1>5 DEF AfterVouch, Written, Pending, IsFile
<1>9. AfterVouch = "file" => linked[journals[Last].path] = 0
  BY DEF AfterVouch
<1>10. TypeOK'
  BY <1>1, <1>2, <1>4, <1>5, <1>6 DEF TypeOK, birth, told, Directories
<1>11. Born'
  BY <1>1, <1>2, <1>5 DEF Born, birth
<1>12. Written'
  BY <1>1, <1>6, <1>7 DEF Written
<1>13. Shown'
  BY <1>1, <1>5, <1>6 DEF Shown
<1>14. StagesFit'
  BY <1>1, <1>2, <1>3, <1>4, <1>6, <1>7 DEF StagesFit, StageIsLawful
<1>15. SessionFits'
  BY <1>1, <1>2, <1>3, <1>4, <1>5, <1>6, <1>7, <1>8, <1>9
     DEF SessionFits, Publishing, Cleaning
<1>16. Staged' = Staged
  BY <1>6 DEF Staged
<1>17. Durable'
  BY <1>1, <1>2, <1>3, <1>4, <1>5, <1>6, <1>16 DEF Durable, Cleaning
<1> QED
  BY <1>10, <1>11, <1>12, <1>13, <1>14, <1>15, <1>17 DEF ArtifactInv

\* A link commits a manifest, and leaves a file to the checkpoint.
LEMMA PublishFileInv == ASSUME ArtifactInv, PublishFile PROVE ArtifactInv'
<1>1. TypeOK /\ Born /\ Written /\ Shown /\ StagesFit /\ SessionFits /\ Durable
  BY DEF ArtifactInv
<1> PICK path : path = journals[Last].path
  OBVIOUS
<1>2. /\ session.step = "file" /\ linked[path] = 0
      /\ linked' = [linked EXCEPT ![path] = Last] /\ dirty' = dirty \cup {DirectoryOf(path)}
      /\ IF path = Manifest THEN GoOn("clean", TreeDirectories)
                            ELSE GoOn("checkpoint", {"files"})
      /\ UNCHANGED <<birth, record, visible, checkpoint, stage, told>>
  BY DEF PublishFile, At, Touch
<1>3. session \in Sessions
  BY <1>1 DEF TypeOK
<1>4. /\ session' \in Sessions /\ session'.op = session.op
      /\ session'.step = IF path = Manifest THEN "clean" ELSE "checkpoint"
      /\ session'.entry = session.entry
      /\ session'.owed = IF path = Manifest THEN TreeDirectories ELSE {"files"}
  BY <1>2, <1>3, GoOnFields DEF Steps, Publishing, Cleaning, Directories, TreeDirectories
<1>5. /\ Pending /\ Last > 0 /\ Last \in 1..Last /\ Last \in Nat /\ path \in Paths
      /\ Last \notin closed /\ Last \in visible /\ root # Nobody /\ checkpoint = Last - 1
      /\ linked[Manifest] = 0
      /\ \A t \in 1..Last : t # Last => Committed(t) /\ IsFile(t)
  BY <1>1, <1>2, OnItsWay DEF Publishing, SessionFits
<1>6. /\ journals' = journals /\ Last' = Last /\ visible' = visible
      /\ published' = published /\ checkpoint' = checkpoint
      /\ claimed' = claimed /\ closed' = closed /\ stage' = stage
      /\ \A t : IsFile(t)' = IsFile(t)
  BY <1>2 DEF record, Last, IsFile
<1>7. /\ linked'[path] = Last /\ linked' \in [Paths -> 0..Last]
      /\ \A d \in Paths : d # path => linked'[d] = linked[d]
  BY <1>1, <1>2, <1>5 DEF TypeOK
<1>8. IsFile(Last) <=> path # Manifest
  BY DEF IsFile
<1>9. Pending' <=> path # Manifest
  BY <1>5, <1>6, <1>7, <1>8 DEF Pending
<1>10. \A t \in 1..Last : Committed(t) => Committed(t)'
  BY <1>5, <1>6 DEF Committed
<1>11. Written'
  <2>1. \A t \in 1..Last : t # Last => linked'[journals[t].path] = t
    <3>1. TAKE t \in 1..Last
    <3>2. HAVE t # Last
    <3>3. journals[t].path # path /\ journals[t].path \in Paths
      BY <1>1, <1>5, <3>1, <3>2, LastTypes DEF Written
    <3>4. linked[journals[t].path] = t
      BY <1>1, <1>5, <3>1, <3>2 DEF Written
    <3> QED
      BY <1>7, <3>3, <3>4
  <2>2. \A d \in Paths : linked'[d] # 0 => \E t \in 1..Last : journals[t].path = d
    BY <1>1, <1>5, <1>7 DEF Written
  <2>3. checkpoint' = IF Last > 0 /\ (~IsFile(Last) \/ Pending') THEN Last - 1 ELSE Last
    BY <1>5, <1>6, <1>8, <1>9
  <2> QED
    BY <1>1, <1>6, <1>7, <2>1, <2>2, <2>3 DEF Written
<1>12. Shown'
  BY <1>1, <1>5, <1>6 DEF Shown
<1>13. TypeOK'
  BY <1>1, <1>2, <1>4, <1>5, <1>6, <1>7
     DEF TypeOK, birth, told, Directories, TreeDirectories, DirectoryOf
<1>14. Born'
  BY <1>1, <1>2, <1>5 DEF Born, birth
<1>15. StagesFit'
  <2>1. \A t \in 1..Last : StageIsLawful(t)'
    BY <1>1, <1>6, <1>10 DEF StagesFit, StageIsLawful
  <2>2. \A t \in claimed : Committed(t)'
    BY <1>1, <1>10 DEF StagesFit, TypeOK
  <2> QED
    BY <1>1, <1>2, <1>4, <1>6, <2>1, <2>2 DEF StagesFit
<1>16. Staged' = Staged
  BY <1>6 DEF Staged
<1>17. SessionFits'
  BY <1>1, <1>2, <1>4, <1>5, <1>6, <1>7, <1>8, <1>9 DEF SessionFits, Publishing, Cleaning
<1>18. Durable'
  <2>1. dirty' \cap TreeDirectories \subseteq TreeDirectories
    OBVIOUS
  <2>2. "staging" \in dirty' => "staging" \in dirty
    BY <1>2 DEF DirectoryOf
  <2> QED
    BY <1>1, <1>4, <1>5, <1>6, <1>16, <2>1, <2>2 DEF Durable, Cleaning
<1> QED
  BY <1>11, <1>12, <1>13, <1>14, <1>15, <1>17, <1>18 DEF ArtifactInv

LEMMA ReplaceCheckpointInv == ASSUME ArtifactInv, ReplaceCheckpoint PROVE ArtifactInv'
<1>1. TypeOK /\ Born /\ Written /\ Shown /\ StagesFit /\ SessionFits /\ Durable
  BY DEF ArtifactInv
<1>2. /\ session.step = "checkpoint" /\ checkpoint' = Last
      /\ stage' = [stage EXCEPT ![Last].items = @ \ {"checkpoint"}]
      /\ dirty' = dirty \cup {"root", "staging"}
      /\ GoOn("clean", TreeDirectories \cup {"staging"})
      /\ UNCHANGED <<birth, record, visible, linked, told>>
  BY DEF ReplaceCheckpoint, At, Touch
<1>3. session \in Sessions
  BY <1>1 DEF TypeOK
<1>4. /\ session' \in Sessions /\ session'.op = session.op /\ session'.step = "clean"
      /\ session'.entry = session.entry /\ session'.owed = TreeDirectories \cup {"staging"}
  BY <1>2, <1>3, GoOnFields DEF Steps, Cleaning, Directories, TreeDirectories
<1>5. /\ Pending /\ Last > 0 /\ Last \in 1..Last /\ Last \in Nat
      /\ Last \notin closed /\ Last \notin claimed /\ Last \in visible /\ root # Nobody
      /\ IsFile(Last) /\ linked[journals[Last].path] = Last
      /\ stage[Last].items = Required(journals[Last]) /\ stage[Last].place = "parent"
      /\ \A t \in 1..Last : t # Last => Committed(t) /\ IsFile(t)
  BY <1>1, <1>2, OnItsWay DEF Publishing, SessionFits
<1>6. /\ journals' = journals /\ Last' = Last /\ visible' = visible
      /\ published' = published /\ linked' = linked
      /\ claimed' = claimed /\ closed' = closed
      /\ \A t : IsFile(t)' = IsFile(t)
  BY <1>2 DEF record, Last, IsFile
<1>7. ~Pending' /\ \A t : Committed(t)'
  BY <1>2, <1>5, <1>6 DEF Pending, Committed
<1>8. Last \in Tokens
  BY <1>1, <1>5, LastTypes
<1>9. /\ stage'[Last].place = "parent"
      /\ stage'[Last].items = Required(journals[Last]) \ {"checkpoint"}
      /\ stage' \in [Tokens -> [place : Places, items : SUBSET Items]]
      /\ \A t \in Tokens : t # Last => stage'[t] = stage[t]
  BY <1>1, <1>2, <1>5, <1>8 DEF TypeOK
<1>10. Written'
  <2>1. \A t \in 1..Last : linked[journals[t].path] = t
    BY <1>1, <1>5 DEF Written
  <2> QED
    BY <1>1, <1>2, <1>5, <1>6, <1>7, <2>1 DEF Written
<1>11. Shown'
  BY <1>1, <1>5, <1>6 DEF Shown
<1>12. TypeOK'
  BY <1>1, <1>2, <1>4, <1>5, <1>6, <1>9
     DEF TypeOK, birth, told, Directories, TreeDirectories
<1>13. Born'
  BY <1>1, <1>2, <1>5 DEF Born, birth
<1>14. StagesFit'
  <2>2. \A t \in 1..Last : t # Last => StageIsLawful(t)'
    BY <1>1, <1>6, <1>7, <1>9, LastTypes DEF StagesFit, StageIsLawful
  <2>3. \A t \in 1..Last : StageIsLawful(t)'
    BY <1>5, <1>6, <1>7, <1>9, <2>2 DEF StageIsLawful
  <2> QED
    BY <1>1, <1>2, <1>4, <1>5, <1>6, <1>7, <1>9, <2>3 DEF StagesFit
<1>15. Last \in Staged'
  BY <1>5, <1>6, <1>9 DEF Staged
<1>16. SessionFits'
  BY <1>1, <1>2, <1>4, <1>5, <1>6, <1>7 DEF SessionFits, Publishing, Cleaning
<1>17. Durable'
  BY <1>4, <1>5, <1>6, <1>15 DEF Durable
<1> QED
  BY <1>10, <1>11, <1>12, <1>13, <1>14, <1>16, <1>17 DEF ArtifactInv

-----------------------------------------------------------------------------
(* Cleaning up, behind the commit point.                                   *)

\* A step that cleans the oldest stage changes the record's claims or that stage only;
\* what the artifact says of its files stays.
LEMMA CleaningKeeps ==
  ASSUME ArtifactInv, session.step \in {"clean", "close", "empty"},
         UNCHANGED <<birth, journals, published, tree, told>>,
         NEW t \in Tokens, Oldest(t)
  PROVE  /\ ~Pending /\ ~Pending' /\ Last' = Last /\ root # Nobody /\ session # Idle
         /\ t \in 1..Last /\ stage[t].place \in {"parent", "quarantine"}
         /\ StageIsLawful(t)
         /\ Written' /\ Shown' /\ Finalized' = Finalized
         /\ \A u : Committed(u) /\ Committed(u)' /\ IsFile(u)' = IsFile(u)
<1>1. TypeOK /\ Born /\ Written /\ Shown /\ StagesFit /\ SessionFits
  BY DEF ArtifactInv
<1>2. /\ journals' = journals /\ Last' = Last /\ visible' = visible /\ linked' = linked
      /\ published' = published /\ checkpoint' = checkpoint
      /\ \A u : IsFile(u)' = IsFile(u)
  BY DEF tree, Last, IsFile
<1>3. ~Pending /\ ~Pending'
  BY <1>1, <1>2 DEF SessionFits, Cleaning, Pending
<1>4. \A u : Committed(u) /\ Committed(u)'
  BY <1>3 DEF Committed
<1>5. Written' /\ Shown'
  BY <1>1, <1>2, <1>3, <1>4 DEF Written, Shown
<1>6. t \in 1..Last /\ stage[t].place # "none"
  BY DEF Oldest, Staged
<1>7. stage[t].place \in {"parent", "quarantine"}
  BY <1>1, <1>6 DEF TypeOK, Places
<1> QED
  BY <1>1, <1>2, <1>3, <1>4, <1>5, <1>6, <1>7 DEF Born, Idle, StagesFit, Finalized

LEMMA ClaimInv == ASSUME ArtifactInv, NEW t \in Tokens, Claim(t) PROVE ArtifactInv'
<1>1. TypeOK /\ Born /\ Written /\ Shown /\ StagesFit /\ SessionFits /\ Durable
  BY DEF ArtifactInv
<1>2. /\ session.step = "clean" /\ session.owed = {} /\ Oldest(t)
      /\ claimed' = claimed \cup {t} /\ dirty' = dirty \cup {"anchor"}
      /\ GoOn("clean", {"anchor"})
      /\ UNCHANGED <<birth, journals, published, closed, tree, stage, told>>
  BY DEF Claim, At, Touch
<1>3. session \in Sessions
  BY <1>1 DEF TypeOK
<1>4. /\ session' \in Sessions /\ session'.op = session.op /\ session'.step = "clean"
      /\ session'.entry = session.entry /\ session'.owed = {"anchor"}
  BY <1>2, <1>3, GoOnFields DEF Steps, Cleaning, Directories
<1>5. /\ ~Pending' /\ Last' = Last /\ root # Nobody /\ t \in 1..Last
      /\ stage[t].place \in {"parent", "quarantine"} /\ Written' /\ Shown'
      /\ \A u : Committed(u)'
  BY <1>2, CleaningKeeps
<1>6. TypeOK'
  BY <1>1, <1>2, <1>4, <1>5 DEF TypeOK, birth, tree, told, Directories
<1>7. Born'
  BY <1>1, <1>2, <1>5 DEF Born, birth
<1>8. \A u \in 1..Last : StageIsLawful(u)'
  <2>1. SUFFICES ASSUME NEW u \in 1..Last PROVE StageIsLawful(u)'
    OBVIOUS
  <2>2. StageIsLawful(u)
    BY <1>1 DEF StagesFit
  <2>3. CASE u = t
    BY <1>2, <1>5, <2>2, <2>3 DEF StageIsLawful
  <2>4. CASE u # t
    BY <1>2, <1>5, <2>2, <2>4 DEF StageIsLawful
  <2> QED
    BY <2>3, <2>4
<1>9. StagesFit'
  BY <1>1, <1>2, <1>4, <1>5, <1>8 DEF StagesFit
<1>10. Staged' = Staged
  BY <1>2, <1>5 DEF Staged
<1>11. SessionFits'
  BY <1>1, <1>2, <1>4, <1>5 DEF SessionFits, Publishing, Cleaning
<1>12. Durable'
  BY <1>1, <1>2, <1>4, <1>5, <1>10 DEF Durable, Cleaning, TreeDirectories
<1> QED
  BY <1>5, <1>6, <1>7, <1>9, <1>11, <1>12 DEF ArtifactInv

\* Move, Empty and RemoveStage change one stage; it is still lawful and of its type.
LEMMA StageChanges ==
  ASSUME ArtifactInv, session.step \in {"clean", "close", "empty"},
         UNCHANGED <<birth, record, tree, told>>,
         NEW t \in Tokens, Oldest(t),
         NEW s \in [place : Places, items : SUBSET Items],
         stage' = [stage EXCEPT ![t] = s],
         session'.step \in Cleaning, dirty' \in SUBSET Directories, session' \in Sessions,
         StageIsLawful(t)', SessionFits', Durable'
  PROVE  ArtifactInv'
<1>1. TypeOK /\ Born /\ Written /\ Shown /\ StagesFit
  BY DEF ArtifactInv
<1>2. /\ ~Pending' /\ Last' = Last /\ root # Nobody /\ t \in 1..Last
      /\ Written' /\ Shown' /\ \A u : Committed(u) /\ Committed(u)'
  BY CleaningKeeps DEF record
<1>3. /\ journals' = journals /\ claimed' = claimed /\ closed' = closed
      /\ published' = published /\ visible' = visible /\ linked' = linked
      /\ checkpoint' = checkpoint
  BY DEF record, tree
<1>4. /\ stage' \in [Tokens -> [place : Places, items : SUBSET Items]]
      /\ \A u \in Tokens : u # t => stage'[u] = stage[u]
  BY <1>1 DEF TypeOK
<1>5. TypeOK'
  BY <1>1, <1>2, <1>3, <1>4 DEF TypeOK, birth, told
<1>6. Born'
  BY <1>1, <1>2, <1>3 DEF Born, birth, Cleaning, Idle
<1>7. \A u \in 1..Last : StageIsLawful(u)'
  <2>1. SUFFICES ASSUME NEW u \in 1..Last, u # t PROVE StageIsLawful(u)'
    OBVIOUS
  <2>2. StageIsLawful(u) /\ u \in Tokens
    BY <1>1, LastTypes DEF StagesFit
  <2> QED
    BY <1>2, <1>3, <1>4, <2>1, <2>2 DEF StageIsLawful
<1>8. \A u \in Tokens : u > Last => stage'[u] = NoStage
  <2>1. SUFFICES ASSUME NEW u \in Tokens, u > Last PROVE stage'[u] = NoStage
    OBVIOUS
  <2>2. u # t
    BY <1>1, <1>2, <2>1, LastTypes DEF Tokens
  <2> QED
    BY <1>1, <1>4, <2>1, <2>2 DEF StagesFit
<1>9. session'.step # "remember"
  BY DEF Cleaning
<1>10. StagesFit'
  BY <1>1, <1>2, <1>3, <1>7, <1>8, <1>9 DEF StagesFit
<1> QED
  BY <1>2, <1>5, <1>6, <1>10 DEF ArtifactInv

LEMMA MoveInv == ASSUME ArtifactInv, NEW t \in Tokens, Move(t) PROVE ArtifactInv'
<1>1. TypeOK /\ Written /\ StagesFit /\ SessionFits /\ Durable
  BY DEF ArtifactInv
<1> DEFINE next == IF t \in closed THEN "empty" ELSE "close"
           s == [stage[t] EXCEPT !.place = "quarantine"]
<1>2. /\ session.step = "clean" /\ session.owed = {} /\ Oldest(t) /\ t \in claimed
      /\ stage' = [stage EXCEPT ![t] = s]
      /\ dirty' \in SUBSET (dirty \cup {"parent", "quarantine"})
      /\ GoOn(next, {"parent", "quarantine"})
      /\ UNCHANGED <<birth, record, tree, told>>
  BY DEF Move, At
<1>3. session \in Sessions
  BY <1>1 DEF TypeOK
<1>4. /\ session' \in Sessions /\ session'.op = session.op /\ session'.step = next
      /\ session'.entry = session.entry /\ session'.owed = {"parent", "quarantine"}
  BY <1>2, <1>3, GoOnFields DEF Steps, Cleaning, Directories, TreeDirectories
<1>5. /\ ~Pending' /\ Last' = Last /\ t \in 1..Last /\ StageIsLawful(t)
      /\ stage[t].place \in {"parent", "quarantine"} /\ \A u : Committed(u)'
  BY <1>2, CleaningKeeps DEF record
<1>6. journals' = journals /\ claimed' = claimed /\ closed' = closed
  BY <1>2 DEF record
<1>7. /\ s \in [place : Places, items : SUBSET Items] /\ stage'[t] = s
      /\ s.place = "quarantine" /\ s.items = stage[t].items
      /\ \A u \in Tokens : u # t => stage'[u] = stage[u]
  BY <1>1, <1>2 DEF TypeOK, Places
<1> HIDE DEF s
<1>8. StageIsLawful(t)'
  BY <1>2, <1>5, <1>6, <1>7 DEF StageIsLawful
<1>9. Staged' = Staged
  <2>1. \A u \in 1..Last : stage'[u].place # "none" <=> stage[u].place # "none"
    BY <1>1, <1>5, <1>7, LastTypes
  <2> QED
    BY <1>5, <2>1 DEF Staged
<1>10. \A u \in 1..Last : Oldest(u)' => u = t
  <2>1. \A u : Oldest(u)' <=> Oldest(u)
    BY <1>9 DEF Oldest
  <2>2. SUFFICES ASSUME NEW u \in 1..Last, Oldest(u) PROVE u = t
    BY <2>1
  <2>3. u \in Staged /\ t \in Staged /\ u <= t /\ t <= u /\ u \in Nat /\ t \in Nat
    BY <1>1, <1>2, <1>5, <2>2, LastTypes DEF Oldest
  <2> QED
    BY <2>3
<1>11. SessionFits'
  BY <1>1, <1>2, <1>4, <1>5, <1>6, <1>7, <1>10 DEF SessionFits, Publishing, Cleaning
<1>12. dirty' \in SUBSET Directories
  BY <1>1, <1>2 DEF TypeOK, Directories, TreeDirectories
<1>13. Durable'
  BY <1>1, <1>2, <1>4, <1>5, <1>6, <1>9 DEF Durable, Cleaning, TreeDirectories
<1>14. session'.step \in Cleaning
  BY <1>4 DEF Cleaning
<1> QED
  BY <1>2, <1>4, <1>7, <1>8, <1>11, <1>12, <1>13, <1>14, StageChanges

LEMMA CloseInv == ASSUME ArtifactInv, NEW t \in Tokens, Close(t) PROVE ArtifactInv'
<1>1. TypeOK /\ Born /\ Written /\ Shown /\ StagesFit /\ SessionFits /\ Durable
  BY DEF ArtifactInv
<1>2. /\ session.step = "close" /\ session.owed = {} /\ Oldest(t)
      /\ closed' = closed \cup {t} /\ dirty' = dirty \cup {"anchor"}
      /\ GoOn("empty", {"anchor"})
      /\ UNCHANGED <<birth, journals, published, claimed, tree, stage, told>>
  BY DEF Close, At, Touch
<1>3. session \in Sessions
  BY <1>1 DEF TypeOK
<1>4. /\ session' \in Sessions /\ session'.op = session.op /\ session'.step = "empty"
      /\ session'.entry = session.entry /\ session'.owed = {"anchor"}
  BY <1>2, <1>3, GoOnFields DEF Steps, Cleaning, Directories
<1>5. /\ ~Pending' /\ Last' = Last /\ root # Nobody /\ t \in 1..Last
      /\ Written' /\ Shown' /\ \A u : Committed(u)'
  BY <1>2, CleaningKeeps
<1>6. t \in claimed /\ stage[t].place = "quarantine"
  BY <1>1, <1>2, <1>5 DEF SessionFits
<1>7. TypeOK'
  BY <1>1, <1>2, <1>4, <1>5 DEF TypeOK, birth, tree, told, Directories
<1>8. Born'
  BY <1>1, <1>2, <1>5 DEF Born, birth
<1>9. \A u \in 1..Last : StageIsLawful(u)'
  <2>1. SUFFICES ASSUME NEW u \in 1..Last PROVE StageIsLawful(u)'
    OBVIOUS
  <2>2. StageIsLawful(u)
    BY <1>1 DEF StagesFit
  <2>3. CASE u = t
    BY <1>2, <1>5, <1>6, <2>2, <2>3 DEF StageIsLawful
  <2>4. CASE u # t
    BY <1>2, <1>5, <2>2, <2>4 DEF StageIsLawful
  <2> QED
    BY <2>3, <2>4
<1>10. StagesFit'
  BY <1>1, <1>2, <1>4, <1>5, <1>6, <1>9 DEF StagesFit
<1>11. Staged' = Staged
  BY <1>2, <1>5 DEF Staged
<1>12. \A u \in 1..Last : Oldest(u)' => u = t
  <2>1. SUFFICES ASSUME NEW u \in 1..Last, Oldest(u) PROVE u = t
    BY <1>11 DEF Oldest
  <2>2. u \in Staged /\ t \in Staged /\ u <= t /\ t <= u /\ u \in Nat /\ t \in Nat
    BY <1>1, <1>2, <1>5, <2>1, LastTypes DEF Oldest
  <2> QED
    BY <2>2
<1>13. SessionFits'
  BY <1>1, <1>2, <1>4, <1>5, <1>6, <1>12 DEF SessionFits, Publishing, Cleaning
<1>14. dirty \cap TreeDirectories = {}
  BY <1>1, <1>2 DEF Durable, Cleaning
<1>15. Durable'
  BY <1>1, <1>2, <1>4, <1>5, <1>11, <1>14 DEF Durable, Cleaning, TreeDirectories
<1> QED
  BY <1>5, <1>7, <1>8, <1>10, <1>13, <1>15 DEF ArtifactInv

LEMMA EmptyInv == ASSUME ArtifactInv, NEW t \in Tokens, Empty(t) PROVE ArtifactInv'
<1>1. TypeOK /\ Written /\ StagesFit /\ SessionFits /\ Durable
  BY DEF ArtifactInv
<1>2. PICK i \in stage[t].items : stage' = [stage EXCEPT ![t].items = @ \ {i}]
  BY DEF Empty
<1> DEFINE s == [stage[t] EXCEPT !.items = @ \ {i}]
<1>3. /\ session.step = "empty" /\ session.owed = {} /\ Oldest(t)
      /\ stage' = [stage EXCEPT ![t] = s]
      /\ dirty' = dirty \cup {"staging"} /\ GoOn("empty", {"staging"})
      /\ UNCHANGED <<birth, record, tree, told>>
  BY <1>2 DEF Empty, At, Touch
<1>4. session \in Sessions
  BY <1>1 DEF TypeOK
<1>5. /\ session' \in Sessions /\ session'.op = session.op /\ session'.step = "empty"
      /\ session'.entry = session.entry /\ session'.owed = {"staging"}
  BY <1>3, <1>4, GoOnFields DEF Steps, Cleaning, Directories
<1>6. /\ ~Pending' /\ Last' = Last /\ t \in 1..Last /\ StageIsLawful(t)
      /\ \A u : Committed(u)'
  BY <1>3, CleaningKeeps DEF record
<1>7. journals' = journals /\ claimed' = claimed /\ closed' = closed
  BY <1>3 DEF record
<1>8. /\ s \in [place : Places, items : SUBSET Items] /\ stage'[t] = s
      /\ s.place = stage[t].place /\ s.items \subseteq stage[t].items
      /\ \A u \in Tokens : u # t => stage'[u] = stage[u]
  BY <1>1, <1>3 DEF TypeOK
<1> HIDE DEF s
<1>9. StageIsLawful(t)'
  BY <1>3, <1>6, <1>7, <1>8 DEF StageIsLawful
<1>10. \A u \in 1..Last : stage'[u].place = stage[u].place
  BY <1>1, <1>6, <1>8, LastTypes
<1>11. Staged' = Staged /\ t \in Staged
  BY <1>3, <1>6, <1>10 DEF Staged, Oldest
<1>12. SessionFits'
  BY <1>1, <1>3, <1>5, <1>6, <1>7, <1>10, <1>11
     DEF SessionFits, Publishing, Cleaning, Oldest
<1>13. dirty' \in SUBSET Directories
  BY <1>1, <1>3 DEF TypeOK, Directories
<1>14. Durable'
  BY <1>1, <1>3, <1>5, <1>6, <1>7, <1>11 DEF Durable, Cleaning, TreeDirectories
<1>15. session'.step \in Cleaning
  BY <1>5 DEF Cleaning
<1> QED
  BY <1>3, <1>5, <1>8, <1>9, <1>12, <1>13, <1>14, <1>15, StageChanges

LEMMA RemoveStageInv == ASSUME ArtifactInv, NEW t \in Tokens, RemoveStage(t) PROVE ArtifactInv'
<1>1. TypeOK /\ Written /\ StagesFit /\ SessionFits /\ Durable
  BY DEF ArtifactInv
<1>2. /\ session.step = "empty" /\ session.owed = {} /\ Oldest(t)
      /\ stage' = [stage EXCEPT ![t] = NoStage]
      /\ dirty' = (dirty \ {"staging"}) \cup {"quarantine"}
      /\ GoOn("clean", {"quarantine"})
      /\ UNCHANGED <<birth, record, tree, told>>
  BY DEF RemoveStage, At
<1>3. session \in Sessions
  BY <1>1 DEF TypeOK
<1>4. /\ session' \in Sessions /\ session'.op = session.op /\ session'.step = "clean"
      /\ session'.entry = session.entry /\ session'.owed = {"quarantine"}
  BY <1>2, <1>3, GoOnFields DEF Steps, Cleaning, Directories, TreeDirectories
<1>5. /\ ~Pending' /\ Last' = Last /\ t \in 1..Last /\ \A u : Committed(u)'
  BY <1>2, CleaningKeeps DEF record
<1>6. journals' = journals /\ claimed' = claimed /\ closed' = closed
  BY <1>2 DEF record
<1>7. t \in closed
  BY <1>1, <1>2, <1>5 DEF SessionFits
<1>8. stage'[t] = NoStage /\ NoStage \in [place : Places, items : SUBSET Items]
  BY <1>1, <1>2 DEF TypeOK, NoStage, Places
<1>9. StageIsLawful(t)'
  BY <1>5, <1>6, <1>7, <1>8 DEF StageIsLawful, NoStage
<1>10. SessionFits'
  BY <1>1, <1>2, <1>4, <1>5, <1>6 DEF SessionFits, Publishing, Cleaning
<1>11. dirty' \in SUBSET Directories
  BY <1>1, <1>2 DEF TypeOK, Directories, TreeDirectories
<1>12. Durable'
  BY <1>1, <1>2, <1>4, <1>5, <1>6 DEF Durable, Cleaning, TreeDirectories
<1>13. session'.step \in Cleaning
  BY <1>4 DEF Cleaning
<1> QED
  BY <1>2, <1>4, <1>8, <1>9, <1>10, <1>11, <1>12, <1>13, StageChanges

-----------------------------------------------------------------------------
(* The invariant and what follows from it.                                 *)

LEMMA NextInv == ArtifactInv /\ [Next]_vars => ArtifactInv'
<1> SUFFICES ASSUME ArtifactInv, [Next]_vars PROVE ArtifactInv'
  OBVIOUS
<1>1. CASE Create
  BY <1>1, CreateInv
<1>2. CASE \E e \in Entries : Start(e)
  BY <1>2, StartInv
<1>3. CASE Resume
  BY <1>3, ResumeInv
<1>4. CASE Progress
  BY <1>4, PrepareInv, RememberInv, PublishJournalInv, PublishedInv, PublishFileInv,
     ReplaceCheckpointInv, ClaimInv, MoveInv, CloseInv, EmptyInv, RemoveStageInv,
     FinishInv, AnswerInv, FsyncInv DEF Progress
<1>5. CASE Interrupt
  BY <1>5, InterruptInv
<1>6. CASE UNCHANGED vars
  BY <1>6 DEF vars, birth, record, tree, told, ArtifactInv, TypeOK, Born, Written, Shown,
       StagesFit, SessionFits, Durable, Pending, Committed, IsFile, Last, StageIsLawful,
       Staged, Oldest, Finalized, Completed
<1> QED
  BY <1>1, <1>2, <1>3, <1>4, <1>5, <1>6 DEF Next

\* The record, the tree, the stages and the session of an artifact fit together, however
\* often its creation, its writes and its recovery are interrupted.
THEOREM ArtifactInvariant == Spec => []ArtifactInv
BY InitInv, NextInv, PTL DEF Spec

\* The record numbers what is linked, staged and claimed, and never more than
\* _MAX_ANCHOR_TRANSACTIONS publications.
THEOREM ArtifactTypes == Spec => []TypeOK
BY ArtifactInvariant, PTL DEF ArtifactInv

\* result_artifact.py, _observe: wherever a process is killed, the artifact can be
\* observed again.
THEOREM EveryCrashIsRecoverable == Spec => []Recoverable
<1>1. ArtifactInv => Recoverable
  BY InvObserve DEF Recoverable
<1> QED
  BY <1>1, ArtifactInvariant, PTL

\* result_artifact.py, cleanup: the evidence of a transaction goes after what it vouches
\* for is durable.
THEOREM EvidenceStaysUntilDurable == Spec => []EvidenceOutlivesCommit
<1>1. ArtifactInv => EvidenceOutlivesCommit
  BY DEF ArtifactInv, Durable, EvidenceOutlivesCommit
<1> QED
  BY <1>1, ArtifactInvariant, PTL

\* What a session finds or makes in the trusted record it syncs before its next step.
RecordSynced == session # Idle /\ "anchor" \in dirty => "anchor" \in session.owed

LEMMA RecordStaysSynced ==
  ASSUME ArtifactInv, RecordSynced, [Next]_vars
  PROVE  RecordSynced'
<1>1. CASE Create
  <2>1. root = Nobody => dirty = {}
    BY DEF ArtifactInv, Born
  <2> QED
    BY <1>1, <2>1 DEF Create, CreatePrepare, CreateCommit, CreatePublish, CreateAbandon, RecordSynced
<1>2. CASE (\E e \in Entries : Start(e)) \/ Resume
  BY <1>2 DEF Start, Resume, BeginRecovery, Preflight, RecordSynced
<1>3. CASE Progress
  <2>1. CASE Prepare \/ PublishJournal \/ PublishFile \/ ReplaceCheckpoint \/ Finish
    <3>1. session # Idle /\ session.owed = {}
      BY <2>1 DEF Prepare, PublishJournal, PublishFile, ReplaceCheckpoint, Finish, At, Idle
    <3>2. "anchor" \in dirty' => "anchor" \in dirty
      BY <2>1 DEF Prepare, PublishJournal, PublishFile, ReplaceCheckpoint, Finish, Touch, DirectoryOf
    <3> QED
      BY <3>1, <3>2 DEF RecordSynced
  <2>2. CASE Remember \/ Published \/ \E t \in Tokens : Claim(t) \/ Close(t)
    <3>1. \E step \in Steps : GoOn(step, {"anchor"})
      BY <2>2 DEF Remember, Published, Claim, Close, AfterVouch, Steps, Publishing, Cleaning
    <3>2. session'.owed = {"anchor"}
      BY <3>1, GoOnFields DEF ArtifactInv, TypeOK, Directories
    <3> QED
      BY <3>2 DEF RecordSynced
  <2>3. CASE \E t \in Tokens : Move(t) \/ Empty(t) \/ RemoveStage(t)
    <3>1. session # Idle /\ session.owed = {}
      BY <2>3 DEF Move, Empty, RemoveStage, At, Idle
    <3>2. "anchor" \in dirty' => "anchor" \in dirty
      BY <2>3 DEF Move, Empty, RemoveStage, Touch
    <3> QED
      BY <3>1, <3>2 DEF RecordSynced
  <2>4. CASE Answer
    BY <2>4 DEF Answer, RecordSynced
  <2>5. CASE \E d \in Directories : Fsync(d)
    <3>1. PICK d \in Directories : Fsync(d)
      BY <2>5
    <3>2. session \in Sessions /\ session # Idle
      BY <3>1 DEF ArtifactInv, TypeOK, Fsync, Idle
    <3>3. session'.owed = session.owed \ {d} /\ dirty' = dirty \ {d}
      BY <3>1, <3>2 DEF Fsync, Sessions
    <3> QED
      BY <3>2, <3>3 DEF RecordSynced
  <2> QED
    BY <1>3, <2>1, <2>2, <2>3, <2>4, <2>5 DEF Progress
<1>4. CASE Interrupt
  BY <1>4 DEF Interrupt, RecordSynced
<1>5. CASE UNCHANGED vars
  BY <1>5 DEF vars, RecordSynced
<1> QED
  BY <1>1, <1>2, <1>3, <1>4, <1>5 DEF Next

LEMMA RecordIsSynced == Spec => []RecordSynced
<1>1. Init => RecordSynced
  BY DEF Init, RecordSynced
<1>2. ArtifactInv /\ RecordSynced /\ [Next]_vars => RecordSynced'
  BY RecordStaysSynced
<1> QED
  BY <1>1, <1>2, ArtifactInvariant, PTL DEF Spec

\* result_artifact.py, sync and _supported: success means durable, the tree and the
\* trusted record alike.
THEOREM SuccessMeansDurable == Spec => []SuccessIsDurable
<1>1. ArtifactInv /\ RecordSynced => SuccessIsDurable
  BY DEF ArtifactInv, TypeOK, Durable, SessionFits, SuccessIsDurable, At, Cleaning,
         Directories, RecordSynced, Idle
<1> QED
  BY <1>1, ArtifactInvariant, RecordIsSynced, PTL

\* docs/specs/0008-amendment-b-artifact-protocol.md: whoever publishes a journal, the
\* record that authorises it is durable.
THEOREM CommitmentComesFirst == Spec => CommitmentBeforeJournal
<1>1. ASSUME RecordSynced, [Next]_vars, visible' # visible
      PROVE  "anchor" \notin dirty
  <2>1. PublishJournal
    <3>1. ~Create /\ ~Interrupt /\ ~Resume /\ \A e \in Entries : ~Start(e)
      BY <1>1 DEF Create, CreatePrepare, CreateCommit, CreatePublish, CreateAbandon, Interrupt,
           Resume, BeginRecovery, Start, tree
    <3>2. Progress
      BY <1>1, <3>1 DEF Next, vars, tree
    <3> QED
      BY <1>1, <3>2 DEF Progress, Prepare, Remember, Published, PublishFile, ReplaceCheckpoint,
           Claim, Move, Close, Empty, RemoveStage, Finish, Answer, Fsync, tree
  <2>2. session # Idle /\ session.owed = {}
    BY <2>1 DEF PublishJournal, At, Idle
  <2> QED
    BY <1>1, <2>2 DEF RecordSynced
<1>2. RecordSynced /\ [Next]_vars => [visible' # visible => "anchor" \notin dirty]_vars
  BY <1>1
<1> QED
  BY <1>2, RecordIsSynced, PTL DEF Spec, CommitmentBeforeJournal

-----------------------------------------------------------------------------
(* The artifact implements the write-once log.                             *)

completed == SubSeq(journals, 1, checkpoint)
sealed == IF Finalized THEN journals[Last].content ELSE NoEntry

LEMMA LogInit == Init => Log!Init
<1> SUFFICES ASSUME Init PROVE Log!Init
  OBVIOUS
<1>1. SubSeq(journals, 1, checkpoint) = <<>>
  BY SubSeqEmpty DEF Init
<1>2. ~Finalized
  BY DEF Init, Finalized
<1> QED
  BY <1>1, <1>2 DEF Init, Log!Init

\* The completed files, one by one.
LEMMA CompletedFiles ==
  ASSUME ArtifactInv
  PROVE  /\ completed \in Seq(Entries) /\ Len(completed) = checkpoint
         /\ \A i \in 1..checkpoint : completed[i] = journals[i]
         /\ checkpoint \in 0..Last /\ Last \in Nat
<1>1. TypeOK
  BY DEF ArtifactInv
<1>2. checkpoint \in 0..Last /\ Last \in Nat
  BY <1>1, LastTypes DEF TypeOK
<1>3. \A i \in 1..checkpoint : journals[i] \in Entries
  BY <1>1, <1>2, LastTypes
<1>4. Len(completed) = checkpoint /\ completed \in Seq(Entries)
      /\ \A i \in 1..checkpoint : completed[i] = journals[i]
  BY <1>2, <1>3, SubSeqProperties DEF completed
<1> QED
  BY <1>2, <1>4

LEMMA AppendsEntry ==
  ASSUME ArtifactInv, Remember PROVE UNCHANGED <<completed, sealed>>
<1>1. TypeOK /\ SessionFits
  BY DEF ArtifactInv
<1>2. /\ session.step = "remember" /\ journals' = Append(journals, session.entry)
      /\ UNCHANGED tree
  BY DEF Remember, At
<1>3. ~Finalized /\ session.entry \in Entries
  BY <1>1, <1>2 DEF SessionFits
<1>4. sealed' = sealed
  BY <1>2, <1>3 DEF sealed, Finalized, tree
<1>5. journals' \in Seq(Entries) /\ Len(journals') = Last + 1
      /\ \A i \in 1..Last : journals'[i] = journals[i]
  BY <1>1, <1>2, <1>3, AppendProperties DEF TypeOK, Last
<1>6. checkpoint' = checkpoint /\ checkpoint \in 0..Last /\ Last \in Nat
  BY <1>2, CompletedFiles DEF tree
<1>7. completed' = SubSeq(journals', 1, checkpoint)
  BY <1>6 DEF completed
<1>8. completed' \in Seq(Entries) /\ Len(completed') = checkpoint
      /\ \A i \in 1..checkpoint : completed'[i] = journals'[i]
  <2>1. \A i \in 1..checkpoint : journals'[i] \in Entries
    BY <1>5, <1>6
  <2> QED
    BY <1>6, <1>7, <2>1, SubSeqProperties
<1>9. completed \in Seq(Entries) /\ Len(completed) = checkpoint
      /\ \A i \in 1..checkpoint : completed[i] = completed'[i]
  BY <1>5, <1>6, <1>8, CompletedFiles
<1>10. completed' = completed
  BY <1>8, <1>9, SeqEqual
<1> QED
  BY <1>4, <1>10

LEMMA LinksFile ==
  ASSUME ArtifactInv, PublishFile
  PROVE  \/ Log!Seal \/ UNCHANGED <<completed, sealed, acked, receipts>>
<1>1. TypeOK /\ SessionFits
  BY DEF ArtifactInv
<1> PICK path : path = journals[Last].path
  OBVIOUS
<1>2. /\ session.step = "file" /\ linked' = [linked EXCEPT ![path] = Last]
      /\ UNCHANGED <<record, checkpoint, told>>
  BY DEF PublishFile, At
<1>3. Last > 0 /\ Last \in Nat /\ linked[Manifest] = 0 /\ path \in Paths
      /\ journals[Last] \in Entries
  BY <1>2, OnItsWay DEF Publishing
<1>4. journals' = journals /\ Last' = Last /\ completed' = completed
      /\ acked' = acked /\ receipts' = receipts
  BY <1>2 DEF record, told, Last, completed
<1>5. sealed = NoEntry
  BY <1>3 DEF sealed, Finalized
<1>6. CASE path = Manifest
  <2>1. linked'[Manifest] = Last
    BY <1>1, <1>2, <1>3, <1>6 DEF TypeOK
  <2>2. sealed' = journals[Last].content /\ sealed' \in Contents
    BY <1>3, <1>4, <2>1 DEF sealed, Finalized, Entries
  <2> QED
    BY <1>4, <1>5, <2>2 DEF Log!Seal, completed, sealed
<1>7. CASE path # Manifest
  <2>1. linked'[Manifest] = 0
    BY <1>1, <1>2, <1>3, <1>7 DEF TypeOK, Paths
  <2> QED
    BY <1>4, <1>5, <2>1 DEF sealed, Finalized
<1> QED
  BY <1>6, <1>7

LEMMA CommitsFile == ASSUME ArtifactInv, ReplaceCheckpoint PROVE Log!AppendFile
<1>1. TypeOK /\ SessionFits /\ Written
  BY DEF ArtifactInv
<1>2. /\ session.step = "checkpoint" /\ checkpoint' = Last
      /\ UNCHANGED <<record, linked, told>>
  BY DEF ReplaceCheckpoint, At
<1>3. /\ Last > 0 /\ Last \in Nat /\ Last \in 1..Last /\ linked[Manifest] = 0
      /\ journals[Last] \in Entries /\ checkpoint = Last - 1 /\ IsFile(Last)
  BY <1>1, <1>2, OnItsWay DEF Publishing, SessionFits
<1>4. journals' = journals /\ linked' = linked /\ acked' = acked /\ receipts' = receipts
  BY <1>2 DEF record, told
<1>5. sealed = NoEntry /\ sealed' = NoEntry
  BY <1>3, <1>4 DEF sealed, Finalized
<1>6. PICK f \in Files, c \in Contents : journals[Last] = [path |-> f, content |-> c]
  BY <1>3 DEF Entries, IsFile
<1>7. completed \in Seq(Entries) /\ Len(completed) = Last - 1
      /\ \A i \in 1..(Last - 1) : completed[i] = journals[i]
  BY <1>3, CompletedFiles
<1>8. f \notin {completed[i].path : i \in 1..Len(completed)}
  <2>1. SUFFICES ASSUME NEW i \in 1..(Last - 1), completed[i].path = f PROVE FALSE
    BY <1>7
  <2>2. journals[i].path = journals[Last].path /\ i \in 1..Last /\ i # Last
    BY <1>3, <1>6, <1>7, <2>1
  <2> QED
    BY <1>1, <1>3, <2>2 DEF Written
<1>9. completed' = Append(completed, journals[Last])
  <2>1. completed' = SubSeq(journals, 1, Last)
    BY <1>2, <1>4 DEF completed
  <2>2. completed' \in Seq(Entries) /\ Len(completed') = Last
        /\ \A i \in 1..Last : completed'[i] = journals[i]
    BY <1>1, <1>3, <2>1, LastTypes, SubSeqProperties
  <2>3. /\ Append(completed, journals[Last]) \in Seq(Entries)
        /\ Len(Append(completed, journals[Last])) = Last
        /\ \A i \in 1..(Last - 1) : Append(completed, journals[Last])[i] = completed[i]
        /\ Append(completed, journals[Last])[Last] = journals[Last]
    BY <1>3, <1>7, AppendProperties
  <2>4. \A i \in 1..Last : completed'[i] = Append(completed, journals[Last])[i]
    <3>1. SUFFICES ASSUME NEW i \in 1..Last
                   PROVE  completed'[i] = Append(completed, journals[Last])[i]
      OBVIOUS
    <3>2. CASE i = Last
      BY <2>2, <2>3, <3>2
    <3>3. CASE i # Last
      BY <1>3, <1>7, <2>2, <2>3, <3>1, <3>3
    <3> QED
      BY <3>2, <3>3
  <2> QED
    BY <2>2, <2>3, <2>4, SeqEqual
<1> QED
  BY <1>4, <1>5, <1>6, <1>8, <1>9 DEF Log!AppendFile, Log!Paths, completed, sealed

LEMMA TellsTruth ==
  ASSUME ArtifactInv, Answer
  PROVE  Log!Acknowledge \/ Log!GiveReceipt \/ UNCHANGED <<completed, sealed, acked, receipts>>
<1>1. TypeOK /\ SessionFits /\ Written
  BY DEF ArtifactInv
<1>2. /\ session.step = "answer" /\ UNCHANGED <<record, tree>>
      /\ acked' = IF session.op = "publish" /\ session.entry.path # Manifest
                  THEN acked \cup {session.entry} ELSE acked
      /\ receipts' = IF Finalized THEN receipts \cup {journals} ELSE receipts
  BY DEF Answer, At
<1>3. completed' = completed /\ sealed' = sealed
  BY <1>2 DEF completed, sealed, Finalized, Last, record, tree
<1>4. ~Pending
  BY <1>1, <1>2 DEF SessionFits, Cleaning
<1>5. /\ completed \in Seq(Entries) /\ Len(completed) = checkpoint
      /\ \A i \in 1..checkpoint : completed[i] = journals[i]
      /\ checkpoint \in 0..Last /\ Last \in Nat
  BY CompletedFiles
<1>6. CASE Finalized
  <2>1. PICK t \in 1..Last : journals[t].path = Manifest
    BY <1>1, <1>6 DEF Finalized, Written, Paths
  <2>2. t = Last /\ ~IsFile(Last) /\ Last > 0 /\ checkpoint = Last - 1
    BY <1>1, <1>5, <2>1 DEF Written, IsFile
  <2>3. journals[Last] = [path |-> Manifest, content |-> journals[Last].content]
        /\ journals[Last].content \in Contents /\ journals[Last] \in Entries
    BY <1>1, <2>1, <2>2, LastTypes DEF Entries
  <2>4. acked' = acked
    <3>1. SUFFICES ASSUME session.op = "publish" PROVE session.entry.path = Manifest
      BY <1>2
    <3> QED
      BY <1>1, <1>2, <2>1, <2>2, <3>1 DEF SessionFits, Cleaning
  <2>5. journals = Append(completed, journals[Last])
    <3>1. journals \in Seq(Entries) /\ Len(journals) = Last
      BY <1>1 DEF TypeOK, Last
    <3>2. /\ Append(completed, journals[Last]) \in Seq(Entries)
          /\ Len(Append(completed, journals[Last])) = Last
          /\ \A i \in 1..(Last - 1) : Append(completed, journals[Last])[i] = completed[i]
          /\ Append(completed, journals[Last])[Last] = journals[Last]
      BY <1>5, <2>2, <2>3, AppendProperties
    <3>3. \A i \in 1..Last : journals[i] = Append(completed, journals[Last])[i]
      <4>1. SUFFICES ASSUME NEW i \in 1..Last
                     PROVE  journals[i] = Append(completed, journals[Last])[i]
        OBVIOUS
      <4>2. CASE i = Last
        BY <3>2, <4>2
      <4>3. CASE i # Last
        BY <1>5, <2>2, <3>2, <4>1, <4>3
      <4> QED
        BY <4>2, <4>3
    <3> QED
      BY <3>1, <3>2, <3>3, SeqEqual
  <2>6. sealed = journals[Last].content /\ sealed # NoEntry
    BY <1>6, <2>3, NoEntryAssumption DEF sealed
  <2>7. receipts' = receipts \cup {Append(completed, [path |-> Manifest, content |-> sealed])}
    BY <1>2, <1>6, <2>3, <2>5, <2>6
  <2> QED
    BY <1>3, <2>4, <2>6, <2>7 DEF Log!GiveReceipt, completed, sealed
<1>7. CASE ~Finalized /\ session.op = "publish" /\ session.entry.path # Manifest
  <2>1. Last > 0 /\ session.entry = journals[Last]
    BY <1>1, <1>2, <1>7 DEF SessionFits, Cleaning
  <2>2. checkpoint = Last
    BY <1>1, <1>4, <1>7, <2>1 DEF Written, IsFile
  <2>3. Last \in 1..Len(completed) /\ session.entry = completed[Last]
    BY <1>5, <2>1, <2>2
  <2>4. acked' = acked \cup {completed[Last]} /\ receipts' = receipts
    BY <1>2, <1>7, <2>3
  <2> QED
    BY <1>3, <2>3, <2>4 DEF Log!Acknowledge, completed, sealed
<1>8. CASE ~Finalized /\ ~(session.op = "publish" /\ session.entry.path # Manifest)
  BY <1>2, <1>3, <1>8
<1> QED
  BY <1>6, <1>7, <1>8

\* A step that leaves record, tree and what was told as they are is a step nobody sees.
LEMMA Unseen ==
  ASSUME UNCHANGED <<journals, linked, checkpoint, acked, receipts>>
  PROVE  UNCHANGED <<completed, sealed, acked, receipts>>
BY DEF completed, sealed, Finalized, Last

LEMMA LogStep == ArtifactInv /\ [Next]_vars => [Log!Next]_(Log!logVars)
<1> SUFFICES ASSUME ArtifactInv, [Next]_vars PROVE [Log!Next]_(Log!logVars)
  OBVIOUS
<1>1. CASE UNCHANGED <<completed, sealed, acked, receipts>>
  BY <1>1 DEF Log!logVars, completed, sealed
<1>2. CASE Log!AppendFile \/ Log!Seal \/ Log!Acknowledge \/ Log!GiveReceipt
  BY <1>2 DEF Log!Next
<1>3. CASE Create
  BY <1>1, <1>3, Unseen DEF Create, CreatePrepare, CreateCommit, CreatePublish, CreateAbandon,
       record, tree, told
<1>4. CASE (\E e \in Entries : Start(e)) \/ Resume
  BY <1>1, <1>4, Unseen DEF Start, Resume, BeginRecovery, record, tree, told
<1>5. CASE Interrupt
  BY <1>1, <1>5, Unseen DEF Interrupt, record, tree, told
<1>6. CASE UNCHANGED vars
  BY <1>1, <1>6, Unseen DEF vars, record, tree, told
<1>7. CASE Progress
  <2>1. CASE Remember
    <3>1. UNCHANGED <<acked, receipts>>
      BY <2>1 DEF Remember, told
    <3> QED
      BY <1>1, <2>1, <3>1, AppendsEntry
  <2>2. CASE PublishFile
    BY <1>1, <1>2, <2>2, LinksFile
  <2>3. CASE ReplaceCheckpoint
    BY <1>2, <2>3, CommitsFile
  <2>4. CASE Answer
    BY <1>1, <1>2, <2>4, TellsTruth
  <2>5. CASE Prepare \/ PublishJournal \/ Published \/ Finish
    BY <1>1, <2>5, Unseen DEF Prepare, PublishJournal, Published, Finish, record, tree, told
  <2>6. CASE \E t \in Tokens : Claim(t) \/ Move(t) \/ Close(t) \/ Empty(t) \/ RemoveStage(t)
    BY <1>1, <2>6, Unseen DEF Claim, Move, Close, Empty, RemoveStage, record, tree, told
  <2>7. CASE \E d \in Directories : Fsync(d)
    BY <1>1, <2>7, Unseen DEF Fsync, record, tree, told
  <2> QED
    BY <1>7, <2>1, <2>2, <2>3, <2>4, <2>5, <2>6, <2>7 DEF Progress
<1> QED
  BY <1>3, <1>4, <1>5, <1>6, <1>7 DEF Next

\* references/result-artifact-lifecycle.md: files are written once and in one piece, a
\* manifest seals them, and nobody is told otherwise, whatever is interrupted and resumed.
THEOREM ArtifactIsAWriteOnceLog == Spec => ImplementsLog
<1>1. ArtifactInv /\ [Next]_vars => [Log!Next]_(Log!logVars)
  BY LogStep
<1> QED
  BY LogInit, <1>1, ArtifactInvariant, PTL DEF Spec, ImplementsLog, Log!Spec
=============================================================================
