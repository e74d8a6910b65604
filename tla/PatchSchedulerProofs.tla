----------------------- MODULE PatchSchedulerProofs ------------------------
(***************************************************************************)
(* The safety properties of the patch scheduler, for any surfaces,         *)
(* operations, batches and bounds, in three arguments that build on one    *)
(* another.                                                                *)
(*                                                                         *)
(* The log and the proposals (IInv): whatever a step does to rows, mounts  *)
(* and surfaces, it leaves these, adds one entry that the kernel let       *)
(* through, or changes a flag of an entry.  This alone carries             *)
(* CommittedOnce, ConsentBeforeCommit, DependenciesFirst and the ledger.   *)
(*                                                                         *)
(* The rows (RowInv): what the command in hand has still to do is queued   *)
(* and not committed, what it has done and not marked is committed, and no *)
(* operation is twice in its list.  AppliedIsCommitted and RowsTellTruth   *)
(* follow.                                                                 *)
(*                                                                         *)
(* The surfaces (KernelInv): a transaction runs through its operations     *)
(* from the left (FoldLemmas) and never leaves a surface it did not create *)
(* below the revision it found, so an undo only goes back.                 *)
(* VersionsContiguous and, with the rows, TypeOK follow.                   *)
(***************************************************************************)
EXTENDS PatchScheduler, FoldLemmas, SequenceTheorems, TLAPS

Consented(batch) ==
  \A o \in OpsOf(batch) : Kind[o] \in Automatic \/ (~ FromAgent(o) /\ Kind[o] \notin Strong)

IsSeq(s) == s \in Seq({s[i] : i \in DOMAIN s})

\* The log and the proposals are sequences of entries that have their fields.
Shape ==
  /\ IsSeq(log)
  /\ IsSeq(proposals)
  /\ \A i \in DOMAIN log : {"batch", "via"} \subseteq DOMAIN log[i]
  /\ \A i \in DOMAIN proposals : {"batch", "status"} \subseteq DOMAIN proposals[i]

\* Nothing is in the log, or waits in a proposal, without what it depends on.
RefsKept ==
  /\ \A i \in DOMAIN log : RefsOk(log[i].batch)
  /\ \A i \in DOMAIN proposals : RefsOk(proposals[i].batch)

ConsentKept == \A i \in DOMAIN log : log[i].via = "direct" => Consented(log[i].batch)

IInv == Shape /\ RefsKept /\ ConsentKept /\ CommittedOnce

-----------------------------------------------------------------------------
(* What a step may do to the log and to the proposals *)

Added(e) ==
  /\ log' = Append(log, e)
  /\ {"batch", "via"} \subseteq DOMAIN e
  /\ OpsOf(e.batch) \cap Committed = {}
  /\ RefsOk(e.batch)
  /\ e.via = "direct" => Consented(e.batch)

LogStep ==
  \/ UNCHANGED log
  \/ \E e : Added(e)
  \/ \E i \in DOMAIN log : log' = [log EXCEPT ![i].undone = TRUE]

ProposalStep ==
  \/ UNCHANGED proposals
  \/ \E p : /\ proposals' = Append(proposals, p)
            /\ {"batch", "status"} \subseteq DOMAIN p
            /\ RefsOk(p.batch)
  \/ \E i \in DOMAIN proposals : \E value :
       proposals' = [proposals EXCEPT ![i].status = value]

\* The same, with log and proposals looked at together.
CommitsUnasked == \E e : Added(e) /\ e.via = "direct" /\ UNCHANGED proposals
Asks ==
  /\ UNCHANGED log
  /\ \E p : /\ proposals' = Append(proposals, p)
            /\ {"batch", "status"} \subseteq DOMAIN p
            /\ p.status = "pending"
            /\ RefsOk(p.batch)
Decides(i, value) ==
  /\ proposals[i].status = "pending"
  /\ proposals' = [proposals EXCEPT ![i].status = value]
Approves(i) ==
  /\ Decides(i, "applied")
  /\ \E e : Added(e) /\ e.batch = proposals[i].batch
Closes(i) == Decides(i, "closed") /\ UNCHANGED log
Undoes == \E i \in DOMAIN log : log' = [log EXCEPT ![i].undone = TRUE] /\ UNCHANGED proposals

JointStep ==
  \/ UNCHANGED <<log, proposals>>
  \/ CommitsUnasked
  \/ Asks
  \/ \E i \in DOMAIN proposals : Approves(i) \/ Closes(i)
  \/ Undoes

LEMMA JointSteps == ASSUME JointStep PROVE LogStep /\ ProposalStep
<1>1. CASE UNCHANGED <<log, proposals>> \/ CommitsUnasked \/ Undoes
  BY <1>1 DEF CommitsUnasked, Undoes, LogStep, ProposalStep
<1>2. CASE Asks
  BY <1>2 DEF Asks, LogStep, ProposalStep
<1>3. ASSUME NEW i \in DOMAIN proposals, Approves(i) \/ Closes(i)
      PROVE  LogStep /\ ProposalStep
  BY <1>3 DEF Approves, Closes, Decides, LogStep, ProposalStep
<1> QED BY <1>1, <1>2, <1>3 DEF JointStep

LEMMA CommitAdds ==
  ASSUME NEW batch, NEW via, Commit(batch, via), RefsOk(batch),
         via = "direct" => Consented(batch)
  PROVE  \E e : Added(e) /\ e.batch = batch /\ e.via = via
<1> DEFINE e == Entry(batch, via, Run(batch).at)
<1>1. log' = Append(log, e) /\ OpsOf(batch) \cap Committed = {}
  BY DEF Commit
<1>2. {"batch", "via"} \subseteq DOMAIN e /\ e.batch = batch /\ e.via = via
  BY DEF Entry
<1>3. Added(e)
  BY <1>1, <1>2 DEF Added
<1> QED BY <1>2, <1>3

\* The kernel commits only what is automatic or was granted by a user.
LEMMA ChangeKeepsLog ==
  ASSUME NEW batch, NEW agent \in BOOLEAN, NEW granted \in BOOLEAN, NEW result,
         ApplyChange(batch, agent, granted, result),
         granted /\ ~ agent => Consented(batch)
  PROVE  JointStep
<1>1. CASE result = "committed"
  <2>1. RefsOk(batch) /\ Commit(batch, "direct") /\ UNCHANGED proposals
    BY <1>1 DEF ApplyChange
  <2>2. NeedsApproval(batch) => granted /\ ~ agent
    BY <1>1 DEF ApplyChange
  <2>3. Consented(batch)
    BY <2>2 DEF NeedsApproval, Consented
  <2> QED BY <2>1, <2>3, CommitAdds DEF CommitsUnasked, JointStep
<1>2. CASE result = "proposal"
  <2>1. RefsOk(batch) /\ Propose(batch)
    BY <1>2 DEF ApplyChange
  <2> DEFINE p == [batch |-> batch, base |-> Frozen(batch), status |-> "pending"]
  <2>2. proposals' = Append(proposals, p) /\ UNCHANGED log
    BY <2>1 DEF Propose
  <2>3. {"batch", "status"} \subseteq DOMAIN p /\ p.batch = batch /\ p.status = "pending"
    OBVIOUS
  <2> HIDE DEF p
  <2>4. Asks
    BY <2>1, <2>2, <2>3 DEF Asks
  <2> QED BY <2>4 DEF JointStep
<1>3. CASE result \notin {"committed", "proposal"}
  BY <1>3 DEF ApplyChange, JointStep
<1> QED BY <1>1, <1>2, <1>3

LEMMA StepKinds == ASSUME IInv, Next PROVE JointStep
<1> USE DEF tables, rows
<1>1. ASSUME NEW b \in Batches, ScheduleOnly(b) \/ ScheduleAndApply(b)
      PROVE  JointStep
  BY <1>1 DEF ScheduleOnly, ScheduleAndApply, Schedule, JointStep
<1>2. ASSUME NEW result \in Results, BatchApplies(result)
      PROVE  JointStep
  <2> DEFINE agent == \E o \in OpsOf(cmd.todo) : FromAgent(o)
             granted == ~ agent /\ ~ IsStrong(cmd.todo)
  <2>1. ApplyChange(cmd.todo, agent, granted, result)
    BY <1>2 DEF BatchApplies
  <2>2. granted => Consented(cmd.todo)
    BY DEF Consented, IsStrong
  <2>3. agent \in BOOLEAN /\ granted \in BOOLEAN
    OBVIOUS
  <2> HIDE DEF agent, granted
  <2> QED BY <2>1, <2>2, <2>3, ChangeKeepsLog
<1>3. ASSUME NEW result \in Results, FlushApplies(result)
      PROVE  JointStep
  <2> DEFINE o == Head(cmd.todo)
  <2>1. ApplyChange(<<o>>, FromAgent(o), FlushGrants(o), result)
    BY <1>3 DEF FlushApplies
  <2>2. OpsOf(<<o>>) = {o}
    BY DEF OpsOf
  <2>3. FlushGrants(o) => Consented(<<o>>)
    BY <2>2 DEF FlushGrants, Consented, IsStrong
  <2>4. FromAgent(o) \in BOOLEAN /\ FlushGrants(o) \in BOOLEAN
    BY DEF FromAgent, FlushGrants
  <2> HIDE DEF o
  <2> QED BY <2>1, <2>3, <2>4, ChangeKeepsLog
<1>4. ASSUME BatchMarks \/ FlushMarks \/ Crash PROVE JointStep
  BY <1>4 DEF BatchMarks, FlushMarks, Crash, JointStep
<1>5. ASSUME NEW s \in Views, FlushBegins(s) \/ Mount(s) \/ Unmount(s)
      PROVE  JointStep
  BY <1>5 DEF FlushBegins, Mount, Unmount, JointStep
<1>6. ASSUME NEW i \in DOMAIN proposals, ApproveProposal(i)
      PROVE  JointStep
  <2>1. /\ Commit(proposals[i].batch, "proposal")
        /\ proposals' = [proposals EXCEPT ![i].status = "applied"]
    BY <1>6 DEF ApproveProposal, Approve
  <2>2. RefsOk(proposals[i].batch)
    BY DEF IInv, RefsKept
  <2>3. proposals[i].status = "pending"
    BY <1>6 DEF ApproveProposal, Approve
  <2>4. \E e : Added(e) /\ e.batch = proposals[i].batch
    BY <2>1, <2>2, CommitAdds
  <2>5. Approves(i)
    BY <2>1, <2>3, <2>4 DEF Approves, Decides
  <2> QED BY <2>5 DEF JointStep
<1>7. ASSUME NEW i \in DOMAIN proposals, CloseProposal(i)
      PROVE  JointStep
  BY <1>7 DEF CloseProposal, Close, Closes, Decides, JointStep
<1>8. ASSUME NEW i \in DOMAIN log, UndoTransaction(i)
      PROVE  JointStep
  BY <1>8 DEF UndoTransaction, Undo, Undoes, JointStep
<1> QED BY <1>1, <1>2, <1>3, <1>4, <1>5, <1>6, <1>7, <1>8 DEF Next

-----------------------------------------------------------------------------
(* Those steps keep the invariant *)

LEMMA SeqOfOwn ==
  ASSUME NEW S, NEW seq \in Seq(S)
  PROVE  IsSeq(seq) /\ DOMAIN seq = 1..Len(seq) /\ Len(seq) \in Nat
<1> DEFINE T == {seq[i] : i \in DOMAIN seq}
<1>1. Len(seq) \in Nat /\ seq \in [1..Len(seq) -> S]
  BY LenProperties
<1>2. seq \in [1..Len(seq) -> T]
  BY <1>1
<1> QED BY <1>1, <1>2, SeqDef DEF IsSeq

LEMMA SeqShape ==
  ASSUME NEW seq, IsSeq(seq)
  PROVE  /\ Len(seq) \in Nat /\ DOMAIN seq = 1..Len(seq)
         /\ seq \in [1..Len(seq) -> {seq[i] : i \in DOMAIN seq}]
<1> DEFINE T == {seq[i] : i \in DOMAIN seq}
<1>1. seq \in Seq(T)
  BY DEF IsSeq
<1> HIDE DEF T
<1>2. /\ Len(seq) \in Nat /\ DOMAIN seq = 1..Len(seq)
      /\ seq \in [1..Len(seq) -> T]
  BY <1>1, LenProperties
<1> QED BY <1>2 DEF T

\* One entry more: the others are where they were.
LEMMA AppendShape ==
  ASSUME NEW seq, IsSeq(seq), NEW e
  PROVE  /\ IsSeq(Append(seq, e))
         /\ DOMAIN seq = 1..Len(seq) /\ Len(seq) \in Nat
         /\ DOMAIN Append(seq, e) = 1..(Len(seq) + 1)
         /\ \A i \in 1..Len(seq) : Append(seq, e)[i] = seq[i]
         /\ Append(seq, e)[Len(seq) + 1] = e
<1> DEFINE S == {seq[i] : i \in DOMAIN seq} \cup {e}
           seq1 == Append(seq, e)
<1>1. /\ Len(seq) \in Nat /\ DOMAIN seq = 1..Len(seq)
      /\ seq \in [1..Len(seq) -> {seq[i] : i \in DOMAIN seq}]
  BY SeqShape
<1>2. seq \in Seq(S)
  BY <1>1, SeqDef
<1>3. e \in S
  OBVIOUS
<1> HIDE DEF S
<1>4. /\ seq1 \in Seq(S) /\ Len(seq1) = Len(seq) + 1
      /\ \A i \in 1..Len(seq) : seq1[i] = seq[i]
      /\ seq1[Len(seq) + 1] = e
  BY <1>2, <1>3, AppendProperties
<1> HIDE DEF seq1
<1>5. IsSeq(seq1) /\ DOMAIN seq1 = 1..Len(seq1)
  BY <1>4, SeqOfOwn
<1> QED BY <1>1, <1>4, <1>5 DEF seq1

LEMMA SameDomain ==
  ASSUME NEW seq, IsSeq(seq), NEW seq1,
         DOMAIN seq1 = DOMAIN seq, seq1 = [i \in DOMAIN seq1 |-> seq1[i]]
  PROVE  IsSeq(seq1)
<1> DEFINE T == {seq1[i] : i \in DOMAIN seq1}
<1>1. Len(seq) \in Nat /\ DOMAIN seq = 1..Len(seq)
  BY SeqShape
<1>2. seq1 \in [1..Len(seq) -> T]
  BY <1>1
<1> HIDE DEF T
<1>3. seq1 \in Seq(T)
  BY <1>1, <1>2, SeqDef
<1> QED BY <1>3, SeqOfOwn

\* One entry changed, at the same place.
LEMMA ExceptShape ==
  ASSUME NEW seq, IsSeq(seq), NEW k \in DOMAIN seq, NEW e,
         NEW seq1, seq1 = [seq EXCEPT ![k] = e]
  PROVE  /\ IsSeq(seq1)
         /\ DOMAIN seq1 = DOMAIN seq
         /\ seq1[k] = e
         /\ \A i \in DOMAIN seq \ {k} : seq1[i] = seq[i]
<1>1. DOMAIN seq1 = DOMAIN seq /\ seq1 = [i \in DOMAIN seq1 |-> seq1[i]]
  OBVIOUS
<1>2. seq1[k] = e
  OBVIOUS
<1>3. \A i \in DOMAIN seq \ {k} : seq1[i] = seq[i]
  OBVIOUS
<1>4. IsSeq(seq1)
  BY <1>1, SameDomain, Zenon
<1> QED BY <1>1, <1>2, <1>3, <1>4

\* Over to the log.
LEMMA LogStepKeeps ==
  ASSUME IInv, LogStep
  PROVE  /\ IsSeq(log')
         /\ \A i \in DOMAIN log' : /\ {"batch", "via"} \subseteq DOMAIN log'[i]
                                   /\ RefsOk(log'[i].batch)
                                   /\ log'[i].via = "direct" => Consented(log'[i].batch)
         /\ CommittedOnce'
<1> DEFINE Holds(e) == /\ {"batch", "via"} \subseteq DOMAIN e
                       /\ RefsOk(e.batch)
                       /\ e.via = "direct" => Consented(e.batch)
<1>1. /\ IsSeq(log)
      /\ \A i \in DOMAIN log : Holds(log[i])
      /\ CommittedOnce
  BY DEF IInv, Shape, RefsKept, ConsentKept
<1> SUFFICES /\ IsSeq(log')
             /\ \A i \in DOMAIN log' : Holds(log'[i])
             /\ CommittedOnce'
  OBVIOUS
<1>2. CASE UNCHANGED log
  BY <1>1, <1>2 DEF CommittedOnce
<1>3. ASSUME NEW e, Added(e)
      PROVE  /\ IsSeq(log')
             /\ \A i \in DOMAIN log' : Holds(log'[i])
             /\ CommittedOnce'
  <2>1. Holds(e) /\ log' = Append(log, e) /\ OpsOf(e.batch) \cap Committed = {}
    BY <1>3 DEF Added
  <2> DEFINE n == Len(log)
  <2>2. /\ IsSeq(log')
        /\ DOMAIN log = 1..n /\ n \in Nat
        /\ DOMAIN log' = 1..(n + 1)
        /\ \A i \in 1..n : log'[i] = log[i]
        /\ log'[n + 1] = e
    BY <1>1, <2>1, AppendShape
  <2> HIDE DEF n
  <2>3. \A i \in DOMAIN log' : i \in DOMAIN log \/ i = n + 1
    BY <2>2
  <2>4. \A i \in DOMAIN log : OpsOf(log[i].batch) \cap OpsOf(e.batch) = {}
    BY <2>1 DEF Committed
  <2>5. \A i \in DOMAIN log' : Holds(log'[i])
    BY <1>1, <2>1, <2>2, <2>3
  <2>6. CommittedOnce'
    <3> SUFFICES ASSUME NEW i \in DOMAIN log', NEW j \in DOMAIN log',
                        OpsOf(log'[i].batch) \cap OpsOf(log'[j].batch) # {}
                 PROVE  i = j
      BY DEF CommittedOnce
    <3>1. CASE i \in DOMAIN log /\ j \in DOMAIN log
      BY <1>1, <2>2, <3>1 DEF CommittedOnce
    <3>2. CASE i \in DOMAIN log /\ j = n + 1
      BY <2>2, <2>4, <3>2
    <3>3. CASE i = n + 1 /\ j \in DOMAIN log
      BY <2>2, <2>4, <3>3
    <3> QED BY <2>3, <3>1, <3>2, <3>3
  <2> QED BY <2>2, <2>5, <2>6
<1>4. ASSUME NEW k \in DOMAIN log, log' = [log EXCEPT ![k].undone = TRUE]
      PROVE  /\ IsSeq(log')
             /\ \A i \in DOMAIN log' : Holds(log'[i])
             /\ CommittedOnce'
  <2> DEFINE e == [log[k] EXCEPT !.undone = TRUE]
  <2>1. e.batch = log[k].batch /\ e.via = log[k].via /\ DOMAIN e = DOMAIN log[k]
    BY <1>1
  <2>2. log' = [log EXCEPT ![k] = e]
    BY <1>4
  <2> HIDE DEF e
  <2>3. /\ IsSeq(log')
        /\ DOMAIN log' = DOMAIN log
        /\ log'[k] = e
        /\ \A i \in DOMAIN log \ {k} : log'[i] = log[i]
    BY <1>1, <2>2, ExceptShape
  <2>4. \A i \in DOMAIN log : /\ log'[i].batch = log[i].batch
                              /\ log'[i].via = log[i].via
                              /\ DOMAIN log'[i] = DOMAIN log[i]
    BY <2>1, <2>3
  <2> QED BY <1>1, <2>3, <2>4 DEF CommittedOnce
<1> QED BY <1>2, <1>3, <1>4 DEF LogStep

\* Over to the proposals.
LEMMA ProposalStepKeeps ==
  ASSUME IInv, ProposalStep
  PROVE  /\ IsSeq(proposals')
         /\ \A i \in DOMAIN proposals' : /\ {"batch", "status"} \subseteq DOMAIN proposals'[i]
                                         /\ RefsOk(proposals'[i].batch)
<1>1. /\ IsSeq(proposals)
      /\ \A i \in DOMAIN proposals :
           {"batch", "status"} \subseteq DOMAIN proposals[i] /\ RefsOk(proposals[i].batch)
  BY DEF IInv, Shape, RefsKept
<1>2. CASE UNCHANGED proposals
  BY <1>1, <1>2
<1>3. ASSUME NEW p, proposals' = Append(proposals, p),
             {"batch", "status"} \subseteq DOMAIN p, RefsOk(p.batch)
      PROVE  /\ IsSeq(proposals')
             /\ \A i \in DOMAIN proposals' : /\ {"batch", "status"} \subseteq DOMAIN proposals'[i]
                                             /\ RefsOk(proposals'[i].batch)
  <2> DEFINE n == Len(proposals)
  <2>1. /\ IsSeq(proposals')
        /\ DOMAIN proposals = 1..n /\ n \in Nat
        /\ DOMAIN proposals' = 1..(n + 1)
        /\ \A i \in 1..n : proposals'[i] = proposals[i]
        /\ proposals'[n + 1] = p
    BY <1>1, <1>3, AppendShape
  <2> HIDE DEF n
  <2>2. \A i \in DOMAIN proposals' : i \in DOMAIN proposals \/ i = n + 1
    BY <2>1
  <2> QED BY <1>1, <1>3, <2>1, <2>2
<1>4. ASSUME NEW k \in DOMAIN proposals, NEW value,
             proposals' = [proposals EXCEPT ![k].status = value]
      PROVE  /\ IsSeq(proposals')
             /\ \A i \in DOMAIN proposals' : /\ {"batch", "status"} \subseteq DOMAIN proposals'[i]
                                             /\ RefsOk(proposals'[i].batch)
  <2> DEFINE p == [proposals[k] EXCEPT !.status = value]
  <2>1. p.batch = proposals[k].batch /\ {"batch", "status"} \subseteq DOMAIN p
    BY <1>1
  <2>2. proposals' = [proposals EXCEPT ![k] = p]
    BY <1>4
  <2> HIDE DEF p
  <2>3. /\ IsSeq(proposals')
        /\ DOMAIN proposals' = DOMAIN proposals
        /\ proposals'[k] = p
        /\ \A i \in DOMAIN proposals \ {k} : proposals'[i] = proposals[i]
    BY <1>1, <2>2, ExceptShape
  <2> QED BY <1>1, <2>1, <2>3
<1> QED BY <1>2, <1>3, <1>4 DEF ProposalStep

-----------------------------------------------------------------------------

LEMMA InvInit == Init => IInv
<1> SUFFICES ASSUME Init PROVE IInv
  OBVIOUS
<1>1. log = << >> /\ proposals = << >>
  BY DEF Init, KernelInit, SurfaceInit
<1>2. IsSeq(log) /\ IsSeq(proposals)
  BY <1>1, EmptySeq DEF IsSeq
<1>3. DOMAIN log = {} /\ DOMAIN proposals = {}
  BY <1>1
<1> QED BY <1>2, <1>3 DEF IInv, Shape, RefsKept, ConsentKept, CommittedOnce

LEMMA InvStep == IInv /\ [Next]_vars => IInv'
<1> SUFFICES ASSUME IInv, [Next]_vars PROVE IInv'
  OBVIOUS
<1>1. LogStep /\ ProposalStep
  <2>1. CASE Next
    BY <2>1, StepKinds, JointSteps
  <2>2. CASE UNCHANGED vars
    BY <2>2 DEF vars, tables, LogStep, ProposalStep
  <2> QED BY <2>1, <2>2
<1>2. /\ IsSeq(log')
      /\ \A i \in DOMAIN log' : /\ {"batch", "via"} \subseteq DOMAIN log'[i]
                                /\ RefsOk(log'[i].batch)
                                /\ log'[i].via = "direct" => Consented(log'[i].batch)
      /\ CommittedOnce'
  BY <1>1, LogStepKeeps
<1>3. /\ IsSeq(proposals')
      /\ \A i \in DOMAIN proposals' :
           {"batch", "status"} \subseteq DOMAIN proposals'[i] /\ RefsOk(proposals'[i].batch)
  BY <1>1, ProposalStepKeeps
<1>4. Shape'
  <2>1. IsSeq(log)'
    BY <1>2, Zenon DEF IsSeq
  <2>2. IsSeq(proposals)'
    BY <1>3, Zenon DEF IsSeq
  <2>3. \A i \in DOMAIN log' : {"batch", "via"} \subseteq DOMAIN log'[i]
    BY <1>2
  <2>4. (\A i \in DOMAIN proposals : {"batch", "status"} \subseteq DOMAIN proposals[i])'
    BY <1>3, Zenon
  <2> QED BY <2>1, <2>2, <2>3, <2>4, Zenon DEF Shape
<1>5. RefsKept'
  <2>1. \A i \in DOMAIN log' : RefsOk(log'[i].batch)
    BY <1>2
  <2>2. (\A i \in DOMAIN proposals : RefsOk(proposals[i].batch))'
    BY <1>3, Zenon DEF RefsOk, OpsOf
  <2> QED BY <2>1, <2>2, Zenon DEF RefsKept, RefsOk, OpsOf
<1>6. ConsentKept'
  <2>1. \A i \in DOMAIN log' : log'[i].via = "direct" => Consented(log'[i].batch)
    BY <1>2
  <2> QED BY <2>1, Zenon DEF ConsentKept, Consented, OpsOf, FromAgent
<1> QED BY <1>2, <1>4, <1>5, <1>6 DEF IInv

\* Every reachable state has the invariant.
THEOREM LogKept == Spec => []IInv
<1> QED BY InvInit, InvStep, PTL DEF Spec

\* No operation takes effect twice, whatever crashes between a commit and the
\* mark of its row and however many proposals of it there are (app_operations'
\* primary key, transactions.rs create_transaction).
THEOREM NothingCommitsTwice == Spec => []CommittedOnce
<1>1. IInv => CommittedOnce
  BY DEF IInv
<1> QED BY <1>1, LogKept, PTL

\* What the kernel applied without a proposal is automatic, or a user's own and
\* not strong (apply_change, flush_scheduler and schedule_patches_cmd together).
THEOREM NothingCommitsUnasked == Spec => []ConsentBeforeCommit
<1>1. IInv => ConsentBeforeCommit
  BY DEF IInv, ConsentKept, ConsentBeforeCommit, Consented, Direct
<1> QED BY <1>1, LogKept, PTL

\* What an operation depends on is committed with it or before it
\* (validate_dependency_refs on each way into the log).
THEOREM DependenciesCommitFirst == Spec => []DependenciesFirst
<1>1. IInv => DependenciesFirst
  <2> SUFFICES ASSUME IInv, NEW i \in DOMAIN log, NEW o \in OpsOf(log[i].batch)
               PROVE  Deps[o] \subseteq UNION {OpsOf(log[j].batch) : j \in 1..i}
    BY DEF DependenciesFirst
  <2>1. Deps[o] \subseteq OpsOf(log[i].batch)
    BY DEF IInv, RefsKept, RefsOk
  <2>2. i \in 1..i
    <3>1. IsSeq(log)
      BY DEF IInv, Shape
    <3>2. Len(log) \in Nat /\ DOMAIN log = 1..Len(log)
      BY <3>1, SeqShape
    <3> QED BY <3>2
  <2> QED BY <2>1, <2>2
<1> QED BY <1>1, LogKept, PTL

-----------------------------------------------------------------------------
(* What a step does to the three sets of operations *)

LEMMA LogGrows ==
  ASSUME IsSeq(log), NEW e, log' = Append(log, e)
  PROVE  /\ Committed' = Committed \cup OpsOf(e.batch)
         /\ Direct' = IF e.via = "direct" THEN Direct \cup OpsOf(e.batch) ELSE Direct
<1> DEFINE n == Len(log)
<1>1. /\ DOMAIN log = 1..n /\ n \in Nat
      /\ DOMAIN log' = 1..(n + 1)
      /\ \A i \in 1..n : log'[i] = log[i]
      /\ log'[n + 1] = e
  BY AppendShape
<1> HIDE DEF n
<1>2. DOMAIN log' = DOMAIN log \cup {n + 1} /\ n + 1 \notin DOMAIN log
  BY <1>1
<1> DEFINE then == [i \in DOMAIN log' |-> OpsOf(log'[i].batch)]
           direct == {i \in DOMAIN log : log[i].via = "direct"}
           direct1 == {i \in DOMAIN log' : log'[i].via = "direct"}
<1>3. /\ \A i \in DOMAIN log : then[i] = OpsOf(log[i].batch)
      /\ then[n + 1] = OpsOf(e.batch)
      /\ \A i \in DOMAIN log' : then[i] = OpsOf(log'[i].batch)
  BY <1>1, <1>2
<1>4. direct1 = IF e.via = "direct" THEN direct \cup {n + 1} ELSE direct
  BY <1>1, <1>2
<1>5. Committed' = UNION {OpsOf(log'[i].batch) : i \in DOMAIN log'}
  BY Zenon DEF Committed, OpsOf
<1>6. Direct' = UNION {OpsOf(log'[i].batch) : i \in direct1}
  BY Zenon DEF Direct, OpsOf
<1>7. Direct = UNION {OpsOf(log[i].batch) : i \in direct}
  BY DEF Direct
<1>8. direct \subseteq DOMAIN log /\ direct1 \subseteq DOMAIN log'
  OBVIOUS
<1> HIDE DEF then, direct, direct1
<1>9. Committed' = UNION {then[i] : i \in DOMAIN log'}
  BY <1>3, <1>5
<1>10. Direct' = UNION {then[i] : i \in direct1}
  BY <1>3, <1>6, <1>8
<1>11. Direct = UNION {then[i] : i \in direct}
  BY <1>3, <1>7, <1>8
<1>12. Committed = UNION {then[i] : i \in DOMAIN log}
  BY <1>3 DEF Committed
<1>13. Committed' = Committed \cup OpsOf(e.batch)
  BY <1>2, <1>3, <1>9, <1>12
<1>14. CASE e.via = "direct"
  <2>1. direct1 = direct \cup {n + 1}
    BY <1>4, <1>14
  <2>2. Direct' = Direct \cup then[n + 1]
    BY <1>10, <1>11, <2>1
  <2> QED BY <1>3, <1>13, <1>14, <2>2
<1>15. CASE e.via # "direct"
  BY <1>4, <1>10, <1>11, <1>13, <1>15
<1> QED BY <1>14, <1>15

LEMMA ProposalsGrow ==
  ASSUME IsSeq(proposals), NEW p, proposals' = Append(proposals, p)
  PROVE  Proposed' = Proposed \cup OpsOf(p.batch)
<1> DEFINE n == Len(proposals)
<1>1. /\ DOMAIN proposals = 1..n /\ n \in Nat
      /\ DOMAIN proposals' = 1..(n + 1)
      /\ \A i \in 1..n : proposals'[i] = proposals[i]
      /\ proposals'[n + 1] = p
  BY AppendShape
<1> HIDE DEF n
<1>2. DOMAIN proposals' = DOMAIN proposals \cup {n + 1} /\ n + 1 \notin DOMAIN proposals
  BY <1>1
<1> DEFINE then == [i \in DOMAIN proposals' |-> OpsOf(proposals'[i].batch)]
<1>3. /\ \A i \in DOMAIN proposals : then[i] = OpsOf(proposals[i].batch)
      /\ then[n + 1] = OpsOf(p.batch)
      /\ \A i \in DOMAIN proposals' : then[i] = OpsOf(proposals'[i].batch)
  BY <1>1, <1>2
<1>4. Proposed' = UNION {OpsOf(proposals'[i].batch) : i \in DOMAIN proposals'}
  BY Zenon DEF Proposed, OpsOf
<1> HIDE DEF then
<1>5. Proposed' = UNION {then[i] : i \in DOMAIN proposals'}
  BY <1>3, <1>4
<1>6. Proposed = UNION {then[i] : i \in DOMAIN proposals}
  BY <1>3 DEF Proposed
<1> QED BY <1>2, <1>3, <1>5, <1>6

\* The sets by the entries' batches: the status of a proposal and the flag of an
\* entry do not matter.
LEMMA SameProposed ==
  ASSUME Shape,
         UNCHANGED proposals \/ \E i \in DOMAIN proposals : \E value :
                                  proposals' = [proposals EXCEPT ![i].status = value]
  PROVE  Proposed' = Proposed
<1>1. Proposed' = UNION {OpsOf(proposals'[i].batch) : i \in DOMAIN proposals'}
  BY Zenon DEF Proposed, OpsOf
<1>2. CASE UNCHANGED proposals
  BY <1>1, <1>2 DEF Proposed
<1>3. ASSUME NEW k \in DOMAIN proposals, NEW value,
             proposals' = [proposals EXCEPT ![k].status = value]
      PROVE  Proposed' = Proposed
  <2>1. {"batch", "status"} \subseteq DOMAIN proposals[k]
    BY DEF Shape
  <2>2. DOMAIN proposals' = DOMAIN proposals
        /\ \A i \in DOMAIN proposals : proposals'[i].batch = proposals[i].batch
    BY <1>3, <2>1
  <2> QED BY <1>1, <2>2 DEF Proposed
<1> QED BY <1>2, <1>3

LEMMA SameLog ==
  ASSUME Shape,
         UNCHANGED log \/ \E i \in DOMAIN log : log' = [log EXCEPT ![i].undone = TRUE]
  PROVE  Committed' = Committed /\ Direct' = Direct
<1>1. Committed' = UNION {OpsOf(log'[i].batch) : i \in DOMAIN log'}
  BY Zenon DEF Committed, OpsOf
<1>2. Direct' = UNION {OpsOf(log'[i].batch) : i \in {j \in DOMAIN log' : log'[j].via = "direct"}}
  BY Zenon DEF Direct, OpsOf
<1>3. CASE UNCHANGED log
  BY <1>1, <1>2, <1>3 DEF Committed, Direct
<1>4. ASSUME NEW k \in DOMAIN log, log' = [log EXCEPT ![k].undone = TRUE]
      PROVE  Committed' = Committed /\ Direct' = Direct
  <2>1. {"batch", "via"} \subseteq DOMAIN log[k]
    BY DEF Shape
  <2>2. /\ DOMAIN log' = DOMAIN log
        /\ \A i \in DOMAIN log : log'[i].batch = log[i].batch /\ log'[i].via = log[i].via
    BY <1>4, <2>1
  <2>3. {j \in DOMAIN log' : log'[j].via = "direct"} = {j \in DOMAIN log : log[j].via = "direct"}
    BY <2>2
  <2>4. Committed' = Committed
    BY <1>1, <2>2 DEF Committed
  <2>5. Direct' = Direct
    BY <1>2, <2>2, <2>3 DEF Direct
  <2> QED BY <2>4, <2>5
<1> QED BY <1>3, <1>4

-----------------------------------------------------------------------------
(* The ledger *)

Asked == [i \in DOMAIN proposals |-> OpsOf(proposals[i].batch)]
Open == {i \in DOMAIN proposals : proposals[i].status = "pending"}
MustAsk == {o \in Ops : Kind[o] \notin Automatic /\ (FromAgent(o) \/ Kind[o] \in Strong)}

\* A new proposal is a new question; the old ones are as they were.
LEMMA QuestionAdded ==
  ASSUME IInv, Asks
  PROVE  \E q \in DOMAIN Asked' \ DOMAIN Asked :
           /\ DOMAIN Asked' = DOMAIN Asked \cup {q}
           /\ \A o \in Asked'[q] : Deps[o] \subseteq Asked'[q]
           /\ Open' = Open \cup {q}
           /\ \A i \in DOMAIN Asked : Asked'[i] = Asked[i]
<1>1. PICK p : /\ proposals' = Append(proposals, p)
               /\ p.status = "pending"
               /\ RefsOk(p.batch)
  BY DEF Asks
<1> DEFINE n == Len(proposals)
<1>2. /\ DOMAIN proposals = 1..n /\ n \in Nat
      /\ DOMAIN proposals' = 1..(n + 1)
      /\ \A i \in 1..n : proposals'[i] = proposals[i]
      /\ proposals'[n + 1] = p
  BY <1>1, AppendShape DEF IInv, Shape
<1> HIDE DEF n
<1>3. DOMAIN proposals' = DOMAIN proposals \cup {n + 1} /\ n + 1 \notin DOMAIN proposals
  BY <1>2
<1>4. /\ DOMAIN Asked = DOMAIN proposals /\ DOMAIN Asked' = DOMAIN proposals'
      /\ \A i \in DOMAIN proposals' : Asked'[i] = OpsOf(proposals'[i].batch)
      /\ \A i \in DOMAIN proposals : Asked[i] = OpsOf(proposals[i].batch)
  BY Zenon DEF Asked, OpsOf
<1>5. Open' = {i \in DOMAIN proposals' : proposals'[i].status = "pending"}
  BY DEF Open
<1>6. Open' = Open \cup {n + 1}
  BY <1>1, <1>2, <1>3, <1>5 DEF Open
<1>7. \A i \in DOMAIN Asked : Asked'[i] = Asked[i]
  BY <1>2, <1>3, <1>4
<1>8. \A o \in Asked'[n + 1] : Deps[o] \subseteq Asked'[n + 1]
  BY <1>1, <1>2, <1>3, <1>4 DEF RefsOk
<1> QED BY <1>3, <1>4, <1>6, <1>7, <1>8

\* A decision closes one question and changes what none is about.
LEMMA QuestionAnswered ==
  ASSUME IInv, NEW i \in DOMAIN proposals, NEW value, value # "pending", Decides(i, value)
  PROVE  i \in Open /\ Open' = Open \ {i} /\ Asked' = Asked
<1>1. {"batch", "status"} \subseteq DOMAIN proposals[i]
  BY DEF IInv, Shape
<1>2. /\ DOMAIN proposals' = DOMAIN proposals
      /\ proposals'[i].status = value
      /\ \A j \in DOMAIN proposals \ {i} : proposals'[j] = proposals[j]
      /\ \A j \in DOMAIN proposals : proposals'[j].batch = proposals[j].batch
  BY <1>1 DEF Decides
<1>3. Asked' = [j \in DOMAIN proposals' |-> OpsOf(proposals'[j].batch)]
  BY Zenon DEF Asked, OpsOf
<1>4. Open' = {j \in DOMAIN proposals' : proposals'[j].status = "pending"}
  BY DEF Open
<1>5. i \in Open
  BY DEF Decides, Open
<1> QED BY <1>2, <1>3, <1>4, <1>5 DEF Asked, Open

LEMMA LedgerStep == IInv /\ [Next]_vars => [Ledger!Next]_(Ledger!vars)
<1> SUFFICES ASSUME IInv, [Next]_vars
             PROVE  Ledger!Next \/ UNCHANGED <<Committed, Asked, Open>>
  BY DEF Ledger!vars, Asked, Open
<1>1. JointStep
  BY StepKinds DEF vars, tables, JointStep
<1>2. CASE UNCHANGED <<log, proposals>>
  <2>1. Committed' = Committed
    BY <1>2, SameLog DEF IInv
  <2>2. Asked' = Asked /\ Open' = Open
    BY <1>2 DEF Asked, Open, OpsOf
  <2> QED BY <2>1, <2>2
<1>3. CASE CommitsUnasked
  <2>1. PICK e : Added(e) /\ e.via = "direct" /\ UNCHANGED proposals
    BY <1>3 DEF CommitsUnasked
  <2>2. Committed' = Committed \cup OpsOf(e.batch) /\ OpsOf(e.batch) \cap Committed = {}
    BY <2>1, LogGrows DEF Added, IInv, Shape
  <2>3. OpsOf(e.batch) \cap MustAsk = {} /\ RefsOk(e.batch)
    BY <2>1 DEF Added, Consented, MustAsk
  <2>4. Asked' = Asked /\ Open' = Open
    BY <2>1 DEF Asked, Open, OpsOf
  <2>5. Committed' \ Committed = OpsOf(e.batch)
    BY <2>2
  <2>6. CASE OpsOf(e.batch) = {}
    BY <2>2, <2>4, <2>6
  <2>7. CASE OpsOf(e.batch) # {}
    <3>1. Ledger!CommitFree
      BY <2>2, <2>3, <2>4, <2>5, <2>7
         DEF Ledger!CommitFree, Ledger!New, Ledger!Closed, RefsOk, MustAsk, Asked, Open
    <3> QED BY <3>1 DEF Ledger!Next
  <2> QED BY <2>6, <2>7
<1>4. CASE Asks
  <2>1. Committed' = Committed
    BY <1>4, SameLog DEF Asks, IInv
  <2>2. \E q \in DOMAIN Asked' \ DOMAIN Asked :
          /\ DOMAIN Asked' = DOMAIN Asked \cup {q}
          /\ \A o \in Asked'[q] : Deps[o] \subseteq Asked'[q]
          /\ Open' = Open \cup {q}
          /\ \A i \in DOMAIN Asked : Asked'[i] = Asked[i]
    BY <1>4, QuestionAdded
  <2>3. Ledger!Ask
    BY <2>1, <2>2 DEF Ledger!Ask, Ledger!Closed, Asked, Open
  <2> QED BY <2>3 DEF Ledger!Next
<1>5. ASSUME NEW i \in DOMAIN proposals, Approves(i)
      PROVE  Ledger!Next
  <2>1. i \in Open /\ Open' = Open \ {i} /\ Asked' = Asked
    BY <1>5, QuestionAnswered DEF Approves
  <2>2. PICK e : Added(e) /\ e.batch = proposals[i].batch
    BY <1>5 DEF Approves
  <2>3. Committed' = Committed \cup Asked[i] /\ Asked[i] \cap Committed = {}
    BY <2>2, LogGrows DEF Added, Asked, IInv, Shape
  <2>4. Ledger!Approve(i)
    BY <2>1, <2>3 DEF Ledger!Approve, Ledger!Answered, Asked, Open
  <2> QED BY <2>1, <2>4 DEF Ledger!Next, Open
<1>6. ASSUME NEW i \in DOMAIN proposals, Closes(i)
      PROVE  Ledger!Next
  <2>1. i \in Open /\ Open' = Open \ {i} /\ Asked' = Asked
    BY <1>6, QuestionAnswered DEF Closes
  <2>2. Committed' = Committed
    BY <1>6, SameLog DEF Closes, IInv
  <2>3. Ledger!Withdraw(i)
    BY <2>1, <2>2 DEF Ledger!Withdraw, Ledger!Answered, Asked, Open
  <2> QED BY <2>1, <2>3 DEF Ledger!Next, Open
<1>7. CASE Undoes
  <2>1. Committed' = Committed
    BY <1>7, SameLog DEF Undoes, IInv
  <2>2. Asked' = Asked /\ Open' = Open
    BY <1>7 DEF Undoes, Asked, Open, OpsOf
  <2> QED BY <2>1, <2>2
<1> QED BY <1>1, <1>2, <1>3, <1>4, <1>5, <1>6, <1>7 DEF JointStep

\* The scheduler, kernel and transactions implement the ledger: of what needs
\* the user's word nothing commits but what a pending proposal froze, whole and
\* by its one decision (apply_change, decide_proposal, flush_scheduler).
THEOREM LedgerImplemented == Spec => LedgerKept
<1>1. Init => Ledger!Init
  <2> SUFFICES ASSUME Init PROVE Ledger!Init
    OBVIOUS
  <2>1. log = << >> /\ proposals = << >>
    BY DEF Init, KernelInit, SurfaceInit
  <2> QED BY <2>1 DEF Ledger!Init, Committed
<1> QED BY <1>1, LedgerStep, LogKept, PTL DEF Spec, LedgerKept, Ledger!Spec

-----------------------------------------------------------------------------
(* Sequences of operations: what is picked, appended, cut off *)

PickedBy(h, seq, S) ==
  [t \in SUBSET (DOMAIN seq) |->
     IF t = {} THEN << >>
     ELSE IF seq[Max(t)] \in S THEN Append(h[t \ {Max(t)}], seq[Max(t)])
          ELSE h[t \ {Max(t)}]]

LEMMA PickedGoesLeft ==
  ASSUME NEW seq \in Seq(Ops), NEW S
  PROVE  \E f \in [0..Len(seq) -> Seq(Ops)] :
           /\ f[0] = << >>
           /\ \A k \in 1..Len(seq) :
                f[k] = IF seq[k] \in S THEN Append(f[k - 1], seq[k]) ELSE f[k - 1]
           /\ Picked(seq, S) = f[Len(seq)]
<1> DEFINE D == Seq(Ops)
           n == Len(seq)
           g == [p \in D \X Nat |-> IF p[2] \in 1..n /\ seq[p[2]] \in S
                                    THEN Append(p[1], seq[p[2]]) ELSE p[1]]
           chosen == CHOOSE h : h = PickedBy(h, seq, S)
<1>1. n \in Nat /\ DOMAIN seq = 1..n /\ \A k \in 1..n : seq[k] \in Ops
  BY LenProperties
<1>2. << >> \in D
  BY EmptySeq
<1>3. g \in [D \X Nat -> D]
  <2>1. \A p \in D \X Nat : p[1] \in D
    OBVIOUS
  <2>2. \A p \in D \X Nat : p[2] \in 1..n => Append(p[1], seq[p[2]]) \in D
    BY <1>1, <2>1, AppendProperties
  <2> QED BY <2>1, <2>2
<1>4. \A v \in D, k \in 1..n :
        g[<<v, k>>] = IF seq[k] \in S THEN Append(v, seq[k]) ELSE v
  <2> TAKE v \in D, k \in 1..n
  <2>1. <<v, k>> \in D \X Nat
    BY <1>1
  <2> QED BY <2>1
<1> HIDE DEF D, n, g
<1>5. PICK h : h \in [SUBSET (1..n) -> D] /\ Folds(h, n, << >>, g)
  BY <1>1, <1>2, <1>3, FoldExists
<1>6. h = PickedBy(h, seq, S)
  <2>1. ASSUME NEW t \in SUBSET (1..n), t # {}
        PROVE  h[t] = IF seq[Max(t)] \in S THEN Append(h[t \ {Max(t)}], seq[Max(t)])
                      ELSE h[t \ {Max(t)}]
    <3>1. Max(t) \in 1..n
      BY <1>1, <2>1, MaxOfPlaces
    <3>2. h[t \ {Max(t)}] \in D
      BY <1>5
    <3>3. h[t] = g[<<h[t \ {Max(t)}], Max(t)>>]
      BY <1>5, <2>1 DEF Folds
    <3> QED BY <1>4, <3>1, <3>2, <3>3
  <2>2. \A t \in SUBSET (1..n) : t = {} => h[t] = << >>
    BY <1>5 DEF Folds
  <2> QED BY <1>1, <1>5, <2>1, <2>2 DEF PickedBy
<1>7. chosen = PickedBy(chosen, seq, S)
  BY <1>6, Zenon
<1>8. Picked(seq, S) = chosen[DOMAIN seq]
  BY Zenon DEF Picked, PickedBy, FoldLeft, MapThenFoldSet
<1> HIDE DEF chosen
<1>9. \A t \in SUBSET (1..n) :
        chosen[t] = IF t = {} THEN << >>
                    ELSE IF seq[Max(t)] \in S THEN Append(chosen[t \ {Max(t)}], seq[Max(t)])
                         ELSE chosen[t \ {Max(t)}]
  BY <1>1, <1>7 DEF PickedBy
<1>10. chosen[{}] = << >>
  BY <1>9
<1>11. Follows(chosen, n, D, g)
  <2> SUFFICES ASSUME NEW t \in SUBSET (1..n), t # {} /\ chosen[t \ {Max(t)}] \in D
               PROVE  chosen[t] = g[<<chosen[t \ {Max(t)}], Max(t)>>]
    BY DEF Follows
  <2>1. Max(t) \in 1..n
    BY <1>1, MaxOfPlaces
  <2>2. g[<<chosen[t \ {Max(t)}], Max(t)>>]
          = IF seq[Max(t)] \in S THEN Append(chosen[t \ {Max(t)}], seq[Max(t)])
            ELSE chosen[t \ {Max(t)}]
    BY <1>4, <2>1
  <2> QED BY <1>9, <2>2
<1>12. GoesLeft(chosen, n, D, << >>, g)
  BY <1>1, <1>2, <1>3, <1>10, <1>11, FoldGoesLeft
<1>13. PICK f \in [0..n -> D] :
         /\ f[0] = << >>
         /\ \A k \in 1..n : f[k] = g[<<f[k - 1], k>>]
         /\ chosen[1..n] = f[n]
  BY <1>12 DEF GoesLeft
<1>14. \A k \in 1..n : f[k] = IF seq[k] \in S THEN Append(f[k - 1], seq[k]) ELSE f[k - 1]
  <2> TAKE k \in 1..n
  <2>1. k - 1 \in 0..n
    BY <1>1
  <2>2. f[k - 1] \in D
    BY <2>1
  <2> QED BY <1>4, <1>13, <2>2
<1> QED BY <1>1, <1>8, <1>13, <1>14 DEF D, n

LEMMA AppendOps ==
  ASSUME NEW v \in Seq(Ops), NEW o \in Ops
  PROVE  /\ Append(v, o) \in Seq(Ops)
         /\ OpsOf(Append(v, o)) = OpsOf(v) \cup {o}
         /\ IsInjective(v) /\ o \notin OpsOf(v) => IsInjective(Append(v, o))
<1> DEFINE n == Len(v)
           w == Append(v, o)
<1>1. /\ n \in Nat /\ DOMAIN v = 1..n
      /\ w \in Seq(Ops) /\ DOMAIN w = 1..(n + 1)
      /\ \A k \in 1..n : w[k] = v[k]
      /\ w[n + 1] = o
  BY LenProperties, AppendProperties
<1> HIDE DEF n, w
<1>2. DOMAIN w = DOMAIN v \cup {n + 1}
  BY <1>1
<1>3. OpsOf(w) = OpsOf(v) \cup {o}
  BY <1>1, <1>2 DEF OpsOf
<1>4. ASSUME IsInjective(v), o \notin OpsOf(v) PROVE IsInjective(w)
  BY <1>1, <1>2, <1>4 DEF IsInjective, OpsOf
<1> QED BY <1>1, <1>3, <1>4 DEF w

LEMMA PickedProps ==
  ASSUME NEW seq \in Seq(Ops), NEW S
  PROVE  /\ Picked(seq, S) \in Seq(Ops)
         /\ OpsOf(Picked(seq, S)) = OpsOf(seq) \cap S
         /\ IsInjective(seq) => IsInjective(Picked(seq, S))
<1> DEFINE n == Len(seq)
<1>1. n \in Nat /\ DOMAIN seq = 1..n /\ \A k \in 1..n : seq[k] \in Ops
  BY LenProperties
<1>2. PICK f \in [0..n -> Seq(Ops)] :
        /\ f[0] = << >>
        /\ \A k \in 1..n : f[k] = IF seq[k] \in S THEN Append(f[k - 1], seq[k]) ELSE f[k - 1]
        /\ Picked(seq, S) = f[n]
  BY PickedGoesLeft
<1> HIDE DEF n
<1> DEFINE Right(k) == /\ OpsOf(f[k]) = {seq[j] : j \in 1..k} \cap S
                       /\ IsInjective(seq) => IsInjective(f[k])
           T == {k \in 0..n : Right(k)}
<1>3. 0 \in T
  <2>1. OpsOf(<< >>) = {} /\ IsInjective(<< >>)
    BY DEF OpsOf, IsInjective
  <2> QED BY <1>1, <1>2, <2>1
<1>4. ASSUME NEW k \in 1..n, k - 1 \in T PROVE k \in T
  <2>1. k \in 0..n /\ k - 1 \in 0..n /\ seq[k] \in Ops /\ f[k - 1] \in Seq(Ops)
    BY <1>1, <1>2
  <2>2. Right(k - 1)
    BY <1>4
  <2>3. 1..k = (1..(k - 1)) \cup {k}
    BY <1>1
  <2>4. {seq[j] : j \in 1..k} = {seq[j] : j \in 1..(k - 1)} \cup {seq[k]}
    BY <2>3
  <2>5. CASE seq[k] \in S
    <3>1. f[k] = Append(f[k - 1], seq[k])
      BY <1>2, <2>5
    <3>2. OpsOf(f[k]) = OpsOf(f[k - 1]) \cup {seq[k]}
      BY <2>1, <3>1, AppendOps
    <3>3. ASSUME IsInjective(seq) PROVE IsInjective(f[k])
      <4>1. seq[k] \notin OpsOf(f[k - 1])
        <5>1. \A j \in 1..(k - 1) : j \in 1..n /\ j # k
          BY <1>1
        <5>2. \A j \in 1..(k - 1) : seq[j] # seq[k]
          BY <1>1, <3>3, <5>1 DEF IsInjective
        <5> QED BY <2>2, <5>2
      <4> QED BY <2>1, <2>2, <3>1, <3>3, <4>1, AppendOps
    <3> QED BY <2>1, <2>2, <2>4, <2>5, <3>2, <3>3
  <2>6. CASE seq[k] \notin S
    <3>1. f[k] = f[k - 1]
      BY <1>2, <2>6
    <3> QED BY <2>1, <2>2, <2>4, <2>6, <3>1
  <2> QED BY <2>5, <2>6
<1> HIDE DEF T
<1>5. 0..n \subseteq T
  BY <1>1, <1>3, <1>4, BoundedInduction
<1>6. n \in 0..n
  BY <1>1
<1>7. Right(n)
  BY <1>5, <1>6 DEF T
<1>8. OpsOf(seq) = {seq[j] : j \in 1..n}
  BY <1>1 DEF OpsOf
<1> QED BY <1>2, <1>6, <1>7, <1>8

LEMMA ConcatOps ==
  ASSUME NEW v \in Seq(Ops), NEW w \in Seq(Ops)
  PROVE  /\ v \o w \in Seq(Ops)
         /\ OpsOf(v \o w) = OpsOf(v) \cup OpsOf(w)
         /\ IsInjective(v) /\ IsInjective(w) /\ OpsOf(v) \cap OpsOf(w) = {}
            => IsInjective(v \o w)
<1> DEFINE m == Len(v)
           n == Len(w)
           u == v \o w
<1>1. /\ m \in Nat /\ DOMAIN v = 1..m /\ n \in Nat /\ DOMAIN w = 1..n
      /\ u \in Seq(Ops) /\ Len(u) = m + n
      /\ \A i \in 1..(m + n) : u[i] = IF i <= m THEN v[i] ELSE w[i - m]
  BY LenProperties, ConcatProperties
<1>2. DOMAIN u = 1..(m + n)
  BY <1>1, LenProperties
<1> HIDE DEF m, n, u
<1>3. \A i \in 1..(m + n) : \/ i \in 1..m /\ u[i] = v[i]
                            \/ i - m \in 1..n /\ u[i] = w[i - m]
  BY <1>1
<1>4. /\ \A i \in 1..m : i \in 1..(m + n) /\ u[i] = v[i]
      /\ \A i \in 1..n : i + m \in 1..(m + n) /\ u[i + m] = w[i]
  BY <1>1
<1>5. OpsOf(u) = OpsOf(v) \cup OpsOf(w)
  <2>1. ASSUME NEW i \in 1..(m + n) PROVE u[i] \in OpsOf(v) \cup OpsOf(w)
    BY <1>1, <1>3 DEF OpsOf
  <2>2. ASSUME NEW i \in 1..m PROVE v[i] \in OpsOf(u)
    BY <1>2, <1>4 DEF OpsOf
  <2>3. ASSUME NEW i \in 1..n PROVE w[i] \in OpsOf(u)
    <3>1. i + m \in 1..(m + n) /\ u[i + m] = w[i]
      BY <1>4
    <3> QED BY <1>2, <3>1 DEF OpsOf
  <2>4. OpsOf(u) \subseteq OpsOf(v) \cup OpsOf(w)
    BY <1>2, <2>1 DEF OpsOf
  <2>5. OpsOf(v) \subseteq OpsOf(u) /\ OpsOf(w) \subseteq OpsOf(u)
    BY <1>1, <2>2, <2>3 DEF OpsOf
  <2> QED BY <2>4, <2>5
<1>6. ASSUME IsInjective(v), IsInjective(w), OpsOf(v) \cap OpsOf(w) = {}
      PROVE  IsInjective(u)
  <2> SUFFICES ASSUME NEW i \in 1..(m + n), NEW j \in 1..(m + n), u[i] = u[j]
               PROVE  i = j
    BY <1>2 DEF IsInjective
  <2>1. CASE i \in 1..m /\ u[i] = v[i] /\ j \in 1..m /\ u[j] = v[j]
    BY <1>1, <1>6, <2>1 DEF IsInjective
  <2>2. CASE i - m \in 1..n /\ u[i] = w[i - m] /\ j - m \in 1..n /\ u[j] = w[j - m]
    <3>1. i - m = j - m
      BY <1>1, <1>6, <2>2 DEF IsInjective
    <3> QED BY <1>1, <3>1
  <2>3. CASE i \in 1..m /\ u[i] = v[i] /\ j - m \in 1..n /\ u[j] = w[j - m]
    BY <1>1, <1>6, <2>3 DEF OpsOf
  <2>4. CASE i - m \in 1..n /\ u[i] = w[i - m] /\ j \in 1..m /\ u[j] = v[j]
    BY <1>1, <1>6, <2>4 DEF OpsOf
  <2> QED BY <1>3, <2>1, <2>2, <2>3, <2>4
<1>7. u \in Seq(Ops)
  BY <1>1
<1> QED BY <1>5, <1>6, <1>7 DEF u

LEMMA TailOps ==
  ASSUME NEW v \in Seq(Ops), v # << >>
  PROVE  /\ Head(v) \in Ops /\ Tail(v) \in Seq(Ops) /\ Len(Tail(v)) = Len(v) - 1
         /\ Len(v) \in Nat \ {0}
         /\ OpsOf(v) = {Head(v)} \cup OpsOf(Tail(v))
         /\ IsInjective(v) => IsInjective(Tail(v)) /\ Head(v) \notin OpsOf(Tail(v))
<1> DEFINE n == Len(v)
           t == Tail(v)
<1>1. /\ n \in Nat \ {0} /\ DOMAIN v = 1..n /\ Head(v) = v[1] /\ Head(v) \in Ops
      /\ t \in Seq(Ops) /\ Len(t) = n - 1
      /\ \A i \in 1..(n - 1) : t[i] = v[i + 1]
  BY LenProperties, EmptySeq, HeadTailProperties
<1>2. DOMAIN t = 1..(n - 1)
  BY <1>1, LenProperties
<1> HIDE DEF n, t
<1>3. \A i \in 1..n : i = 1 \/ (i - 1 \in 1..(n - 1) /\ t[i - 1] = v[i])
  BY <1>1
<1>4. OpsOf(v) = {Head(v)} \cup OpsOf(t)
  <2>1. ASSUME NEW i \in 1..n PROVE v[i] = v[1] \/ v[i] \in OpsOf(t)
    <3>1. i = 1 \/ (i - 1 \in 1..(n - 1) /\ t[i - 1] = v[i])
      BY <1>3
    <3> QED BY <1>2, <3>1 DEF OpsOf
  <2>2. ASSUME NEW i \in 1..(n - 1) PROVE t[i] \in OpsOf(v)
    <3>1. i + 1 \in 1..n /\ t[i] = v[i + 1]
      BY <1>1
    <3> QED BY <1>1, <3>1 DEF OpsOf
  <2>3. v[1] \in OpsOf(v)
    BY <1>1 DEF OpsOf
  <2>4. OpsOf(v) \subseteq {v[1]} \cup OpsOf(t)
    BY <1>1, <2>1 DEF OpsOf
  <2>5. OpsOf(t) \subseteq OpsOf(v)
    BY <1>2, <2>2 DEF OpsOf
  <2> QED BY <1>1, <2>3, <2>4, <2>5
<1>5. ASSUME IsInjective(v) PROVE IsInjective(t) /\ Head(v) \notin OpsOf(t)
  <2>1. \A i \in 1..(n - 1) : i + 1 \in 1..n /\ i + 1 # 1
    BY <1>1
  <2>2. IsInjective(t)
    <3> SUFFICES ASSUME NEW i \in 1..(n - 1), NEW j \in 1..(n - 1), t[i] = t[j]
                 PROVE  i = j
      BY <1>2 DEF IsInjective
    <3>1. v[i + 1] = v[j + 1] /\ i + 1 \in DOMAIN v /\ j + 1 \in DOMAIN v
      BY <1>1
    <3>2. i + 1 = j + 1
      BY <1>5, <3>1 DEF IsInjective
    <3> QED BY <3>2
  <2>3. \A i \in 1..(n - 1) : t[i] # v[1]
    BY <1>1, <1>5, <2>1 DEF IsInjective
  <2> QED BY <1>1, <1>2, <2>2, <2>3 DEF OpsOf
<1>6. Len(t) = Len(v) - 1 /\ Len(v) \in Nat \ {0} /\ t \in Seq(Ops) /\ Head(v) \in Ops
  BY <1>1 DEF n
<1> QED BY <1>4, <1>5, <1>6 DEF t

-----------------------------------------------------------------------------
(* Types of the rows and of the command *)

\* The command in hand, and what it has still to do.
CmdTyped ==
  /\ cmd \in [kind : {"idle", "batch", "flush"}, todo : Seq(Ops),
              outcome : Results \cup {"none"}]
  /\ cmd.kind = "idle" <=> cmd.todo = << >>
  /\ cmd.kind = "idle" => cmd.outcome = "none"

RowsTyped ==
  /\ status \in [Ops -> Statuses]
  /\ defers \in [Ops -> 0..(MaxDeferredRetries + 1)]
  /\ line \in Seq(Ops)
  /\ mounted \subseteq Surfaces
  /\ crashes \in 0..MaxCrashes
  /\ CmdTyped

\* A row that waits may be failed, queued or left to wait; the others stay.
Drifts(st, st2) ==
  /\ st2 \in [Ops -> Statuses]
  /\ \A o \in Ops : \/ st2[o] = st[o]
                    \/ st[o] = "deferred" /\ st2[o] \in {"failed", "queued"}

\* The same, and a row may be deleted.
Settles(st, st2) ==
  /\ st2 \in [Ops -> Statuses]
  /\ \A o \in Ops : \/ st2[o] = st[o]
                    \/ st[o] = "deferred" /\ st2[o] \in {"failed", "queued"}
                    \/ st[o] # "absent" /\ st2[o] = "gone"

LEMMA PromotedDrifts ==
  ASSUME NEW st \in [Ops -> Statuses], NEW targets, NEW at, NEW on, NEW late
  PROVE  Drifts(st, Promoted(st, targets, at, on, late))
<1> DEFINE st2 == Promoted(st, targets, at, on, late)
<1>1. DOMAIN st2 = Ops /\ st2 = [o \in Ops |-> st2[o]]
  BY DEF Promoted
<1>2. ASSUME NEW o \in Ops
      PROVE  \/ st2[o] = st[o]
             \/ st[o] = "deferred" /\ st2[o] \in {"failed", "queued"}
  BY DEF Promoted
<1>3. \A o \in Ops : st2[o] \in Statuses
  BY <1>2 DEF Statuses
<1> HIDE DEF st2
<1>4. Drifts(st, st2)
  BY <1>1, <1>2, <1>3 DEF Drifts
<1> QED BY <1>4 DEF st2

LEMMA PromotedDefersTyped ==
  ASSUME RowsTyped, NEW st \in [Ops -> Statuses], NEW targets, NEW at, NEW on, NEW late
  PROVE  PromotedDefers(st, targets, at, on, late) \in [Ops -> 0..(MaxDeferredRetries + 1)]
<1> DEFINE waits(o) == /\ Promoted(st, targets, at, on, late)[o] = "deferred"
                       /\ Target[o] \in targets
                       /\ Readiness(o, at, on) = "missing"
           next == PromotedDefers(st, targets, at, on, late)
<1>1. ASSUME NEW o \in Ops, waits(o) PROVE defers[o] + 1 \in 0..(MaxDeferredRetries + 1)
  <2>1. ~ GivenUp(o, "missing", late)
    BY <1>1 DEF Promoted, RowsTyped
  <2>2. defers[o] \in 0..(MaxDeferredRetries + 1) /\ ~ (defers[o] > MaxDeferredRetries)
    BY <2>1 DEF GivenUp, RowsTyped
  <2>3. MaxDeferredRetries \in Nat
    BY SchedulerAssumption
  <2> QED BY <2>2, <2>3
<1>2. next = [o \in Ops |-> IF waits(o) THEN defers[o] + 1 ELSE defers[o]]
  BY Zenon DEF PromotedDefers
<1> HIDE DEF waits, next
<1>3. \A o \in Ops : defers[o] \in 0..(MaxDeferredRetries + 1)
  BY DEF RowsTyped
<1> QED BY <1>1, <1>2, <1>3 DEF next

LEMMA PromoteTyped ==
  ASSUME RowsTyped, NEW st \in [Ops -> Statuses], NEW targets, NEW at, NEW on,
         Promote(st, targets, at, on)
  PROVE  Drifts(st, status') /\ defers' \in [Ops -> 0..(MaxDeferredRetries + 1)]
<1>1. PICK late \in SUBSET RowsAre("deferred") :
        /\ status' = Promoted(st, targets, at, on, late)
        /\ defers' = PromotedDefers(st, targets, at, on, late)
  BY DEF Promote
<1> QED BY <1>1, PromotedDrifts, PromotedDefersTyped

LEMMA WithoutDeletedSettles ==
  ASSUME RowsTyped, NEW deleted
  PROVE  Settles(status, WithoutDeleted(deleted))
BY DEF RowsTyped, Settles, WithoutDeleted, Statuses

LEMMA RowsFollowSettles ==
  ASSUME RowsTyped, NEW batch, RowsFollow(batch)
  PROVE  Settles(status, status') /\ defers' \in [Ops -> 0..(MaxDeferredRetries + 1)]
<1> DEFINE st == WithoutDeleted(DeletedBy(batch))
<1>1. Settles(status, st)
  BY WithoutDeletedSettles
<1> HIDE DEF st
<1>2. Promote(st, Inlined(batch), surface', {})
  BY DEF RowsFollow, st
<1>3. st \in [Ops -> Statuses]
  BY <1>1 DEF Settles
<1>4. Drifts(st, status') /\ defers' \in [Ops -> 0..(MaxDeferredRetries + 1)]
  BY <1>2, <1>3, PromoteTyped
<1> QED BY <1>1, <1>4 DEF Settles, Drifts

\* What a call of the kernel leaves of the rows.
LEMMA ChangeSettles ==
  ASSUME RowsTyped, NEW batch, NEW result,
         IF result = "committed" THEN RowsFollow(batch) ELSE UNCHANGED <<status, defers>>
  PROVE  Settles(status, status') /\ defers' \in [Ops -> 0..(MaxDeferredRetries + 1)]
<1>1. CASE result = "committed"
  BY <1>1, RowsFollowSettles
<1>2. CASE result # "committed"
  BY <1>2 DEF RowsTyped, Settles
<1> QED BY <1>1, <1>2

LEMMA MarkTyped ==
  ASSUME RowsTyped, cmd.kind # "idle"
  PROVE  /\ Head(cmd.todo) \in Ops
         /\ WithMark(Head(cmd.todo)) \in [Ops -> Statuses]
         /\ \A o \in Ops \ {Head(cmd.todo)} : WithMark(Head(cmd.todo))[o] = status[o]
         /\ LET o == Head(cmd.todo)
            IN  WithMark(o)[o] = IF status[o] = "gone" THEN "gone" ELSE Marked(cmd.outcome)
<1>1. cmd.todo \in Seq(Ops) /\ cmd.todo # << >>
  BY DEF RowsTyped, CmdTyped
<1>2. Head(cmd.todo) \in Ops
  BY <1>1, TailOps
<1>3. Marked(cmd.outcome) \in Statuses
  BY DEF Marked, Statuses
<1> QED BY <1>2, <1>3 DEF WithMark, RowsTyped

\* After a mark the rest of the list is left, if any.
LEMMA NextInHand ==
  ASSUME RowsTyped, cmd.kind # "idle", NEW outcome \in Results \cup {"none"},
         cmd' = IF Len(cmd.todo) = 1 THEN Idle
                ELSE [kind |-> cmd.kind, todo |-> Tail(cmd.todo), outcome |-> outcome]
  PROVE  CmdTyped' /\ cmd'.todo = Tail(cmd.todo)
<1>1. cmd.todo \in Seq(Ops) /\ cmd.todo # << >> /\ cmd.kind \in {"batch", "flush"}
  BY DEF RowsTyped, CmdTyped
<1>2. /\ Tail(cmd.todo) \in Seq(Ops) /\ Len(Tail(cmd.todo)) = Len(cmd.todo) - 1
      /\ Len(cmd.todo) \in Nat \ {0}
  BY <1>1, TailOps
<1>3. CASE Len(cmd.todo) = 1
  <2>1. Len(Tail(cmd.todo)) = 0
    BY <1>2, <1>3
  <2>2. Tail(cmd.todo) = << >>
    BY <1>2, <2>1, EmptySeq
  <2>3. << >> \in Seq(Ops)
    BY EmptySeq
  <2> QED BY <1>3, <2>2, <2>3 DEF CmdTyped, Idle
<1>4. CASE Len(cmd.todo) # 1
  <2>1. Len(Tail(cmd.todo)) # 0
    BY <1>2, <1>4
  <2>2. Tail(cmd.todo) # << >>
    BY <2>1, EmptySeq
  <2> QED BY <1>1, <1>2, <1>4, <2>2 DEF CmdTyped
<1> QED BY <1>3, <1>4

-----------------------------------------------------------------------------
(* What scheduling, a flush and a mark do to the rows *)

LEMMA ScheduleDoes ==
  ASSUME RowsTyped, NEW b \in Batches, Schedule(b)
  PROVE  /\ Members[b] \in Seq(Ops) /\ IsInjective(Members[b])
         /\ OpsOf(Members[b]) \subseteq Ops
         /\ \A o \in OpsOf(Members[b]) :
              status[o] = "absent" /\ status'[o] \in {"queued", "deferred"}
         /\ \A o \in Ops \ OpsOf(Members[b]) : status'[o] = status[o]
         /\ status' \in [Ops -> Statuses]
         /\ defers' \in [Ops -> 0..(MaxDeferredRetries + 1)]
         /\ line' \in Seq(Ops) /\ line' = line \o Members[b]
<1> DEFINE ops == OpsOf(Members[b])
           ready == [o \in ops |-> Readiness(o, surface, mounted)]
<1>1. Members[b] \in Seq(Ops) /\ IsInjective(Members[b])
  BY SchedulerAssumption
<1>2. ops \subseteq Ops
  BY <1>1 DEF OpsOf
<1>3. /\ \A o \in ops : status[o] = "absent"
      /\ status' = [o \in Ops |-> IF o \notin ops THEN status[o]
                                  ELSE IF ready[o] = "ready" THEN "queued" ELSE "deferred"]
      /\ defers' = [o \in Ops |-> IF o \in ops /\ ready[o] # "ready" THEN 1 ELSE defers[o]]
      /\ line' = line \o Members[b]
  BY Zenon DEF Schedule
<1> HIDE DEF ready, ops
<1>4. \A o \in Ops : status[o] \in Statuses /\ defers[o] \in 0..(MaxDeferredRetries + 1)
  BY DEF RowsTyped
<1>5. status' \in [Ops -> Statuses]
  BY <1>3, <1>4 DEF Statuses
<1>6. 1 \in 0..(MaxDeferredRetries + 1)
  BY SchedulerAssumption
<1>7. defers' \in [Ops -> 0..(MaxDeferredRetries + 1)]
  BY <1>3, <1>4, <1>6
<1>8. line' \in Seq(Ops)
  BY <1>1, <1>3, ConcatOps DEF RowsTyped
<1>9. \A o \in ops : status'[o] \in {"queued", "deferred"}
  BY <1>2, <1>3
<1>10. \A o \in Ops \ ops : status'[o] = status[o]
  BY <1>3
<1> QED BY <1>1, <1>2, <1>3, <1>5, <1>7, <1>8, <1>9, <1>10 DEF ops

LEMMA InOrderProps ==
  ASSUME line \in Seq(Ops), NEW chosen
  PROVE  /\ InOrder(chosen) \in Seq(Ops)
         /\ OpsOf(InOrder(chosen)) \subseteq chosen
         /\ IsInjective(line) => IsInjective(InOrder(chosen))
<1> DEFINE roots == {o \in chosen : Deps[o] \cap chosen = {}}
           v == Picked(line, roots)
           w == Picked(line, chosen \ roots)
<1>1. /\ v \in Seq(Ops) /\ OpsOf(v) = OpsOf(line) \cap roots
      /\ IsInjective(line) => IsInjective(v)
  BY PickedProps
<1>2. /\ w \in Seq(Ops) /\ OpsOf(w) = OpsOf(line) \cap (chosen \ roots)
      /\ IsInjective(line) => IsInjective(w)
  BY PickedProps
<1>3. InOrder(chosen) = v \o w
  BY Zenon DEF InOrder
<1>4. roots \subseteq chosen /\ roots \cap (chosen \ roots) = {}
  OBVIOUS
<1> HIDE DEF v, w, roots
<1>5. /\ v \o w \in Seq(Ops) /\ OpsOf(v \o w) = OpsOf(v) \cup OpsOf(w)
      /\ IsInjective(v) /\ IsInjective(w) /\ OpsOf(v) \cap OpsOf(w) = {}
         => IsInjective(v \o w)
  BY <1>1, <1>2, ConcatOps
<1>6. OpsOf(v) \cap OpsOf(w) = {} /\ OpsOf(v) \cup OpsOf(w) \subseteq chosen
  BY <1>1, <1>2, <1>4
<1> QED BY <1>1, <1>2, <1>3, <1>5, <1>6

\* What a flush does to one row.
Flushed(o) ==
  /\ status'[o] \in Statuses
  /\ status[o] \notin {"queued", "deferred"} => status'[o] = status[o]
  /\ status[o] \in {"queued", "deferred"} =>
       status'[o] \in {"queued", "deferred", "failed", "applied"}
  /\ status'[o] = "applied" => status[o] = "applied" \/ o \in Committed
  /\ status'[o] = "queued" => o \notin Committed
  /\ status'[o] \in {"failed", "deferred"} /\ status[o] = "queued" => o \notin Committed

LEMMA FlushDoes ==
  ASSUME RowsTyped, NEW s \in Views, FlushBegins(s)
  PROVE  /\ status' \in [Ops -> Statuses]
         /\ \A o \in Ops : Flushed(o)
         /\ defers' \in [Ops -> 0..(MaxDeferredRetries + 1)]
         /\ CmdTyped'
         /\ OpsOf(cmd'.todo) \subseteq {o \in Ops : status'[o] = "queued"}
         /\ IsInjective(line) => IsInjective(cmd'.todo)
         /\ cmd'.outcome = "none"
<1> DEFINE st0(late) == Promoted(status, Everywhere, surface, mounted, late)
           st1(late) == Recovered(st0(late))
           st2(late) == Gated(st1(late))
           executable(late) == {o \in Ops : st2(late)[o] = "queued"}
           doomed(late) == Doomed(st2(late), executable(late))
           chosen(late) == executable(late) \ (doomed(late) \cup Waiting(st2(late), executable(late)))
<1>1. PICK late \in SUBSET RowsAre("deferred") :
        /\ status' = [o \in Ops |-> IF o \in doomed(late) THEN "failed" ELSE st2(late)[o]]
        /\ defers' = PromotedDefers(status, Everywhere, surface, mounted, late)
        /\ cmd' = IF InOrder(chosen(late)) = << >> THEN Idle
                  ELSE [kind |-> "flush", todo |-> InOrder(chosen(late)), outcome |-> "none"]
  BY Zenon DEF FlushBegins
<1> DEFINE s0 == st0(late)
           s1 == st1(late)
           s2 == st2(late)
           doom == doomed(late)
           pick == chosen(late)
           todo == InOrder(pick)
<1>2. status \in [Ops -> Statuses]
  BY DEF RowsTyped
<1>3. Drifts(status, s0)
  BY <1>2, PromotedDrifts
<1>4. s1 = Recovered(s0) /\ s2 = Gated(s1)
  OBVIOUS
<1>5. doom \subseteq {o \in Ops : s2[o] = "queued"}
  BY DEF Doomed, Missing, Downstream
<1>6. pick \subseteq {o \in Ops : s2[o] = "queued"} /\ pick \cap doom = {}
  OBVIOUS
<1>7. /\ status' = [o \in Ops |-> IF o \in doom THEN "failed" ELSE s2[o]]
      /\ cmd' = IF todo = << >> THEN Idle
                ELSE [kind |-> "flush", todo |-> todo, outcome |-> "none"]
  BY <1>1
<1>8. defers' \in [Ops -> 0..(MaxDeferredRetries + 1)]
  BY <1>1, <1>2, PromotedDefersTyped
<1> HIDE DEF s0, s1, s2, doom, pick
<1>9. /\ todo \in Seq(Ops) /\ OpsOf(todo) \subseteq pick
      /\ IsInjective(line) => IsInjective(todo)
  BY InOrderProps DEF RowsTyped
<1> HIDE DEF todo
<1>10. ASSUME NEW o \in Ops PROVE Flushed(o)
  <2>1. /\ status[o] \in Statuses
        /\ \/ s0[o] = status[o]
           \/ status[o] = "deferred" /\ s0[o] \in {"failed", "queued"}
    BY <1>2, <1>3 DEF Drifts
  <2>2. \/ s1[o] = s0[o] /\ (s1[o] = "queued" => o \notin Committed)
        \/ s0[o] = "queued" /\ s1[o] = "applied" /\ o \in Committed
        \/ s0[o] = "queued" /\ s1[o] = "failed" /\ o \notin Committed
    BY <1>4 DEF Recovered
  <2>3. s2[o] = s1[o] \/ (s1[o] = "queued" /\ s2[o] \in {"failed", "deferred"})
    BY <1>4 DEF Gated
  <2>4. status'[o] = s2[o] \/ (s2[o] = "queued" /\ status'[o] = "failed")
    BY <1>5, <1>7
  <2>5. status'[o] \in Statuses
    BY <2>1, <2>2, <2>3, <2>4 DEF Statuses
  <2> QED BY <2>1, <2>2, <2>3, <2>4, <2>5 DEF Flushed
<1>11. status' \in [Ops -> Statuses]
  <2>1. \A o \in Ops : status'[o] \in Statuses
    BY <1>10 DEF Flushed
  <2> QED BY <1>7, <2>1
<1>12. << >> \in Seq(Ops) /\ OpsOf(<< >>) = {} /\ IsInjective(<< >>)
  BY EmptySeq DEF OpsOf, IsInjective
<1>13. CmdTyped' /\ OpsOf(cmd'.todo) \subseteq pick /\ cmd'.outcome = "none"
       /\ (IsInjective(line) => IsInjective(cmd'.todo))
  <2>1. CASE todo = << >>
    BY <1>7, <1>12, <2>1 DEF Idle, CmdTyped
  <2>2. CASE todo # << >>
    BY <1>7, <1>9, <2>2 DEF CmdTyped
  <2> QED BY <2>1, <2>2
<1>14. pick \subseteq {o \in Ops : status'[o] = "queued"}
  BY <1>6, <1>7
<1> QED BY <1>8, <1>10, <1>11, <1>13, <1>14

\* A record of three fields with some of them replaced.
Fields(c) == c = [kind |-> c.kind, todo |-> c.todo, outcome |-> c.outcome]

LEMMA WithFields ==
  ASSUME NEW c, Fields(c), NEW t
  PROVE  /\ [c EXCEPT !.todo = t] = [kind |-> c.kind, todo |-> t, outcome |-> c.outcome]
         /\ [c EXCEPT !.todo = t, !.outcome = "none"] = [kind |-> c.kind, todo |-> t, outcome |-> "none"]
         /\ \A u : [c EXCEPT !.outcome = u] = [kind |-> c.kind, todo |-> c.todo, outcome |-> u]
<1>1. c = [kind |-> c.kind, todo |-> c.todo, outcome |-> c.outcome]
  BY DEF Fields
<1> DEFINE a == c.kind
           b == c.todo
           d == c.outcome
<1>2. c = [kind |-> a, todo |-> b, outcome |-> d]
  BY <1>1
<1> HIDE DEF a, b, d
<1>3. [c EXCEPT !.todo = t] = [kind |-> a, todo |-> t, outcome |-> d]
  BY <1>2
<1>4. [c EXCEPT !.todo = t, !.outcome = "none"] = [kind |-> a, todo |-> t, outcome |-> "none"]
  <2>1. ASSUME NEW e, e = [kind |-> a, todo |-> t, outcome |-> d]
        PROVE  [e EXCEPT !.outcome = "none"] = [kind |-> a, todo |-> t, outcome |-> "none"]
    BY <2>1
  <2>2. [[c EXCEPT !.todo = t] EXCEPT !.outcome = "none"]
          = [kind |-> a, todo |-> t, outcome |-> "none"]
    BY <1>3, <2>1, Zenon
  <2> QED BY <2>2
<1>5. \A u : [c EXCEPT !.outcome = u] = [kind |-> a, todo |-> b, outcome |-> u]
  BY <1>2
<1> QED BY <1>3, <1>4, <1>5, Zenon DEF a, b, d

\* What a mark does: the row at the head gets it, and after a commit rows that
\* waited may move.
LEMMA MarksDo ==
  ASSUME RowsTyped, BatchMarks \/ FlushMarks
  PROVE  /\ cmd.kind # "idle" /\ cmd.outcome # "none"
         /\ Head(cmd.todo) \in Ops
         /\ status' \in [Ops -> Statuses]
         /\ defers' \in [Ops -> 0..(MaxDeferredRetries + 1)]
         /\ \A o \in Ops \ {Head(cmd.todo)} :
              \/ status'[o] = status[o]
              \/ status[o] = "deferred" /\ status'[o] \in {"failed", "queued"}
         /\ status'[Head(cmd.todo)] = IF status[Head(cmd.todo)] = "gone" THEN "gone"
                                      ELSE Marked(cmd.outcome)
         /\ CmdTyped'
         /\ cmd'.todo = Tail(cmd.todo)
         /\ cmd' = Idle \/ (cmd'.kind = cmd.kind
                            /\ cmd'.outcome = IF cmd.kind = "batch" THEN cmd.outcome ELSE "none")
<1> DEFINE o == Head(cmd.todo)
           marked == WithMark(o)
           mark == Marked(cmd.outcome)
           next == [kind |-> cmd.kind, todo |-> Tail(cmd.todo),
                    outcome |-> IF cmd.kind = "batch" THEN cmd.outcome ELSE "none"]
<1>1. cmd.kind \in {"batch", "flush"} /\ cmd.outcome # "none"
  BY DEF BatchMarks, FlushMarks
<1>2. /\ o \in Ops /\ marked \in [Ops -> Statuses]
      /\ \A p \in Ops \ {o} : marked[p] = status[p]
      /\ marked[o] = IF status[o] = "gone" THEN "gone" ELSE mark
  BY <1>1, MarkTyped
<1>3. mark \in {"applied", "pending_approval", "failed"}
  BY DEF Marked
<1>4. cmd \in [kind : {"idle", "batch", "flush"}, todo : Seq(Ops),
               outcome : Results \cup {"none"}]
  BY DEF RowsTyped, CmdTyped
<1>4a. Fields(cmd)
  BY <1>4 DEF Fields
<1>5. defers \in [Ops -> 0..(MaxDeferredRetries + 1)]
  BY DEF RowsTyped
<1>6. cmd' = IF Len(cmd.todo) = 1 THEN Idle ELSE next
  <2>1. CASE BatchMarks
    <3>1. cmd' = IF Len(cmd.todo) = 1 THEN Idle ELSE [cmd EXCEPT !.todo = Tail(@)]
      BY <2>1, Zenon DEF BatchMarks
    <3>2. cmd.kind = "batch"
      BY <2>1 DEF BatchMarks
    <3>3. [cmd EXCEPT !.todo = Tail(@)]
            = [kind |-> cmd.kind, todo |-> Tail(cmd.todo), outcome |-> cmd.outcome]
      BY <1>4a, WithFields
    <3>4. next = [kind |-> cmd.kind, todo |-> Tail(cmd.todo), outcome |-> cmd.outcome]
      BY <3>2
    <3> HIDE DEF next
    <3> QED BY <3>1, <3>3, <3>4
  <2>2. CASE FlushMarks
    <3>1. cmd' = IF Len(cmd.todo) = 1 THEN Idle
                 ELSE [cmd EXCEPT !.todo = Tail(@), !.outcome = "none"]
      BY <2>2, Zenon DEF FlushMarks
    <3>2. cmd.kind = "flush"
      BY <2>2 DEF FlushMarks
    <3>3. [cmd EXCEPT !.todo = Tail(@), !.outcome = "none"]
            = [kind |-> cmd.kind, todo |-> Tail(cmd.todo), outcome |-> "none"]
      BY <1>4a, WithFields
    <3>4. next = [kind |-> cmd.kind, todo |-> Tail(cmd.todo), outcome |-> "none"]
      BY <3>2
    <3> HIDE DEF next
    <3> QED BY <3>1, <3>3, <3>4
  <2> QED BY <2>1, <2>2
<1>7. next.outcome \in Results \cup {"none"}
  BY <1>4
<1>8. CmdTyped' /\ cmd'.todo = Tail(cmd.todo)
  <2>1. cmd.kind # "idle"
    BY <1>1
  <2> QED BY <1>6, <1>7, <2>1, NextInHand
<1>9. \/ status' = marked /\ UNCHANGED defers
      \/ Promote(marked, Everywhere, surface, mounted)
  BY Zenon DEF BatchMarks, FlushMarks
<1>10. Drifts(marked, status') /\ defers' \in [Ops -> 0..(MaxDeferredRetries + 1)]
  <2>1. CASE status' = marked /\ UNCHANGED defers
    BY <1>2, <1>5, <2>1 DEF Drifts
  <2>2. CASE Promote(marked, Everywhere, surface, mounted)
    BY <1>2, <2>2, PromoteTyped
  <2> QED BY <1>9, <2>1, <2>2
<1> HIDE DEF marked, mark
<1>11. status'[o] = marked[o]
  BY <1>2, <1>3, <1>10 DEF Drifts
<1>12. \A p \in Ops \ {o} : \/ status'[p] = status[p]
                            \/ status[p] = "deferred" /\ status'[p] \in {"failed", "queued"}
  BY <1>2, <1>10 DEF Drifts
<1>13. cmd' = Idle \/ (cmd'.kind = cmd.kind
                       /\ cmd'.outcome = IF cmd.kind = "batch" THEN cmd.outcome ELSE "none")
  BY <1>6
<1>14. status' \in [Ops -> Statuses]
  BY <1>10 DEF Drifts
<1> QED BY <1>1, <1>2, <1>8, <1>10, <1>11, <1>12, <1>13, <1>14 DEF mark

-----------------------------------------------------------------------------
(* The invariant of the rows *)

\* Of the command's list: what may still commit, what may still be proposed, and
\* what has committed and not been marked.
Upcoming ==
  IF cmd.outcome # "committed" THEN OpsOf(cmd.todo)
  ELSE IF cmd.kind = "batch" THEN {} ELSE OpsOf(Tail(cmd.todo))
Unasked ==
  IF cmd.outcome \notin {"committed", "proposal"} THEN OpsOf(cmd.todo)
  ELSE IF cmd.kind = "batch" THEN {} ELSE OpsOf(Tail(cmd.todo))
Done ==
  IF cmd.outcome # "committed" THEN {}
  ELSE IF cmd.kind = "batch" THEN OpsOf(cmd.todo) ELSE {Head(cmd.todo)}

LineInv ==
  /\ IsInjective(line)
  /\ \A o \in OpsOf(line) : o \in Ops /\ status[o] # "absent"

CmdInv ==
  /\ IsInjective(cmd.todo)
  /\ \A o \in OpsOf(cmd.todo) : o \in Ops /\ status[o] \in {"queued", "gone"}
  /\ Upcoming \cap Committed = {}
  /\ Done \subseteq Committed
  /\ crashes = 0 => Unasked \cap Proposed = {}

BookInv ==
  /\ \A o \in Ops : status[o] = "absent" => o \notin Committed \cup Proposed
  /\ \A o \in Ops : status[o] = "applied" => o \in Committed
  /\ \A o \in Ops : status[o] \in {"failed", "deferred"} => o \notin Direct
  /\ crashes = 0 =>
       \A o \in Ops : /\ status[o] \in {"queued", "deferred", "failed"}
                      /\ o \in Committed \cup Proposed
                      => o \in OpsOf(cmd.todo)

RowInv == RowsTyped /\ LineInv /\ CmdInv /\ BookInv

LEMMA InHand ==
  /\ Upcoming' = IF cmd'.outcome # "committed" THEN OpsOf(cmd'.todo)
                 ELSE IF cmd'.kind = "batch" THEN {} ELSE OpsOf(Tail(cmd'.todo))
  /\ Unasked' = IF cmd'.outcome \notin {"committed", "proposal"} THEN OpsOf(cmd'.todo)
                ELSE IF cmd'.kind = "batch" THEN {} ELSE OpsOf(Tail(cmd'.todo))
  /\ Done' = IF cmd'.outcome # "committed" THEN {}
             ELSE IF cmd'.kind = "batch" THEN OpsOf(cmd'.todo) ELSE {Head(cmd'.todo)}
BY Zenon DEF Upcoming, Unasked, Done, OpsOf

\* The parts of the invariant about the next state, with the primes where the
\* provers see them.
LEMMA NextCmd ==
  ASSUME IsInjective(cmd'.todo),
         \A o \in OpsOf(cmd'.todo) : o \in Ops /\ status'[o] \in {"queued", "gone"},
         Upcoming' \cap Committed' = {},
         Done' \subseteq Committed',
         crashes' = 0 => Unasked' \cap Proposed' = {}
  PROVE  CmdInv'
<1>1. IsInjective(cmd.todo)'
  BY Zenon DEF IsInjective
<1>2. (\A o \in OpsOf(cmd.todo) : o \in Ops /\ status[o] \in {"queued", "gone"})'
  BY Zenon DEF OpsOf
<1> QED BY <1>1, <1>2, Zenon DEF CmdInv

LEMMA NextLine ==
  ASSUME IsInjective(line'), \A o \in OpsOf(line') : o \in Ops /\ status'[o] # "absent"
  PROVE  LineInv'
<1>1. IsInjective(line)'
  BY Zenon DEF IsInjective
<1>2. (\A o \in OpsOf(line) : o \in Ops /\ status[o] # "absent")'
  BY Zenon DEF OpsOf
<1> QED BY <1>1, <1>2, Zenon DEF LineInv

LEMMA NextBooks ==
  ASSUME \A o \in Ops : status'[o] = "absent" => o \notin Committed' \cup Proposed',
         \A o \in Ops : status'[o] = "applied" => o \in Committed',
         \A o \in Ops : status'[o] \in {"failed", "deferred"} => o \notin Direct',
         crashes' = 0 =>
           \A o \in Ops : /\ status'[o] \in {"queued", "deferred", "failed"}
                          /\ o \in Committed' \cup Proposed'
                          => o \in OpsOf(cmd'.todo)
  PROVE  BookInv'
<1> DEFINE todo == OpsOf(cmd.todo)
<1>1. todo' = OpsOf(cmd'.todo)
  BY Zenon DEF OpsOf
<1> HIDE DEF todo
<1>2. crashes' = 0 =>
        \A o \in Ops : /\ status'[o] \in {"queued", "deferred", "failed"}
                       /\ o \in Committed' \cup Proposed'
                       => o \in todo'
  BY <1>1
<1> QED BY <1>2, Zenon DEF BookInv, todo

\* The rows settle while operations are committed and proposed.
LEMMA SettledLine ==
  ASSUME RowInv, Settles(status, status'), UNCHANGED line
  PROVE  LineInv'
<1>1. IsInjective(line') /\ \A o \in OpsOf(line') : o \in Ops /\ status[o] # "absent"
  BY DEF RowInv, LineInv
<1>2. \A o \in OpsOf(line') : status'[o] # "absent"
  BY <1>1 DEF Settles
<1> QED BY <1>1, <1>2, NextLine

LEMMA SettledBooks ==
  ASSUME RowInv, Settles(status, status'), UNCHANGED crashes,
         NEW cnew, NEW dnew, NEW pnew,
         Committed' = Committed \cup cnew,
         Direct' = Direct \cup dnew,
         Proposed' = Proposed \cup pnew,
         \A o \in Ops : o \in dnew => status[o] \in {"queued", "gone"},
         \A o \in Ops : o \in cnew \cup pnew => status[o] # "absent",
         crashes = 0 =>
           \A o \in Ops : /\ status[o] \in {"queued", "deferred", "failed"}
                          /\ o \in Committed \cup Proposed \cup cnew \cup pnew
                          => o \in OpsOf(cmd'.todo)
  PROVE  BookInv'
<1> USE DEF RowInv, BookInv, Settles
<1>1. ASSUME NEW o \in Ops
      PROVE  /\ status'[o] = "absent" => o \notin Committed' \cup Proposed'
             /\ status'[o] = "applied" => o \in Committed'
             /\ status'[o] \in {"failed", "deferred"} => o \notin Direct'
  <2>1. \/ status'[o] = status[o]
        \/ status[o] = "deferred" /\ status'[o] \in {"failed", "queued"}
        \/ status[o] # "absent" /\ status'[o] = "gone"
    OBVIOUS
  <2>2. /\ status[o] = "absent" => o \notin Committed \cup Proposed
        /\ status[o] = "applied" => o \in Committed
        /\ status[o] \in {"failed", "deferred"} => o \notin Direct
        /\ o \in dnew => status[o] \in {"queued", "gone"}
        /\ o \in cnew \cup pnew => status[o] # "absent"
    OBVIOUS
  <2> QED BY <2>1, <2>2
<1>2. ASSUME crashes' = 0, NEW o \in Ops,
             status'[o] \in {"queued", "deferred", "failed"},
             o \in Committed' \cup Proposed'
      PROVE  o \in OpsOf(cmd'.todo)
  <2>1. status[o] \in {"queued", "deferred", "failed"}
    BY <1>2
  <2> QED BY <1>2, <2>1
<1> QED BY <1>1, <1>2, NextBooks

LEMMA ChangeBooks ==
  ASSUME Shape, NEW batch, NEW agent, NEW granted, NEW result,
         ApplyChange(batch, agent, granted, result)
  PROVE  /\ Committed' = Committed \cup (IF result = "committed" THEN OpsOf(batch) ELSE {})
         /\ Direct' = Direct \cup (IF result = "committed" THEN OpsOf(batch) ELSE {})
         /\ Proposed' = Proposed \cup (IF result = "proposal" THEN OpsOf(batch) ELSE {})
<1>1. CASE result = "committed"
  <2>1. Commit(batch, "direct") /\ UNCHANGED proposals
    BY <1>1 DEF ApplyChange
  <2> DEFINE e == Entry(batch, "direct", Run(batch).at)
  <2>2. log' = Append(log, e) /\ e.batch = batch /\ e.via = "direct"
    BY <2>1 DEF Commit, Entry
  <2> HIDE DEF e
  <2>3. Committed' = Committed \cup OpsOf(batch) /\ Direct' = Direct \cup OpsOf(batch)
    BY <2>2, LogGrows DEF Shape
  <2>4. Proposed' = Proposed
    BY <2>1, SameProposed
  <2> QED BY <1>1, <2>3, <2>4
<1>2. CASE result = "proposal"
  <2>1. Propose(batch)
    BY <1>2 DEF ApplyChange
  <2> DEFINE p == [batch |-> batch, base |-> Frozen(batch), status |-> "pending"]
  <2>2. proposals' = Append(proposals, p) /\ p.batch = batch /\ UNCHANGED log
    BY <2>1 DEF Propose
  <2> HIDE DEF p
  <2>3. Proposed' = Proposed \cup OpsOf(batch)
    BY <2>2, ProposalsGrow DEF Shape
  <2>4. Committed' = Committed /\ Direct' = Direct
    BY <2>2, SameLog
  <2> QED BY <1>2, <2>3, <2>4
<1>3. CASE result \notin {"committed", "proposal"}
  <2>1. UNCHANGED <<log, proposals>>
    BY <1>3 DEF ApplyChange
  <2>2. Committed' = Committed /\ Direct' = Direct /\ Proposed' = Proposed
    BY <2>1, SameLog, SameProposed
  <2> QED BY <1>3, <2>2
<1> QED BY <1>1, <1>2, <1>3

LEMMA NextRows ==
  ASSUME status' \in [Ops -> Statuses],
         defers' \in [Ops -> 0..(MaxDeferredRetries + 1)],
         line' \in Seq(Ops),
         mounted' \subseteq Surfaces,
         crashes' \in 0..MaxCrashes,
         CmdTyped'
  PROVE  RowsTyped'
BY DEF RowsTyped

LEMMA EmptyHand ==
  ASSUME cmd' = Idle
  PROVE  /\ CmdTyped' /\ CmdInv' /\ OpsOf(cmd'.todo) = {}
<1>1. << >> \in Seq(Ops) /\ OpsOf(<< >>) = {} /\ IsInjective(<< >>)
  BY EmptySeq DEF OpsOf, IsInjective
<1>2. cmd'.todo = << >> /\ cmd'.outcome = "none" /\ cmd'.kind = "idle"
  BY DEF Idle
<1>3. CmdTyped'
  BY <1>1 DEF CmdTyped, Idle
<1>4. Upcoming' = {} /\ Unasked' = {} /\ Done' = {}
  BY <1>1, <1>2, InHand
<1>5. CmdInv'
  BY <1>1, <1>2, <1>4, NextCmd
<1> QED BY <1>1, <1>2, <1>3, <1>5

LEMMA ScheduleKeeps ==
  ASSUME IInv, RowInv, NEW b \in Batches, ScheduleOnly(b) \/ ScheduleAndApply(b)
  PROVE  RowInv'
<1>1. /\ Schedule(b)
      /\ UNCHANGED <<log, proposals, mounted, crashes>>
      /\ cmd = Idle
  BY DEF ScheduleOnly, ScheduleAndApply, Schedule, tables
<1> DEFINE ops == OpsOf(Members[b])
<1>2. /\ Members[b] \in Seq(Ops) /\ IsInjective(Members[b])
      /\ ops \subseteq Ops
      /\ \A o \in ops : status[o] = "absent" /\ status'[o] \in {"queued", "deferred"}
      /\ \A o \in Ops \ ops : status'[o] = status[o]
      /\ status' \in [Ops -> Statuses]
      /\ defers' \in [Ops -> 0..(MaxDeferredRetries + 1)]
      /\ line' \in Seq(Ops) /\ line' = line \o Members[b]
  BY <1>1, ScheduleDoes DEF RowInv
<1>3. Committed' = Committed /\ Direct' = Direct /\ Proposed' = Proposed
  BY <1>1, SameLog, SameProposed DEF IInv
<1> HIDE DEF ops
<1>4. ASSUME NEW o \in ops PROVE o \notin Committed \cup Proposed /\ o \in Ops
  BY <1>2, <1>4 DEF RowInv, BookInv
<1>5. Direct \subseteq Committed
  BY DEF Direct, Committed
<1> DEFINE queued == {o \in Ops : status'[o] = "queued"}
           ready == Picked(Members[b], queued)
<1>6. ready \in Seq(Ops) /\ OpsOf(ready) = ops \cap queued /\ IsInjective(ready)
  BY <1>2, PickedProps DEF ops
<1>7. \/ cmd' = Idle
      \/ cmd' = [kind |-> "batch", todo |-> ready, outcome |-> "none"] /\ ready # << >>
  <2>1. CASE ScheduleOnly(b)
    BY <1>1, <2>1 DEF ScheduleOnly
  <2>2. CASE ScheduleAndApply(b)
    <3>1. (RowsAre("queued"))' = queued
      BY DEF RowsAre
    <3> QED BY <2>2, <3>1, Zenon DEF ScheduleAndApply
  <2> QED BY <2>1, <2>2
<1> HIDE DEF ready, queued
<1>8. CmdTyped' /\ CmdInv'
  <2>1. CASE cmd' = Idle
    BY <2>1, EmptyHand
  <2>2. CASE cmd' = [kind |-> "batch", todo |-> ready, outcome |-> "none"] /\ ready # << >>
    <3>1. CmdTyped'
      BY <1>6, <2>2 DEF CmdTyped
    <3>2. cmd'.todo = ready /\ cmd'.outcome = "none"
      BY <2>2
    <3>3. Upcoming' = OpsOf(ready) /\ Unasked' = OpsOf(ready) /\ Done' = {}
      BY <3>2, InHand
    <3>4. \A o \in OpsOf(ready) : o \in Ops /\ status'[o] = "queued"
      BY <1>6 DEF queued
    <3>5. OpsOf(ready) \cap (Committed \cup Proposed) = {}
      BY <1>4, <1>6
    <3>6. CmdInv'
      BY <1>3, <1>6, <3>2, <3>3, <3>4, <3>5, NextCmd
    <3> QED BY <3>1, <3>6
  <2> QED BY <1>7, <2>1, <2>2
<1>9. RowsTyped'
  BY <1>1, <1>2, <1>8, NextRows DEF RowInv, RowsTyped
<1>10. LineInv'
  <2>1. line \in Seq(Ops) /\ IsInjective(line)
        /\ \A o \in OpsOf(line) : o \in Ops /\ status[o] # "absent"
    BY DEF RowInv, RowsTyped, LineInv
  <2>2. OpsOf(line) \cap OpsOf(Members[b]) = {}
    BY <1>2, <2>1 DEF ops
  <2>3. IsInjective(line') /\ OpsOf(line') = OpsOf(line) \cup ops
    BY <1>2, <2>1, <2>2, ConcatOps DEF ops
  <2>4. \A o \in OpsOf(line') : o \in Ops /\ status'[o] # "absent"
    BY <1>2, <2>1, <2>3
  <2> QED BY <2>3, <2>4, NextLine
<1>11. BookInv'
  <2>1. OpsOf(cmd.todo) = {}
    BY <1>1 DEF Idle, OpsOf
  <2>2. ASSUME NEW o \in Ops
        PROVE  /\ status'[o] = "absent" => o \notin Committed' \cup Proposed'
               /\ status'[o] = "applied" => o \in Committed'
               /\ status'[o] \in {"failed", "deferred"} => o \notin Direct'
               /\ crashes' = 0 /\ status'[o] \in {"queued", "deferred", "failed"}
                    => o \notin Committed' \cup Proposed'
    <3>1. CASE o \in ops
      BY <1>2, <1>3, <1>4, <1>5, <3>1
    <3>2. CASE o \notin ops
      BY <1>1, <1>2, <1>3, <2>1, <3>2 DEF RowInv, BookInv
    <3> QED BY <3>1, <3>2
  <2> QED BY <2>2, NextBooks
<1> QED BY <1>8, <1>9, <1>10, <1>11 DEF RowInv

LEMMA BatchAppliesKeeps ==
  ASSUME IInv, RowInv, NEW result \in Results, BatchApplies(result)
  PROVE  RowInv'
<1> DEFINE ops == OpsOf(cmd.todo)
<1>1. /\ cmd.kind = "batch" /\ cmd.outcome = "none"
      /\ IF result = "committed" THEN RowsFollow(cmd.todo) ELSE UNCHANGED <<status, defers>>
      /\ cmd' = [cmd EXCEPT !.outcome = result]
      /\ UNCHANGED <<line, mounted, crashes>>
  BY DEF BatchApplies
<1>2. PICK agent, granted : ApplyChange(cmd.todo, agent, granted, result)
  BY DEF BatchApplies
<1>3. /\ Committed' = Committed \cup (IF result = "committed" THEN ops ELSE {})
      /\ Direct' = Direct \cup (IF result = "committed" THEN ops ELSE {})
      /\ Proposed' = Proposed \cup (IF result = "proposal" THEN ops ELSE {})
  BY <1>2, ChangeBooks DEF IInv
<1>4. Settles(status, status') /\ defers' \in [Ops -> 0..(MaxDeferredRetries + 1)]
  BY <1>1, ChangeSettles DEF RowInv
<1>5. /\ cmd.todo \in Seq(Ops) /\ cmd.todo # << >> /\ Fields(cmd)
      /\ IsInjective(cmd.todo)
      /\ \A o \in ops : o \in Ops /\ status[o] \in {"queued", "gone"}
  BY <1>1 DEF RowInv, RowsTyped, CmdTyped, CmdInv, Fields
<1>6. cmd' = [kind |-> "batch", todo |-> cmd.todo, outcome |-> result]
  BY <1>1, <1>5, WithFields
<1>7. cmd'.kind = "batch" /\ cmd'.todo = cmd.todo /\ cmd'.outcome = result
  BY <1>6
<1>8. CmdTyped'
  BY <1>5, <1>6 DEF CmdTyped
<1>9. Upcoming = ops /\ Unasked = ops
  BY <1>1 DEF Upcoming, Unasked
<1>10. /\ Upcoming' = IF result = "committed" THEN {} ELSE ops
       /\ Unasked' = IF result \in {"committed", "proposal"} THEN {} ELSE ops
       /\ Done' = IF result = "committed" THEN ops ELSE {}
  BY <1>7, InHand
<1>11. /\ ops \cap Committed = {}
       /\ crashes = 0 => ops \cap Proposed = {}
  BY <1>9 DEF RowInv, CmdInv
<1>12. \A o \in ops : o \in Ops /\ status'[o] \in {"queued", "gone"}
  BY <1>4, <1>5 DEF Settles
<1> HIDE DEF ops
<1>13. OpsOf(cmd'.todo) = ops /\ IsInjective(cmd'.todo)
  BY <1>5, <1>7 DEF ops
<1>14. CmdInv'
  <2>1. Upcoming' \cap Committed' = {} /\ Done' \subseteq Committed'
    BY <1>3, <1>10, <1>11
  <2>2. crashes' = 0 => Unasked' \cap Proposed' = {}
    BY <1>1, <1>3, <1>10, <1>11
  <2> QED BY <1>12, <1>13, <2>1, <2>2, NextCmd
<1>15. RowsTyped'
  BY <1>1, <1>4, <1>8, NextRows DEF RowInv, RowsTyped, Settles
<1>16. LineInv'
  BY <1>1, <1>4, SettledLine
<1>17. BookInv'
  <2> DEFINE cnew == IF result = "committed" THEN ops ELSE {}
             pnew == IF result = "proposal" THEN ops ELSE {}
  <2>1. cnew \subseteq ops /\ pnew \subseteq ops
    OBVIOUS
  <2>2. Committed' = Committed \cup cnew /\ Direct' = Direct \cup cnew /\ Proposed' = Proposed \cup pnew
    BY <1>3
  <2> HIDE DEF cnew, pnew
  <2>3. /\ \A o \in Ops : o \in cnew => status[o] \in {"queued", "gone"}
        /\ \A o \in Ops : o \in cnew \cup pnew => status[o] # "absent"
    BY <1>5, <2>1 DEF ops
  <2>4. crashes = 0 =>
          \A o \in Ops : /\ status[o] \in {"queued", "deferred", "failed"}
                         /\ o \in Committed \cup Proposed \cup cnew \cup pnew
                         => o \in OpsOf(cmd'.todo)
    BY <1>13, <2>1 DEF RowInv, BookInv, ops
  <2> QED BY <1>1, <1>4, <2>2, <2>3, <2>4, SettledBooks
<1> QED BY <1>14, <1>15, <1>16, <1>17 DEF RowInv

LEMMA FlushAppliesKeeps ==
  ASSUME IInv, RowInv, NEW result \in Results, FlushApplies(result)
  PROVE  RowInv'
<1> DEFINE ops == OpsOf(cmd.todo)
           rest == OpsOf(Tail(cmd.todo))
           o1 == Head(cmd.todo)
<1>1. /\ cmd.kind = "flush" /\ cmd.outcome = "none"
      /\ ApplyChange(<<o1>>, FromAgent(o1), FlushGrants(o1), result)
      /\ IF result = "committed" THEN RowsFollow(<<o1>>) ELSE UNCHANGED <<status, defers>>
      /\ cmd' = IF result = "error" THEN Idle ELSE [cmd EXCEPT !.outcome = result]
      /\ UNCHANGED <<line, mounted, crashes>>
  BY DEF FlushApplies
<1>2. OpsOf(<<o1>>) = {o1}
  BY DEF OpsOf
<1>3. /\ Committed' = Committed \cup (IF result = "committed" THEN {o1} ELSE {})
      /\ Direct' = Direct \cup (IF result = "committed" THEN {o1} ELSE {})
      /\ Proposed' = Proposed \cup (IF result = "proposal" THEN {o1} ELSE {})
  BY <1>1, <1>2, ChangeBooks DEF IInv
<1>4. Settles(status, status') /\ defers' \in [Ops -> 0..(MaxDeferredRetries + 1)]
  BY <1>1, ChangeSettles DEF RowInv
<1>5. /\ cmd.todo \in Seq(Ops) /\ cmd.todo # << >> /\ Fields(cmd)
      /\ IsInjective(cmd.todo)
      /\ \A o \in ops : o \in Ops /\ status[o] \in {"queued", "gone"}
  BY <1>1 DEF RowInv, RowsTyped, CmdTyped, CmdInv, Fields
<1>6. ops = {o1} \cup rest /\ o1 \notin rest
  BY <1>5, TailOps
<1>7. Upcoming = ops /\ Unasked = ops
  BY <1>1 DEF Upcoming, Unasked
<1>8. /\ ops \cap Committed = {}
      /\ crashes = 0 => ops \cap Proposed = {}
  BY <1>7 DEF RowInv, CmdInv
<1>9. \A o \in ops : o \in Ops /\ status'[o] \in {"queued", "gone"}
  BY <1>4, <1>5 DEF Settles
<1>10. CmdTyped' /\ CmdInv' /\ (result # "error" => OpsOf(cmd'.todo) = ops)
  <2>1. CASE result = "error"
    BY <1>1, <2>1, EmptyHand
  <2>2. CASE result # "error"
    <3>1. cmd' = [kind |-> "flush", todo |-> cmd.todo, outcome |-> result]
      BY <1>1, <1>5, <2>2, WithFields
    <3>2. cmd'.kind = "flush" /\ cmd'.todo = cmd.todo /\ cmd'.outcome = result
      BY <3>1
    <3>3. CmdTyped'
      BY <1>5, <3>1 DEF CmdTyped
    <3>4. /\ Upcoming' = IF result = "committed" THEN rest ELSE ops
          /\ Unasked' = IF result \in {"committed", "proposal"} THEN rest ELSE ops
          /\ Done' = IF result = "committed" THEN {o1} ELSE {}
      BY <3>2, InHand
    <3>5. OpsOf(cmd'.todo) = ops /\ IsInjective(cmd'.todo)
      BY <1>5, <3>2
    <3> HIDE DEF ops, rest, o1
    <3>6. Upcoming' \cap Committed' = {} /\ Done' \subseteq Committed'
      BY <1>3, <1>6, <1>8, <3>4
    <3>7. crashes' = 0 => Unasked' \cap Proposed' = {}
      BY <1>1, <1>3, <1>6, <1>8, <3>4
    <3>8. CmdInv'
      BY <1>9, <3>5, <3>6, <3>7, NextCmd
    <3> QED BY <3>3, <3>5, <3>8
  <2> QED BY <2>1, <2>2
<1> HIDE DEF rest, o1
<1>11. RowsTyped'
  BY <1>1, <1>4, <1>10, NextRows DEF RowInv, RowsTyped, Settles
<1>12. LineInv'
  BY <1>1, <1>4, SettledLine
<1>13. BookInv'
  <2> DEFINE cnew == IF result = "committed" THEN {o1} ELSE {}
             pnew == IF result = "proposal" THEN {o1} ELSE {}
  <2>1. cnew \subseteq ops /\ pnew \subseteq ops /\ (result = "error" => cnew \cup pnew = {})
    BY <1>6
  <2>2. Committed' = Committed \cup cnew /\ Direct' = Direct \cup cnew /\ Proposed' = Proposed \cup pnew
    BY <1>3
  <2> HIDE DEF cnew, pnew
  <2>3. /\ \A o \in Ops : o \in cnew => status[o] \in {"queued", "gone"}
        /\ \A o \in Ops : o \in cnew \cup pnew => status[o] # "absent"
    BY <1>5, <2>1
  <2>4. ASSUME crashes = 0, NEW o \in Ops, status[o] \in {"queued", "deferred", "failed"},
               o \in Committed \cup Proposed \cup cnew \cup pnew
        PROVE  o \in OpsOf(cmd'.todo)
    <3>1. o \in Committed \cup Proposed => o \in ops
      BY <2>4 DEF RowInv, BookInv
    <3>2. o \in ops
      BY <2>1, <2>4, <3>1
    <3>3. result # "error"
      <4> SUFFICES ASSUME result = "error" PROVE FALSE
        OBVIOUS
      <4>1. o \in Committed \cup Proposed
        BY <2>1, <2>4
      <4> QED BY <1>8, <2>4, <3>2, <4>1
    <3> QED BY <1>10, <3>2, <3>3
  <2> QED BY <1>1, <1>4, <2>2, <2>3, <2>4, SettledBooks
<1> QED BY <1>10, <1>11, <1>12, <1>13 DEF RowInv

LEMMA MarksKeep ==
  ASSUME IInv, RowInv, BatchMarks \/ FlushMarks
  PROVE  RowInv'
<1> DEFINE ops == OpsOf(cmd.todo)
           rest == OpsOf(Tail(cmd.todo))
           o1 == Head(cmd.todo)
<1>1. UNCHANGED <<log, proposals, line, mounted, crashes>>
  BY DEF BatchMarks, FlushMarks, tables
<1>2. /\ cmd.kind # "idle" /\ cmd.outcome # "none"
      /\ o1 \in Ops
      /\ status' \in [Ops -> Statuses]
      /\ defers' \in [Ops -> 0..(MaxDeferredRetries + 1)]
      /\ \A o \in Ops \ {o1} :
           \/ status'[o] = status[o]
           \/ status[o] = "deferred" /\ status'[o] \in {"failed", "queued"}
      /\ status'[o1] = IF status[o1] = "gone" THEN "gone" ELSE Marked(cmd.outcome)
      /\ CmdTyped'
      /\ cmd'.todo = Tail(cmd.todo)
      /\ cmd' = Idle \/ (cmd'.kind = cmd.kind
                         /\ cmd'.outcome = IF cmd.kind = "batch" THEN cmd.outcome ELSE "none")
  BY MarksDo DEF RowInv
<1>3. Committed' = Committed /\ Direct' = Direct /\ Proposed' = Proposed
  BY <1>1, SameLog, SameProposed DEF IInv
<1>4. /\ cmd.todo \in Seq(Ops) /\ cmd.todo # << >> /\ cmd.kind \in {"batch", "flush"}
      /\ IsInjective(cmd.todo)
      /\ \A o \in ops : o \in Ops /\ status[o] \in {"queued", "gone"}
  BY <1>2 DEF RowInv, RowsTyped, CmdTyped, CmdInv
<1>5. ops = {o1} \cup rest /\ o1 \notin rest /\ IsInjective(Tail(cmd.todo))
  BY <1>4, TailOps
<1>6. OpsOf(cmd'.todo) = rest /\ IsInjective(cmd'.todo)
  BY <1>2, <1>5
<1>7. Direct \subseteq Committed
  BY DEF Direct, Committed
<1>8. /\ Upcoming = IF cmd.outcome # "committed" THEN ops
                    ELSE IF cmd.kind = "batch" THEN {} ELSE rest
      /\ Unasked = IF cmd.outcome \notin {"committed", "proposal"} THEN ops
                   ELSE IF cmd.kind = "batch" THEN {} ELSE rest
      /\ Done = IF cmd.outcome # "committed" THEN {}
                ELSE IF cmd.kind = "batch" THEN ops ELSE {o1}
  BY DEF Upcoming, Unasked, Done
<1>9. /\ Upcoming \cap Committed = {} /\ Done \subseteq Committed
      /\ crashes = 0 => Unasked \cap Proposed = {}
  BY DEF RowInv, CmdInv
<1>10. \A o \in rest : o \in Ops /\ status'[o] \in {"queued", "gone"}
  BY <1>2, <1>4, <1>5
<1>11. /\ cmd' # Idle /\ cmd.kind = "batch" =>
            /\ Upcoming' = IF cmd.outcome # "committed" THEN rest ELSE {}
            /\ Unasked' = IF cmd.outcome \notin {"committed", "proposal"} THEN rest ELSE {}
            /\ Done' = IF cmd.outcome # "committed" THEN {} ELSE rest
       /\ cmd' # Idle /\ cmd.kind # "batch" =>
            Upcoming' = rest /\ Unasked' = rest /\ Done' = {}
  BY <1>2, InHand
<1>12. CmdInv'
  <2>1. CASE cmd' = Idle
    BY <2>1, EmptyHand
  <2> HIDE DEF ops, rest, o1
  <2>2. CASE cmd' # Idle
    <3>1. Upcoming' \subseteq Upcoming /\ Unasked' \subseteq Unasked /\ Done' \subseteq Done
      BY <1>4, <1>5, <1>8, <1>11, <2>2
    <3>2. Upcoming' \cap Committed' = {} /\ Done' \subseteq Committed'
      BY <1>3, <1>9, <3>1
    <3>3. crashes' = 0 => Unasked' \cap Proposed' = {}
      BY <1>1, <1>3, <1>9, <3>1
    <3> QED BY <1>6, <1>10, <3>2, <3>3, NextCmd
  <2> QED BY <2>1, <2>2
<1> HIDE DEF rest, ops, o1
<1>13. RowsTyped'
  BY <1>1, <1>2, NextRows DEF RowInv, RowsTyped
<1>14. Marked(cmd.outcome) = IF cmd.outcome = "committed" THEN "applied"
                             ELSE IF cmd.outcome = "proposal" THEN "pending_approval"
                             ELSE "failed"
  BY DEF Marked
<1>15. LineInv'
  <2>1. IsInjective(line') /\ \A o \in OpsOf(line') : o \in Ops /\ status[o] # "absent"
    BY <1>1 DEF RowInv, LineInv
  <2>2. \A o \in OpsOf(line') : status'[o] # "absent"
    BY <1>2, <1>14, <2>1
  <2> QED BY <2>1, <2>2, NextLine
<1>16. BookInv'
  <2>1. ASSUME NEW o \in Ops
        PROVE  /\ status'[o] = "absent" => o \notin Committed \cup Proposed
               /\ status'[o] = "applied" => o \in Committed
               /\ status'[o] \in {"failed", "deferred"} => o \notin Direct
               /\ crashes = 0 /\ status'[o] \in {"queued", "deferred", "failed"}
                    /\ o \in Committed \cup Proposed => o \in rest
    <3>1. /\ status[o] = "absent" => o \notin Committed \cup Proposed
          /\ status[o] = "applied" => o \in Committed
          /\ status[o] \in {"failed", "deferred"} => o \notin Direct
          /\ crashes = 0 /\ status[o] \in {"queued", "deferred", "failed"}
               /\ o \in Committed \cup Proposed => o \in ops
      BY DEF RowInv, BookInv, ops
    <3>2. CASE o # o1
      BY <1>2, <1>5, <3>1, <3>2
    <3>3. CASE o = o1
      <4>1. CASE status[o] = "gone"
        BY <1>2, <3>3, <4>1
      <4>2. CASE status[o] # "gone" /\ cmd.outcome = "committed"
        <5>1. o1 \in Committed
          BY <1>4, <1>5, <1>8, <1>9, <4>2
        <5> QED BY <1>2, <1>14, <3>3, <4>2, <5>1
      <4>3. CASE status[o] # "gone" /\ cmd.outcome # "committed"
        <5>1. o1 \notin Committed
          BY <1>5, <1>8, <1>9, <4>3
        <5>2. CASE cmd.outcome = "proposal"
          BY <1>2, <1>14, <3>3, <4>3, <5>2
        <5>3. CASE cmd.outcome # "proposal"
          <6>1. crashes = 0 => o1 \notin Proposed
            BY <1>5, <1>8, <1>9, <4>3, <5>3
          <6> QED BY <1>2, <1>7, <1>14, <3>3, <4>3, <5>1, <5>3, <6>1
        <5> QED BY <5>2, <5>3
      <4> QED BY <4>1, <4>2, <4>3
    <3> QED BY <3>2, <3>3
  <2> QED BY <1>1, <1>3, <1>6, <2>1, NextBooks
<1> QED BY <1>12, <1>13, <1>15, <1>16 DEF RowInv

LEMMA FlushKeeps ==
  ASSUME IInv, RowInv, NEW s \in Views, FlushBegins(s)
  PROVE  RowInv'
<1>1. UNCHANGED <<log, proposals, line, mounted, crashes>> /\ cmd = Idle
  BY DEF FlushBegins, tables
<1>2. /\ status' \in [Ops -> Statuses]
      /\ \A o \in Ops : Flushed(o)
      /\ defers' \in [Ops -> 0..(MaxDeferredRetries + 1)]
      /\ CmdTyped'
      /\ OpsOf(cmd'.todo) \subseteq {o \in Ops : status'[o] = "queued"}
      /\ IsInjective(line) => IsInjective(cmd'.todo)
      /\ cmd'.outcome = "none"
  BY FlushDoes DEF RowInv
<1>3. Committed' = Committed /\ Direct' = Direct /\ Proposed' = Proposed
  BY <1>1, SameLog, SameProposed DEF IInv
<1>4. OpsOf(cmd.todo) = {}
  BY <1>1 DEF Idle, OpsOf
<1>5. Direct \subseteq Committed
  BY DEF Direct, Committed
<1>6. ASSUME NEW o \in Ops
      PROVE  /\ status'[o] = "absent" => o \notin Committed \cup Proposed
             /\ status'[o] = "applied" => o \in Committed
             /\ status'[o] \in {"failed", "deferred"} => o \notin Direct
             /\ status'[o] = "queued" => o \notin Committed
             /\ crashes = 0 /\ status'[o] \in {"queued", "deferred", "failed"}
                  => o \notin Committed \cup Proposed
             /\ status[o] # "absent" => status'[o] # "absent"
  <2>1. /\ status[o] = "absent" => o \notin Committed \cup Proposed
        /\ status[o] = "applied" => o \in Committed
        /\ status[o] \in {"failed", "deferred"} => o \notin Direct
        /\ crashes = 0 /\ status[o] \in {"queued", "deferred", "failed"}
             => o \notin Committed \cup Proposed
        /\ status[o] \in Statuses
    BY <1>4 DEF RowInv, BookInv, RowsTyped
  <2>2. Flushed(o)
    BY <1>2
  <2> QED BY <1>5, <2>1, <2>2 DEF Flushed, Statuses
<1>7. LineInv'
  <2>1. IsInjective(line') /\ \A o \in OpsOf(line') : o \in Ops /\ status[o] # "absent"
    BY <1>1 DEF RowInv, LineInv
  <2>2. \A o \in OpsOf(line') : status'[o] # "absent"
    BY <1>6, <2>1
  <2> QED BY <2>1, <2>2, NextLine
<1>8. CmdInv'
  <2>1. IsInjective(cmd'.todo)
    BY <1>2 DEF RowInv, LineInv
  <2>2. \A o \in OpsOf(cmd'.todo) : o \in Ops /\ status'[o] = "queued"
    BY <1>2
  <2>3. Upcoming' = OpsOf(cmd'.todo) /\ Unasked' = OpsOf(cmd'.todo) /\ Done' = {}
    BY <1>2, InHand
  <2>4. Upcoming' \cap Committed' = {} /\ Done' \subseteq Committed'
    BY <1>3, <1>6, <2>2, <2>3
  <2>5. crashes' = 0 => Unasked' \cap Proposed' = {}
    BY <1>1, <1>3, <1>6, <2>2, <2>3
  <2> QED BY <2>1, <2>2, <2>4, <2>5, NextCmd
<1>9. RowsTyped'
  BY <1>1, <1>2, NextRows DEF RowInv, RowsTyped
<1>10. BookInv'
  BY <1>1, <1>3, <1>6, NextBooks
<1> QED BY <1>7, <1>8, <1>9, <1>10 DEF RowInv

\* A step between two commands: rows may settle, a proposal may commit.
LEMMA BetweenCommands ==
  ASSUME RowInv, cmd = Idle, UNCHANGED <<cmd, line, crashes>>, mounted' \subseteq Surfaces,
         Settles(status, status'), defers' \in [Ops -> 0..(MaxDeferredRetries + 1)],
         NEW cnew, cnew \subseteq Proposed,
         Committed' = Committed \cup cnew, Direct' = Direct, Proposed' = Proposed
  PROVE  RowInv'
<1>1. CmdTyped' /\ CmdInv' /\ OpsOf(cmd'.todo) = {}
  BY EmptyHand
<1>2. OpsOf(cmd.todo) = {}
  BY <1>1
<1>3. RowsTyped'
  BY <1>1, NextRows DEF RowInv, RowsTyped, Settles
<1>4. LineInv'
  BY SettledLine
<1>5. BookInv'
  <2> DEFINE none == {}
  <2>1. /\ Direct' = Direct \cup none /\ Proposed' = Proposed \cup none
        /\ \A o \in Ops : o \in none => status[o] \in {"queued", "gone"}
    OBVIOUS
  <2>2. \A o \in Ops : o \in cnew \cup none => status[o] # "absent"
    BY DEF RowInv, BookInv
  <2>3. crashes = 0 =>
          \A o \in Ops : /\ status[o] \in {"queued", "deferred", "failed"}
                         /\ o \in Committed \cup Proposed \cup cnew \cup none
                         => o \in OpsOf(cmd'.todo)
    BY <1>1, <1>2 DEF RowInv, BookInv
  <2> HIDE DEF none
  <2> QED BY <2>1, <2>2, <2>3, SettledBooks
<1> QED BY <1>1, <1>3, <1>4, <1>5 DEF RowInv

LEMMA SameRows ==
  ASSUME RowInv, UNCHANGED <<status, defers>>
  PROVE  Settles(status, status') /\ defers' \in [Ops -> 0..(MaxDeferredRetries + 1)]
BY DEF RowInv, RowsTyped, Settles

LEMMA MountKeeps ==
  ASSUME IInv, RowInv, NEW s \in Views, Mount(s)
  PROVE  RowInv'
<1> DEFINE none == {}
<1>1. /\ cmd = Idle /\ UNCHANGED <<log, proposals, cmd, line, crashes>>
      /\ mounted' = mounted \cup {s}
      /\ Promote(status, {s}, surface, mounted')
  BY DEF Mount, tables
<1>2. Drifts(status, status') /\ defers' \in [Ops -> 0..(MaxDeferredRetries + 1)]
  BY <1>1, PromoteTyped DEF RowInv, RowsTyped
<1>3. Settles(status, status')
  BY <1>2 DEF Drifts, Settles
<1>4. mounted' \subseteq Surfaces
  BY <1>1, SchedulerAssumption DEF RowInv, RowsTyped
<1>5. Committed' = Committed \cup none /\ Direct' = Direct /\ Proposed' = Proposed
  BY <1>1, SameLog, SameProposed DEF IInv
<1>9. none \subseteq Proposed
  OBVIOUS
<1> HIDE DEF none
<1> QED BY <1>1, <1>2, <1>3, <1>4, <1>5, <1>9, BetweenCommands

LEMMA DecisionKeeps ==
  ASSUME IInv, RowInv, NEW i \in DOMAIN proposals, ApproveProposal(i) \/ CloseProposal(i)
  PROVE  RowInv'
<1>1. /\ cmd = Idle /\ UNCHANGED <<cmd, line, crashes, mounted>>
      /\ \E value : proposals' = [proposals EXCEPT ![i].status = value]
  BY DEF ApproveProposal, CloseProposal, Approve, Close, rows
<1>2. mounted' \subseteq Surfaces
  BY <1>1 DEF RowInv, RowsTyped
<1>3. Proposed' = Proposed
  BY <1>1, SameProposed DEF IInv
<1>4. CASE ApproveProposal(i)
  <2> DEFINE batch == proposals[i].batch
  <2>1. Commit(batch, "proposal") /\ RowsFollow(batch)
    BY <1>4 DEF ApproveProposal, Approve
  <2> DEFINE e == Entry(batch, "proposal", Run(batch).at)
  <2>2. log' = Append(log, e) /\ e.batch = batch /\ e.via = "proposal"
    BY <2>1 DEF Commit, Entry
  <2> HIDE DEF e
  <2>3. Committed' = Committed \cup OpsOf(batch) /\ Direct' = Direct
    BY <2>2, LogGrows DEF IInv, Shape
  <2>4. OpsOf(batch) \subseteq Proposed
    BY DEF Proposed
  <2>5. Settles(status, status') /\ defers' \in [Ops -> 0..(MaxDeferredRetries + 1)]
    BY <2>1, RowsFollowSettles DEF RowInv
  <2> QED BY <1>1, <1>2, <1>3, <2>3, <2>4, <2>5, BetweenCommands
<1>5. CASE CloseProposal(i)
  <2> DEFINE none == {}
  <2>1. UNCHANGED <<log, status, defers>>
    BY <1>5 DEF CloseProposal, Close, rows
  <2>2. Committed' = Committed \cup none /\ Direct' = Direct
    BY <2>1, SameLog DEF IInv
  <2>3. Settles(status, status') /\ defers' \in [Ops -> 0..(MaxDeferredRetries + 1)]
    BY <2>1, SameRows
  <2>4. none \subseteq Proposed
    OBVIOUS
  <2> HIDE DEF none
  <2> QED BY <1>1, <1>2, <1>3, <2>2, <2>3, <2>4, BetweenCommands
<1> QED BY <1>4, <1>5

LEMMA UndoKeeps ==
  ASSUME IInv, RowInv, NEW i \in DOMAIN log, UndoTransaction(i)
  PROVE  RowInv'
<1> DEFINE deleted == {s \in Surfaces : surface[s].revision > 0 /\ surface'[s].revision = 0}
           none == {}
<1>1. /\ cmd = Idle /\ UNCHANGED <<proposals, defers, cmd, line, crashes, mounted>>
      /\ log' = [log EXCEPT ![i].undone = TRUE]
      /\ status' = WithoutDeleted(deleted)
  BY DEF UndoTransaction, Undo
<1> HIDE DEF deleted
<1>2. Settles(status, status')
  BY <1>1, WithoutDeletedSettles DEF RowInv
<1>3. mounted' \subseteq Surfaces /\ defers' \in [Ops -> 0..(MaxDeferredRetries + 1)]
  BY <1>1 DEF RowInv, RowsTyped
<1>4. Committed' = Committed \cup none /\ Direct' = Direct /\ Proposed' = Proposed
  BY <1>1, SameLog, SameProposed DEF IInv
<1>9. none \subseteq Proposed
  OBVIOUS
<1> HIDE DEF none
<1> QED BY <1>1, <1>2, <1>3, <1>4, <1>9, BetweenCommands

\* A mount that goes, or nothing at all: the command in hand stays.
LEMMA QuietKeeps ==
  ASSUME IInv, RowInv, UNCHANGED <<log, proposals, rows, cmd, crashes>>,
         mounted' \subseteq mounted
  PROVE  RowInv'
<1>1. UNCHANGED <<status, defers, line, cmd, crashes>>
  BY DEF rows
<1>2. Committed' = Committed /\ Direct' = Direct /\ Proposed' = Proposed
  BY SameLog, SameProposed DEF IInv
<1>3. CmdTyped'
  BY <1>1 DEF RowInv, RowsTyped, CmdTyped
<1>4. RowsTyped'
  BY <1>1, <1>3, NextRows DEF RowInv, RowsTyped
<1>5. LineInv'
  BY <1>1, NextLine DEF RowInv, LineInv
<1>6. Upcoming' = Upcoming /\ Unasked' = Unasked /\ Done' = Done
  BY <1>1, InHand DEF Upcoming, Unasked, Done
<1>7. CmdInv'
  BY <1>1, <1>2, <1>6, NextCmd DEF RowInv, CmdInv
<1>8. BookInv'
  BY <1>1, <1>2, NextBooks DEF RowInv, BookInv
<1> QED BY <1>4, <1>5, <1>7, <1>8 DEF RowInv

\* After a crash the rows stand as they are; that a proposal may be behind one
\* is no longer excluded.
LEMMA CrashKeeps == ASSUME IInv, RowInv, Crash PROVE RowInv'
<1>1. /\ UNCHANGED <<log, proposals, status, defers, line>>
      /\ cmd' = Idle /\ mounted' = {} /\ crashes' = crashes + 1 /\ crashes < MaxCrashes
  BY DEF Crash, tables, rows
<1>2. Committed' = Committed /\ Direct' = Direct /\ Proposed' = Proposed
  BY <1>1, SameLog, SameProposed DEF IInv
<1>3. crashes \in 0..MaxCrashes /\ MaxCrashes \in Nat
  BY SchedulerAssumption DEF RowInv, RowsTyped
<1>4. crashes' \in 0..MaxCrashes /\ crashes' # 0
  BY <1>1, <1>3
<1>5. CmdTyped' /\ CmdInv'
  BY <1>1, EmptyHand
<1>6. RowsTyped'
  BY <1>1, <1>4, <1>5, NextRows DEF RowInv, RowsTyped
<1>7. LineInv'
  BY <1>1, NextLine DEF RowInv, LineInv
<1>8. BookInv'
  BY <1>1, <1>2, <1>4, NextBooks DEF RowInv, BookInv
<1> QED BY <1>5, <1>6, <1>7, <1>8 DEF RowInv

LEMMA RowInvInit == Init => RowInv
<1> SUFFICES ASSUME Init PROVE RowInv
  OBVIOUS
<1>1. /\ log = << >> /\ proposals = << >>
      /\ status = [o \in Ops |-> "absent"] /\ defers = [o \in Ops |-> 0]
      /\ line = << >> /\ mounted = {} /\ cmd = Idle /\ crashes = 0
  BY DEF Init, KernelInit, SurfaceInit
<1>2. << >> \in Seq(Ops) /\ OpsOf(<< >>) = {} /\ IsInjective(<< >>)
  BY EmptySeq DEF OpsOf, IsInjective
<1>3. Committed = {} /\ Direct = {} /\ Proposed = {}
  BY <1>1 DEF Committed, Direct, Proposed
<1>4. CmdTyped /\ Upcoming = {} /\ Unasked = {} /\ Done = {}
  BY <1>1, <1>2 DEF CmdTyped, Idle, Upcoming, Unasked, Done
<1>5. 0 \in 0..MaxCrashes /\ 0 \in 0..(MaxDeferredRetries + 1)
  BY SchedulerAssumption
<1>6. RowsTyped
  BY <1>1, <1>2, <1>4, <1>5 DEF RowsTyped, Statuses
<1>7. LineInv
  BY <1>1, <1>2 DEF LineInv
<1>8. cmd.todo = << >>
  BY <1>1 DEF Idle
<1>9. CmdInv
  BY <1>2, <1>4, <1>8 DEF CmdInv
<1>10. BookInv
  BY <1>1, <1>3 DEF BookInv
<1> QED BY <1>6, <1>7, <1>9, <1>10 DEF RowInv

LEMMA RowInvStep == IInv /\ RowInv /\ [Next]_vars => RowInv'
<1> SUFFICES ASSUME IInv, RowInv, [Next]_vars PROVE RowInv'
  OBVIOUS
<1>1. ASSUME NEW b \in Batches, ScheduleOnly(b) \/ ScheduleAndApply(b) PROVE RowInv'
  BY <1>1, ScheduleKeeps
<1>2. ASSUME NEW result \in Results, BatchApplies(result) PROVE RowInv'
  BY <1>2, BatchAppliesKeeps
<1>3. ASSUME NEW result \in Results, FlushApplies(result) PROVE RowInv'
  BY <1>3, FlushAppliesKeeps
<1>4. CASE BatchMarks \/ FlushMarks
  BY <1>4, MarksKeep
<1>5. ASSUME NEW s \in Views, FlushBegins(s) PROVE RowInv'
  BY <1>5, FlushKeeps
<1>6. ASSUME NEW s \in Views, Mount(s) PROVE RowInv'
  BY <1>6, MountKeeps
<1>7. ASSUME NEW s \in Views, Unmount(s) PROVE RowInv'
  BY <1>7, QuietKeeps DEF Unmount, tables
<1>8. ASSUME NEW i \in DOMAIN proposals, ApproveProposal(i) \/ CloseProposal(i) PROVE RowInv'
  BY <1>8, DecisionKeeps
<1>9. ASSUME NEW i \in DOMAIN log, UndoTransaction(i) PROVE RowInv'
  BY <1>9, UndoKeeps
<1>10. CASE Crash
  BY <1>10, CrashKeeps
<1>11. CASE UNCHANGED vars
  BY <1>11, QuietKeeps DEF vars, tables, rows
<1> QED BY <1>1, <1>2, <1>3, <1>4, <1>5, <1>6, <1>7, <1>8, <1>9, <1>10, <1>11 DEF Next

\* Every reachable state has the invariant of the rows: schedule_patches, the
\* flush, the marks, promotions, decisions, undo and crashes keep it.
THEOREM RowsKept == Spec => []RowInv
<1> QED BY RowInvInit, RowInvStep, LogKept, PTL DEF Spec

\* A row is "applied" only when its own operation was committed, also when a
\* flush after a crash settled it from the log (recover_scheduler, BatchMarks,
\* FlushMarks).
THEOREM AppliedMeansCommitted == Spec => []AppliedIsCommitted
<1>1. RowInv => AppliedIsCommitted
  BY DEF RowInv, BookInv, AppliedIsCommitted, RowsAre
<1> QED BY <1>1, RowsKept, PTL

\* A row that failed or waits was not committed by a command, and before a crash
\* only a row of the command in hand can be committed or proposed already.
THEOREM RowsAreTruthful == Spec => []RowsTellTruth
<1>1. RowInv => RowsTellTruth
  <2> SUFFICES ASSUME RowInv PROVE RowsTellTruth
    OBVIOUS
  <2>1. (RowsAre("failed") \cup RowsAre("deferred")) \cap Direct = {}
    BY DEF RowInv, BookInv, RowsAre
  <2>2. crashes = 0 =>
          (RowsAre("queued") \cup RowsAre("deferred") \cup RowsAre("failed"))
            \cap (Committed \cup Proposed) \subseteq OpsOf(cmd.todo)
    BY DEF RowInv, BookInv, RowsAre
  <2> QED BY <2>1, <2>2 DEF RowsTellTruth
<1> QED BY <1>1, RowsKept, PTL

-----------------------------------------------------------------------------
(* The surfaces under transactions and undo *)

Contiguous(row) == row.versions = 1..row.revision
Sound == {row \in Row : Contiguous(row)}

\* A row with some fields replaced.
LEMMA RowFields ==
  ASSUME NEW row \in Row, NEW r \in Nat, NEW v \in SUBSET Nat
  PROVE  /\ [row EXCEPT !.revision = r, !.versions = v]
              = [revision |-> r, archived |-> row.archived, versions |-> v]
         /\ [revision |-> r, archived |-> row.archived, versions |-> v] \in Row
<1> DEFINE a == row.revision
           b == row.archived
           c == row.versions
<1>1. row = [revision |-> a, archived |-> b, versions |-> c] /\ b \in BOOLEAN
  BY DEF Row
<1> HIDE DEF a, b, c
<1>2. [row EXCEPT !.revision = r] = [revision |-> r, archived |-> b, versions |-> c]
  BY <1>1
<1>3. [row EXCEPT !.revision = r, !.versions = v]
        = [revision |-> r, archived |-> b, versions |-> v]
  <2>1. ASSUME NEW e, e = [revision |-> r, archived |-> b, versions |-> c]
        PROVE  [e EXCEPT !.versions = v] = [revision |-> r, archived |-> b, versions |-> v]
    BY <2>1
  <2> QED BY <1>2, <2>1, Zenon
<1>4. [revision |-> r, archived |-> b, versions |-> v] \in Row
  BY <1>1 DEF Row
<1> QED BY <1>3, <1>4 DEF b

LEMMA ArchivedRow ==
  ASSUME NEW row \in Sound, NEW t \in BOOLEAN
  PROVE  [row EXCEPT !.archived = t] \in Sound
         /\ [row EXCEPT !.archived = t].revision = row.revision
<1> DEFINE a == row.revision
           b == row.archived
           c == row.versions
           next == [row EXCEPT !.archived = t]
<1>1. /\ row = [revision |-> a, archived |-> b, versions |-> c]
      /\ a \in Nat /\ c \in SUBSET Nat /\ c = 1..a
  BY DEF Row, Sound, Contiguous
<1> HIDE DEF a, b, c
<1>2. next = [revision |-> a, archived |-> t, versions |-> c]
  BY <1>1
<1> HIDE DEF next
<1>3. next \in Row /\ next.revision = a /\ next.versions = c
  BY <1>1, <1>2 DEF Row
<1>4. next \in Sound
  BY <1>1, <1>3 DEF Sound, Contiguous
<1> QED BY <1>3, <1>4 DEF a, next

LEMMA SoundRows ==
  /\ Fresh \in Sound /\ Fresh.revision = 1
  /\ Absent \in Sound /\ Absent.revision = 0
<1>1. Fresh \in Row /\ Absent \in Row
  BY DEF Fresh, Absent, Row
<1>2. 1..1 = {1} /\ 1..0 = {}
  OBVIOUS
<1> QED BY <1>1, <1>2 DEF Fresh, Absent, Sound, Contiguous

LEMMA EditedRow ==
  ASSUME NEW row \in Sound
  PROVE  Edited(row) \in Sound /\ Edited(row).revision = row.revision + 1
<1> DEFINE r == row.revision + 1
           v == row.versions \cup {r}
<1>1. /\ row \in Row /\ row.revision \in Nat /\ row.versions \in SUBSET Nat
      /\ row.versions = 1..row.revision
  BY DEF Sound, Contiguous, Row
<1>2. r \in Nat /\ v \in SUBSET Nat /\ v = 1..r
  BY <1>1
<1>3. Edited(row) = [row EXCEPT !.revision = r, !.versions = v]
  BY <1>1 DEF Edited
<1> HIDE DEF r, v
<1>4. Edited(row) = [revision |-> r, archived |-> row.archived, versions |-> v]
      /\ [revision |-> r, archived |-> row.archived, versions |-> v] \in Row
  BY <1>1, <1>2, <1>3, RowFields
<1>5. Edited(row) \in Sound
  BY <1>2, <1>4 DEF Sound, Contiguous
<1> QED BY <1>4, <1>5 DEF r

\* One operation: what it does to the rows.
LEMMA AppliedKeeps ==
  ASSUME NEW o \in Ops, NEW at \in [Surfaces -> Sound], NEW start, Applicable(o, at, start)
  PROVE  /\ Applied(o, at) \in [Surfaces -> Sound]
         /\ \A s \in Surfaces :
              \/ Applied(o, at)[s].revision \in {0, at[s].revision}
              \/ at[s].revision > 0 /\ Applied(o, at)[s].revision = at[s].revision + 1
              \/ s = Target[o] /\ Kind[o] \in Creations
<1> DEFINE s == Target[o]
           next == Applied(o, at)
<1>1. Kind[o] \in Kinds /\ (s \in Surfaces \/ Kind[o] = "setting")
  BY SurfaceAssumption
<1>2. \A t \in Surfaces : at[t] \in Sound
  OBVIOUS
<1>3. CASE Kind[o] \in Creations
  <2>1. next = [at EXCEPT ![s] = Fresh] /\ s \in Surfaces
    BY <1>1, <1>3 DEF Applied, Creations
  <2> HIDE DEF next, s
  <2>2. next \in [Surfaces -> Sound]
    BY <2>1, SoundRows
  <2>3. \A t \in Surfaces : t = s \/ next[t] = at[t]
    BY <2>1
  <2> QED BY <1>3, <2>2, <2>3 DEF next, s
<1>4. CASE Kind[o] = "edit"
  <2>1. next = [at EXCEPT ![s] = Edited(at[s])] /\ s \in Surfaces
    BY <1>1, <1>4 DEF Applied, Creations
  <2>0. at[s].revision > 0
    BY <1>4 DEF Applicable, Creations
  <2> HIDE DEF next, s
  <2>2. Edited(at[s]) \in Sound /\ Edited(at[s]).revision = at[s].revision + 1
    BY <1>2, <2>1, EditedRow
  <2>3. next \in [Surfaces -> Sound]
    BY <2>1, <2>2
  <2>4. \A t \in Surfaces : next[t] = IF t = s THEN Edited(at[s]) ELSE at[t]
    BY <2>1
  <2> QED BY <2>0, <2>2, <2>3, <2>4 DEF next
<1>5. CASE Kind[o] = "archive"
  <2> DEFINE row == [at[s] EXCEPT !.archived = TRUE]
  <2>1. next = [at EXCEPT ![s] = row] /\ s \in Surfaces
    BY <1>1, <1>5 DEF Applied, Creations
  <2>2. row \in Sound /\ row.revision = at[s].revision
    BY <1>2, <2>1, ArchivedRow
  <2> HIDE DEF next, s, row
  <2>3. next \in [Surfaces -> Sound]
    BY <2>1, <2>2
  <2>4. \A t \in Surfaces : next[t] = IF t = s THEN row ELSE at[t]
    BY <2>1
  <2> QED BY <2>2, <2>3, <2>4 DEF next
<1>6. CASE Kind[o] = "delete"
  <2>1. next = [at EXCEPT ![s] = Absent] /\ s \in Surfaces
    BY <1>1, <1>6 DEF Applied, Creations
  <2> HIDE DEF next, s
  <2>2. next \in [Surfaces -> Sound]
    BY <2>1, SoundRows
  <2>3. \A t \in Surfaces : next[t] = IF t = s THEN Absent ELSE at[t]
    BY <2>1
  <2> QED BY <2>2, <2>3, SoundRows DEF next
<1>7. CASE Kind[o] \notin Creations \cup {"edit", "archive", "delete"}
  <2>1. next = at
    BY <1>7 DEF Applied
  <2> QED BY <2>1
<1> QED BY <1>3, <1>4, <1>5, <1>6, <1>7

\* What the transaction has done after some operations.
Runs == [ok : BOOLEAN, at : [Surfaces -> Sound]]
Tried(done, o) ==
  IF done.ok /\ Applicable(o, done.at, surface)
  THEN [ok |-> TRUE, at |-> Applied(o, done.at)]
  ELSE [done EXCEPT !.ok = FALSE]
RunBy(h, batch) ==
  [t \in SUBSET (DOMAIN batch) |->
     IF t = {} THEN [ok |-> TRUE, at |-> surface]
     ELSE Tried(h[t \ {Max(t)}], batch[Max(t)])]

Rises(at, batch) ==
  \A s \in Surfaces \ CreatedBy(batch) :
    at[s].revision = 0 \/ surface[s].revision <= at[s].revision

LEMMA TriedKeeps ==
  ASSUME NEW done \in Runs, NEW batch, NEW o \in OpsOf(batch), o \in Ops
  PROVE  /\ Tried(done, o) \in Runs
         /\ surface \in [Surfaces -> Sound] /\ Rises(done.at, batch)
            => Rises(Tried(done, o).at, batch)
<1> DEFINE next == Tried(done, o)
           no == FALSE
<1>1. done.ok \in BOOLEAN /\ done.at \in [Surfaces -> Sound]
  BY DEF Runs
<1>2. CASE done.ok /\ Applicable(o, done.at, surface)
  <2>1. next = [ok |-> TRUE, at |-> Applied(o, done.at)]
    BY <1>2 DEF Tried
  <2>2. next.at = Applied(o, done.at) /\ next.ok \in BOOLEAN
    BY <2>1
  <2>3. /\ Applied(o, done.at) \in [Surfaces -> Sound]
        /\ \A s \in Surfaces :
             \/ Applied(o, done.at)[s].revision \in {0, done.at[s].revision}
             \/ done.at[s].revision > 0 /\ Applied(o, done.at)[s].revision = done.at[s].revision + 1
             \/ s = Target[o] /\ Kind[o] \in Creations
    BY <1>1, <1>2, AppliedKeeps
  <2>4. next \in Runs
    BY <2>1, <2>3 DEF Runs
  <2>5. ASSUME surface \in [Surfaces -> Sound], Rises(done.at, batch)
        PROVE  Rises(next.at, batch)
    <3> SUFFICES ASSUME NEW s \in Surfaces \ CreatedBy(batch)
                 PROVE  next.at[s].revision = 0 \/ surface[s].revision <= next.at[s].revision
      BY DEF Rises
    <3>1. s # Target[o] \/ Kind[o] \notin Creations
      BY DEF CreatedBy
    <3>2. surface[s].revision \in Nat /\ done.at[s].revision \in Nat
      BY <1>1, <2>5 DEF Sound, Row
    <3>3. done.at[s].revision = 0 \/ surface[s].revision <= done.at[s].revision
      BY <2>5 DEF Rises
    <3>4. \/ next.at[s].revision \in {0, done.at[s].revision}
          \/ done.at[s].revision > 0 /\ next.at[s].revision = done.at[s].revision + 1
      BY <2>2, <2>3, <3>1
    <3> QED BY <3>2, <3>3, <3>4
  <2> QED BY <2>4, <2>5
<1>3. CASE ~ (done.ok /\ Applicable(o, done.at, surface))
  <2>1. next = [done EXCEPT !.ok = no]
    BY <1>3 DEF Tried
  <2>2. no \in BOOLEAN
    OBVIOUS
  <2> HIDE DEF no
  <2>3. [done EXCEPT !.ok = no] \in Runs /\ [done EXCEPT !.ok = no].at = done.at
    BY <2>2 DEF Runs
  <2> QED BY <2>1, <2>3
<1> QED BY <1>2, <1>3

LEMMA RunGoesLeft ==
  ASSUME NEW batch \in Seq(Ops), surface \in [Surfaces -> Sound]
  PROVE  \E f \in [0..Len(batch) -> Runs] :
           /\ f[0] = [ok |-> TRUE, at |-> surface]
           /\ \A k \in 1..Len(batch) : f[k] = Tried(f[k - 1], batch[k])
           /\ Run(batch) = f[Len(batch)]
<1> DEFINE n == Len(batch)
           a == [ok |-> TRUE, at |-> surface]
           g == [p \in Runs \X Nat |-> IF p[2] \in 1..n THEN Tried(p[1], batch[p[2]]) ELSE p[1]]
           chosen == CHOOSE h : h = RunBy(h, batch)
<1>1. n \in Nat /\ DOMAIN batch = 1..n /\ \A k \in 1..n : batch[k] \in Ops /\ batch[k] \in OpsOf(batch)
  BY LenProperties DEF OpsOf
<1>2. a \in Runs
  BY DEF Runs
<1>3. g \in [Runs \X Nat -> Runs]
  <2>1. \A p \in Runs \X Nat : p[1] \in Runs
    OBVIOUS
  <2>2. \A p \in Runs \X Nat : p[2] \in 1..n => Tried(p[1], batch[p[2]]) \in Runs
    BY <1>1, <2>1, TriedKeeps
  <2> QED BY <2>1, <2>2
<1>4. \A v \in Runs, k \in 1..n : g[<<v, k>>] = Tried(v, batch[k])
  <2> TAKE v \in Runs, k \in 1..n
  <2>1. <<v, k>> \in Runs \X Nat
    BY <1>1
  <2> QED BY <2>1
<1> HIDE DEF n, g, a
<1>5. PICK h : h \in [SUBSET (1..n) -> Runs] /\ Folds(h, n, a, g)
  BY <1>1, <1>2, <1>3, FoldExists
<1>6. h = RunBy(h, batch)
  <2>1. ASSUME NEW t \in SUBSET (1..n), t # {}
        PROVE  h[t] = Tried(h[t \ {Max(t)}], batch[Max(t)])
    <3>1. Max(t) \in 1..n
      BY <1>1, <2>1, MaxOfPlaces
    <3>2. h[t \ {Max(t)}] \in Runs
      BY <1>5
    <3>3. h[t] = g[<<h[t \ {Max(t)}], Max(t)>>]
      BY <1>5, <2>1 DEF Folds
    <3> QED BY <1>4, <3>1, <3>2, <3>3
  <2>2. \A t \in SUBSET (1..n) : t = {} => h[t] = a
    BY <1>5 DEF Folds
  <2> QED BY <1>1, <1>5, <2>1, <2>2 DEF RunBy, a
<1>7. chosen = RunBy(chosen, batch)
  BY <1>6, Zenon
<1>8. Run(batch) = chosen[DOMAIN batch]
  BY Zenon DEF Run, RunBy, Tried, FoldLeft, MapThenFoldSet
<1> HIDE DEF chosen
<1>9. \A t \in SUBSET (1..n) :
        chosen[t] = IF t = {} THEN a ELSE Tried(chosen[t \ {Max(t)}], batch[Max(t)])
  BY <1>1, <1>7 DEF RunBy, a
<1>10. chosen[{}] = a
  BY <1>9
<1>11. Follows(chosen, n, Runs, g)
  <2> SUFFICES ASSUME NEW t \in SUBSET (1..n), t # {} /\ chosen[t \ {Max(t)}] \in Runs
               PROVE  chosen[t] = g[<<chosen[t \ {Max(t)}], Max(t)>>]
    BY DEF Follows
  <2>1. Max(t) \in 1..n
    BY <1>1, MaxOfPlaces
  <2> QED BY <1>4, <1>9, <2>1
<1>12. GoesLeft(chosen, n, Runs, a, g)
  BY <1>1, <1>2, <1>3, <1>10, <1>11, FoldGoesLeft
<1>13. PICK f \in [0..n -> Runs] :
         /\ f[0] = a
         /\ \A k \in 1..n : f[k] = g[<<f[k - 1], k>>]
         /\ chosen[1..n] = f[n]
  BY <1>12 DEF GoesLeft
<1>14. \A k \in 1..n : f[k] = Tried(f[k - 1], batch[k])
  <2> TAKE k \in 1..n
  <2>1. k - 1 \in 0..n
    BY <1>1
  <2>2. f[k - 1] \in Runs
    BY <2>1
  <2> QED BY <1>4, <1>13, <2>2
<1> QED BY <1>1, <1>8, <1>13, <1>14 DEF n, a

\* The batch leaves sound rows, and of what it did not create no row below the
\* revision it found.
LEMMA RunRises ==
  ASSUME NEW batch \in Seq(Ops), surface \in [Surfaces -> Sound]
  PROVE  Run(batch) \in Runs /\ Rises(Run(batch).at, batch)
<1> DEFINE n == Len(batch)
<1>1. n \in Nat /\ DOMAIN batch = 1..n /\ \A k \in 1..n : batch[k] \in Ops /\ batch[k] \in OpsOf(batch)
  BY LenProperties DEF OpsOf
<1>2. PICK f \in [0..n -> Runs] :
        /\ f[0] = [ok |-> TRUE, at |-> surface]
        /\ \A k \in 1..n : f[k] = Tried(f[k - 1], batch[k])
        /\ Run(batch) = f[n]
  BY RunGoesLeft
<1> HIDE DEF n
<1> DEFINE T == {k \in 0..n : Rises(f[k].at, batch)}
<1>3. 0 \in T
  <2>1. f[0].at = surface /\ 0 \in 0..n
    BY <1>1, <1>2
  <2>2. \A s \in Surfaces : surface[s].revision \in Nat
    BY DEF Sound, Row
  <2>3. Rises(surface, batch)
    BY <2>2 DEF Rises
  <2> QED BY <2>1, <2>3
<1>4. ASSUME NEW k \in 1..n, k - 1 \in T PROVE k \in T
  <2>1. k \in 0..n /\ k - 1 \in 0..n /\ f[k - 1] \in Runs
    BY <1>1
  <2>2. f[k] = Tried(f[k - 1], batch[k]) /\ Rises(f[k - 1].at, batch)
    BY <1>2, <1>4
  <2>3. Rises(f[k].at, batch)
    BY <1>1, <2>1, <2>2, TriedKeeps
  <2> QED BY <2>1, <2>3
<1> HIDE DEF T
<1>5. 0..n \subseteq T
  BY <1>1, <1>3, <1>4, BoundedInduction
<1>6. n \in 0..n
  BY <1>1
<1>7. Rises(f[n].at, batch)
  BY <1>5, <1>6 DEF T
<1> QED BY <1>2, <1>6, <1>7

\* An entry of the log has its fields, and what it has not created was not above
\* the revision undo must find.
EntryOk(e) ==
  /\ {"batch", "via", "before", "post"} \subseteq DOMAIN e
  /\ e.batch \in Seq(Ops) /\ e.via \in {"direct", "proposal"}
  /\ DOMAIN e.before \subseteq Surfaces
  /\ \A s \in DOMAIN e.before \ CreatedBy(e.batch) :
       s \in DOMAIN e.post /\ e.before[s] \in Nat /\ e.before[s] <= e.post[s]

ProposalOk(p) ==
  /\ {"batch", "status"} \subseteq DOMAIN p
  /\ p.batch \in Seq(Ops) /\ p.status \in {"pending", "applied", "closed"}

KernelInv ==
  /\ surface \in [Surfaces -> Sound]
  /\ \A i \in DOMAIN log : EntryOk(log[i])
  /\ \A i \in DOMAIN proposals : ProposalOk(proposals[i])

LEMMA NextKernel ==
  ASSUME surface' \in [Surfaces -> Sound],
         \A i \in DOMAIN log' : EntryOk(log'[i]),
         \A i \in DOMAIN proposals' : ProposalOk(proposals'[i])
  PROVE  KernelInv'
<1>1. (surface \in [Surfaces -> Sound])'
  BY Zenon DEF Sound, Row, Contiguous
<1>2. (\A i \in DOMAIN log : EntryOk(log[i]))'
  BY Zenon DEF EntryOk, CreatedBy, OpsOf
<1>3. (\A i \in DOMAIN proposals : ProposalOk(proposals[i]))'
  BY Zenon DEF ProposalOk
<1> QED BY <1>1, <1>2, <1>3, Zenon DEF KernelInv

LEMMA EntryIsOk ==
  ASSUME KernelInv, NEW batch \in Seq(Ops), NEW via \in {"direct", "proposal"}
  PROVE  EntryOk(Entry(batch, via, Run(batch).at)) /\ Run(batch).at \in [Surfaces -> Sound]
<1> DEFINE at == Run(batch).at
           e == Entry(batch, via, at)
           touched == Touched(batch)
           posts == touched \cup {c \in CreatedBy(batch) : at[c].revision > 0}
<1>1. surface \in [Surfaces -> Sound]
  BY DEF KernelInv
<1>2. Run(batch) \in Runs /\ Rises(at, batch)
  BY <1>1, RunRises
<1>3. at \in [Surfaces -> Sound]
  BY <1>2 DEF Runs
<1>4. /\ {"batch", "via", "before", "post"} \subseteq DOMAIN e
      /\ e.batch = batch /\ e.via = via
      /\ e.before = [s \in touched |-> surface[s].revision]
      /\ e.post = PostRevisions(batch, at)
  BY DEF Entry
<1>5. touched \subseteq Surfaces
  BY DEF Touched
<1> HIDE DEF at
<1>6. e.post = [s \in posts |-> IF at[s].revision > 0 THEN at[s].revision
                                ELSE surface[s].revision + 1]
  BY <1>4, Zenon DEF PostRevisions
<1>7. touched \subseteq posts
  OBVIOUS
<1> HIDE DEF touched, posts, e
<1>8. ASSUME NEW s \in touched \ CreatedBy(batch)
      PROVE  s \in DOMAIN e.post /\ e.before[s] \in Nat /\ e.before[s] <= e.post[s]
  <2>1. surface[s].revision \in Nat /\ at[s].revision \in Nat
    BY <1>1, <1>3, <1>5 DEF Sound, Row
  <2>2. at[s].revision = 0 \/ surface[s].revision <= at[s].revision
    BY <1>2, <1>5 DEF Rises
  <2>3. s \in DOMAIN e.post
        /\ e.post[s] = IF at[s].revision > 0 THEN at[s].revision ELSE surface[s].revision + 1
    BY <1>6, <1>7
  <2>4. e.before[s] = surface[s].revision
    BY <1>4
  <2> QED BY <2>1, <2>2, <2>3, <2>4
<1>9. EntryOk(e)
  BY <1>4, <1>5, <1>8 DEF EntryOk
<1> QED BY <1>3, <1>9 DEF e, at

LEMMA CommitKernel ==
  ASSUME IInv, KernelInv, NEW batch \in Seq(Ops), NEW via \in {"direct", "proposal"},
         Commit(batch, via)
  PROVE  surface' \in [Surfaces -> Sound] /\ \A i \in DOMAIN log' : EntryOk(log'[i])
<1> DEFINE e == Entry(batch, via, Run(batch).at)
           n == Len(log)
<1>1. log' = Append(log, e) /\ surface' = Run(batch).at
  BY DEF Commit
<1>2. EntryOk(e) /\ Run(batch).at \in [Surfaces -> Sound]
  BY EntryIsOk
<1> HIDE DEF e
<1>3. /\ DOMAIN log = 1..n /\ n \in Nat
      /\ DOMAIN log' = 1..(n + 1)
      /\ \A i \in 1..n : log'[i] = log[i]
      /\ log'[n + 1] = e
  BY <1>1, AppendShape DEF IInv, Shape
<1> HIDE DEF n
<1>4. \A i \in DOMAIN log' : i \in DOMAIN log \/ i = n + 1
  BY <1>3
<1>5. \A i \in DOMAIN log' : EntryOk(log'[i])
  BY <1>2, <1>3, <1>4 DEF KernelInv
<1> QED BY <1>1, <1>2, <1>5

LEMMA DecisionKernel ==
  ASSUME KernelInv, NEW i \in DOMAIN proposals, NEW value \in {"applied", "closed"},
         proposals' = [proposals EXCEPT ![i].status = value]
  PROVE  \A j \in DOMAIN proposals' : ProposalOk(proposals'[j])
<1> DEFINE p == [proposals[i] EXCEPT !.status = value]
<1>1. ProposalOk(proposals[i])
  BY DEF KernelInv
<1>2. p.batch = proposals[i].batch /\ p.status = value /\ DOMAIN p = DOMAIN proposals[i]
  BY <1>1 DEF ProposalOk
<1>3. proposals' = [proposals EXCEPT ![i] = p]
  OBVIOUS
<1> HIDE DEF p
<1>4. ProposalOk(p)
  BY <1>1, <1>2 DEF ProposalOk
<1>5. \A j \in DOMAIN proposals' :
        j \in DOMAIN proposals /\ (proposals'[j] = p \/ proposals'[j] = proposals[j])
  BY <1>3
<1> QED BY <1>4, <1>5 DEF KernelInv

LEMMA ChangeKernelKeeps ==
  ASSUME IInv, KernelInv, NEW batch \in Seq(Ops), NEW agent, NEW granted, NEW result,
         ApplyChange(batch, agent, granted, result)
  PROVE  KernelInv'
<1>1. CASE result = "committed"
  <2>1. Commit(batch, "direct") /\ UNCHANGED proposals
    BY <1>1 DEF ApplyChange
  <2>2. surface' \in [Surfaces -> Sound] /\ \A i \in DOMAIN log' : EntryOk(log'[i])
    BY <2>1, CommitKernel
  <2>3. \A i \in DOMAIN proposals' : ProposalOk(proposals'[i])
    BY <2>1 DEF KernelInv
  <2> QED BY <2>2, <2>3, NextKernel
<1>2. CASE result = "proposal"
  <2>1. Propose(batch)
    BY <1>2 DEF ApplyChange
  <2> DEFINE p == [batch |-> batch, base |-> Frozen(batch), status |-> "pending"]
             n == Len(proposals)
  <2>2. proposals' = Append(proposals, p) /\ UNCHANGED <<surface, log>>
    BY <2>1 DEF Propose
  <2>3. ProposalOk(p)
    BY DEF ProposalOk
  <2> HIDE DEF p
  <2>4. /\ DOMAIN proposals = 1..n /\ n \in Nat
        /\ DOMAIN proposals' = 1..(n + 1)
        /\ \A i \in 1..n : proposals'[i] = proposals[i]
        /\ proposals'[n + 1] = p
    BY <2>2, AppendShape DEF IInv, Shape
  <2> HIDE DEF n
  <2>5. \A i \in DOMAIN proposals' : i \in DOMAIN proposals \/ i = n + 1
    BY <2>4
  <2>6. \A i \in DOMAIN proposals' : ProposalOk(proposals'[i])
    BY <2>3, <2>4, <2>5 DEF KernelInv
  <2>7. surface' \in [Surfaces -> Sound] /\ \A i \in DOMAIN log' : EntryOk(log'[i])
    BY <2>2 DEF KernelInv
  <2> QED BY <2>6, <2>7, NextKernel
<1>3. CASE result \notin {"committed", "proposal"}
  <2>1. UNCHANGED <<surface, log, proposals>>
    BY <1>3 DEF ApplyChange
  <2> QED BY <2>1, NextKernel DEF KernelInv
<1> QED BY <1>1, <1>2, <1>3

\* What comes back is a row whose versions end at its revision: the undo found
\* the surface at or above the revision it goes back to.
LEMMA RestoredRow ==
  ASSUME NEW row \in Sound, NEW r \in Nat, r <= row.revision
  PROVE  [row EXCEPT !.revision = r, !.versions = {v \in @ : v <= r}] \in Sound
<1> DEFINE kept == {v \in row.versions : v <= r}
<1>1. /\ row \in Row /\ row.revision \in Nat /\ row.versions \in SUBSET Nat
      /\ row.versions = 1..row.revision
  BY DEF Sound, Contiguous, Row
<1>2. kept = 1..r /\ kept \in SUBSET Nat
  BY <1>1
<1>3. [row EXCEPT !.revision = r, !.versions = {v \in @ : v <= r}]
        = [row EXCEPT !.revision = r, !.versions = kept]
  OBVIOUS
<1> HIDE DEF kept
<1>4. /\ [row EXCEPT !.revision = r, !.versions = kept]
           = [revision |-> r, archived |-> row.archived, versions |-> kept]
      /\ [revision |-> r, archived |-> row.archived, versions |-> kept] \in Row
  BY <1>1, <1>2, RowFields
<1>5. [revision |-> r, archived |-> row.archived, versions |-> kept] \in Sound
  BY <1>2, <1>4 DEF Sound, Contiguous
<1> QED BY <1>3, <1>4, <1>5

LEMMA UndoKernel ==
  ASSUME KernelInv, NEW i \in DOMAIN log, Undo(i)
  PROVE  surface' \in [Surfaces -> Sound] /\ \A j \in DOMAIN log' : EntryOk(log'[j])
<1> DEFINE e == [log[i] EXCEPT !.undone = TRUE]
           found == DOMAIN log[i].before
           r(s) == log[i].before[s]
           back(s) == [surface[s] EXCEPT !.revision = r(s), !.versions = {v \in @ : v <= r(s)}]
<1>1. EntryOk(log[i]) /\ surface \in [Surfaces -> Sound]
  BY DEF KernelInv
<1>2. /\ \A s \in DOMAIN log[i].post : surface[s].revision = log[i].post[s]
      /\ found \cap CreatedBy(log[i].batch) = {}
  BY DEF Undo, Undoable
<1>3. surface' = [s \in Surfaces |->
        IF s \in found THEN back(s)
        ELSE IF s \in CreatedBy(log[i].batch) THEN Absent ELSE surface[s]]
  BY Zenon DEF Undo
<1>4. ASSUME NEW s \in Surfaces, s \in found PROVE back(s) \in Sound
  <2>1. surface[s] \in Sound
    BY <1>1
  <2>2. r(s) \in Nat /\ s \in DOMAIN log[i].post /\ r(s) <= log[i].post[s]
    BY <1>1, <1>2, <1>4 DEF EntryOk
  <2>3. r(s) <= surface[s].revision
    BY <1>2, <2>2
  <2> HIDE DEF r
  <2> QED BY <2>1, <2>2, <2>3, RestoredRow
<1> HIDE DEF back, found
<1>5. surface' \in [Surfaces -> Sound]
  BY <1>1, <1>3, <1>4, SoundRows
<1>6. log' = [log EXCEPT ![i] = e]
  BY DEF Undo
<1>7. /\ DOMAIN e = DOMAIN log[i] /\ e.batch = log[i].batch /\ e.via = log[i].via
      /\ e.before = log[i].before /\ e.post = log[i].post
  BY <1>1 DEF EntryOk
<1> HIDE DEF e
<1>8. EntryOk(e)
  BY <1>1, <1>7 DEF EntryOk
<1>9. \A j \in DOMAIN log' : j \in DOMAIN log /\ (log'[j] = e \/ log'[j] = log[j])
  BY <1>6
<1> QED BY <1>5, <1>8, <1>9 DEF KernelInv

LEMMA KernelInvStep == IInv /\ RowInv /\ KernelInv /\ [Next]_vars => KernelInv'
<1> SUFFICES ASSUME IInv, RowInv, KernelInv, [Next]_vars PROVE KernelInv'
  OBVIOUS
<1>1. ASSUME UNCHANGED tables PROVE KernelInv'
  BY <1>1, NextKernel DEF tables, KernelInv
<1>2. ASSUME NEW b \in Batches, ScheduleOnly(b) \/ ScheduleAndApply(b) PROVE KernelInv'
  BY <1>1, <1>2 DEF ScheduleOnly, ScheduleAndApply, Schedule
<1>3. ASSUME NEW result \in Results, BatchApplies(result) PROVE KernelInv'
  <2>1. PICK agent, granted : ApplyChange(cmd.todo, agent, granted, result)
    BY <1>3 DEF BatchApplies
  <2>2. cmd.todo \in Seq(Ops)
    BY DEF RowInv, RowsTyped, CmdTyped
  <2> QED BY <2>1, <2>2, ChangeKernelKeeps
<1>4. ASSUME NEW result \in Results, FlushApplies(result) PROVE KernelInv'
  <2> DEFINE one == <<Head(cmd.todo)>>
  <2>1. PICK agent, granted : ApplyChange(one, agent, granted, result)
    BY <1>4 DEF FlushApplies
  <2>2. cmd.todo \in Seq(Ops) /\ cmd.todo # << >>
    BY <1>4 DEF FlushApplies, RowInv, RowsTyped, CmdTyped
  <2>3. Head(cmd.todo) \in Ops
    BY <2>2, TailOps
  <2>4. one \in Seq(Ops)
    BY <2>3
  <2> HIDE DEF one
  <2> QED BY <2>1, <2>4, ChangeKernelKeeps
<1>5. ASSUME BatchMarks \/ FlushMarks \/ Crash PROVE KernelInv'
  BY <1>1, <1>5 DEF BatchMarks, FlushMarks, Crash
<1>6. ASSUME NEW s \in Views, FlushBegins(s) \/ Mount(s) \/ Unmount(s) PROVE KernelInv'
  BY <1>1, <1>6 DEF FlushBegins, Mount, Unmount
<1>7. ASSUME NEW i \in DOMAIN proposals, ApproveProposal(i) PROVE KernelInv'
  <2>1. /\ Commit(proposals[i].batch, "proposal")
        /\ proposals' = [proposals EXCEPT ![i].status = "applied"]
    BY <1>7 DEF ApproveProposal, Approve
  <2>2. proposals[i].batch \in Seq(Ops)
    BY DEF KernelInv, ProposalOk
  <2>3. surface' \in [Surfaces -> Sound] /\ \A j \in DOMAIN log' : EntryOk(log'[j])
    BY <2>1, <2>2, CommitKernel
  <2>4. \A j \in DOMAIN proposals' : ProposalOk(proposals'[j])
    BY <2>1, DecisionKernel
  <2> QED BY <2>3, <2>4, NextKernel
<1>8. ASSUME NEW i \in DOMAIN proposals, CloseProposal(i) PROVE KernelInv'
  <2>1. /\ proposals' = [proposals EXCEPT ![i].status = "closed"]
        /\ UNCHANGED <<surface, log>>
    BY <1>8 DEF CloseProposal, Close
  <2>2. \A j \in DOMAIN proposals' : ProposalOk(proposals'[j])
    BY <2>1, DecisionKernel
  <2>3. surface' \in [Surfaces -> Sound] /\ \A j \in DOMAIN log' : EntryOk(log'[j])
    BY <2>1 DEF KernelInv
  <2> QED BY <2>2, <2>3, NextKernel
<1>9. ASSUME NEW i \in DOMAIN log, UndoTransaction(i) PROVE KernelInv'
  <2>1. Undo(i) /\ UNCHANGED proposals
    BY <1>9 DEF UndoTransaction
  <2>2. surface' \in [Surfaces -> Sound] /\ \A j \in DOMAIN log' : EntryOk(log'[j])
    BY <2>1, UndoKernel
  <2>3. \A j \in DOMAIN proposals' : ProposalOk(proposals'[j])
    BY <2>1 DEF KernelInv
  <2> QED BY <2>2, <2>3, NextKernel
<1>10. CASE UNCHANGED vars
  BY <1>1, <1>10 DEF vars
<1> QED BY <1>2, <1>3, <1>4, <1>5, <1>6, <1>7, <1>8, <1>9, <1>10 DEF Next

LEMMA KernelInvInit == Init => KernelInv
<1> SUFFICES ASSUME Init PROVE KernelInv
  OBVIOUS
<1>1. /\ surface = [s \in Surfaces |-> IF s \in Existing THEN Fresh ELSE Absent]
      /\ log = << >> /\ proposals = << >>
  BY DEF Init, KernelInit, SurfaceInit
<1>2. surface \in [Surfaces -> Sound]
  BY <1>1, SoundRows
<1> QED BY <1>1, <1>2 DEF KernelInv

\* Every reachable state has the invariant of the surfaces, the log's snapshots
\* and the proposals: apply_transaction_deferred and undo_transaction keep it.
THEOREM KernelKept == Spec => []KernelInv
<1> QED BY KernelInvInit, KernelInvStep, LogKept, RowsKept, PTL DEF Spec

\* Every variable keeps to its type; no row is deferred more often than the
\* retries allow (promote_deferred_patches).
THEOREM SchedulerTyped == Spec => []TypeOK
<1>1. RowInv /\ KernelInv => TypeOK
  <2> SUFFICES ASSUME RowInv, KernelInv PROVE TypeOK
    OBVIOUS
  <2>1. surface \in [Surfaces -> Row]
    BY DEF KernelInv, Sound
  <2>2. \A i \in DOMAIN log : log[i].batch \in Seq(Ops) /\ log[i].via \in {"direct", "proposal"}
    BY DEF KernelInv, EntryOk
  <2>3. \A i \in DOMAIN proposals : proposals[i].status \in {"pending", "applied", "closed"}
    BY DEF KernelInv, ProposalOk
  <2>4. /\ status \in [Ops -> Statuses]
        /\ defers \in [Ops -> 0..MaxDeferredRetries + 1]
        /\ line \in Seq(Ops)
        /\ mounted \subseteq Surfaces
        /\ crashes \in 0..MaxCrashes
    BY DEF RowInv, RowsTyped
  <2>5. cmd.kind \in {"idle", "batch", "flush"} /\ cmd.todo \in Seq(Ops)
    BY DEF RowInv, RowsTyped, CmdTyped
  <2> QED BY <2>1, <2>2, <2>3, <2>4, <2>5 DEF TypeOK
<1> QED BY <1>1, RowsKept, KernelKept, PTL

\* The versions kept of a surface are those up to its revision, whatever is
\* edited, deleted, created again and undone (transactions.rs, undo_transaction).
THEOREM VersionsStayContiguous == Spec => []VersionsContiguous
<1>1. KernelInv => VersionsContiguous
  BY DEF KernelInv, Sound, Contiguous, VersionsContiguous
<1> QED BY <1>1, KernelKept, PTL
=============================================================================
