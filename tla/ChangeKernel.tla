---------------------------- MODULE ChangeKernel ----------------------------
(***************************************************************************)
(* apply_change and decide_proposal (application_kernel/mod.rs): the one   *)
(* door to the surface transactions.  A change whose risk needs approval   *)
(* becomes a proposal that freezes the operations and the revisions they   *)
(* were written against; deciding it commits exactly those operations.     *)
(*                                                                         *)
(* Left out: what a policy looks at (it may refuse any change, and ask for *)
(* approval of one whose risk does not), recovery mode, capability packs,  *)
(* idempotency keys (the operations here carry none).  What they and the   *)
(* payload checks may refuse is the results "error" and "conflicted",      *)
(* always possible.                                                        *)
(***************************************************************************)
EXTENDS SurfaceTransactions

CONSTANTS
  Deps,       \* Deps[o]: the operations o depends on
  PolicyAsks  \* bound: the operations that may meet a policy asking for approval

ASSUME DepsAssumption == Deps \in [Ops -> SUBSET Ops] /\ PolicyAsks \subseteq Ops

VARIABLE proposals   \* kernel_change_proposals, in the order they were made

Automatic == {"inline", "state", "navigate"}
Strong == {"delete"}

\* classify_risk: the worst of the batch.
NeedsApproval(batch) == \E o \in OpsOf(batch) : Kind[o] \notin Automatic
IsStrong(batch) == \E o \in OpsOf(batch) : Kind[o] \in Strong

\* Mutant: references are not looked at.
AnyRefs(batch) == TRUE
\* validate_dependency_refs: what an operation depends on is in its batch.
RefsOk(batch) == \A o \in OpsOf(batch) : Deps[o] \subseteq OpsOf(batch)

TargetsOf(batch) == {Target[o] : o \in OpsOf(batch)} \ {NoSurface}
\* The revisions a proposal freezes; 0 for the surfaces it creates itself.
Frozen(batch) ==
  [s \in TargetsOf(batch) |-> IF s \in CreatedBy(batch) THEN 0 ELSE surface[s].revision]

-----------------------------------------------------------------------------

Propose(batch) ==
  /\ NeedsApproval(batch) \/ OpsOf(batch) \cap PolicyAsks # {}
  /\ \A s \in TargetsOf(batch) \ CreatedBy(batch) : surface[s].revision > 0
  /\ proposals' = Append(proposals,
                         [batch |-> batch, base |-> Frozen(batch), status |-> "pending"])
  /\ UNCHANGED <<surface, log>>

\* apply_change by an agent or by the user; the agent has no say in `granted`.
\* What its risk does not make a proposal a policy may, set and lifted at any time.
ApplyChange(batch, agent, granted, result) ==
  LET consent == granted /\ ~ agent
      approved == NeedsApproval(batch) => consent
  IN  \/ /\ result = "committed"
         /\ RefsOk(batch)
         /\ approved
         /\ Commit(batch, "direct")
         /\ UNCHANGED proposals
      \/ /\ result = "proposal"
         /\ RefsOk(batch)
         /\ ~ consent
         /\ Propose(batch)
      \/ /\ result = "conflicted"
         /\ RefsOk(batch)
         /\ approved
         /\ UNCHANGED <<surface, log, proposals>>
      \/ /\ result = "error"
         /\ UNCHANGED <<surface, log, proposals>>

BaseUnmoved(i) ==
  \A s \in DOMAIN proposals[i].base : surface[s].revision = proposals[i].base[s]

\* Mutant: the proposal is still pending after its commit.
ApproveStillPending(i) ==
  /\ proposals[i].status = "pending"
  /\ BaseUnmoved(i)
  /\ Commit(proposals[i].batch, "proposal")
  /\ UNCHANGED proposals

\* decide_proposal(approve): the frozen operations, if their bases did not move.
Approve(i) ==
  /\ proposals[i].status = "pending"
  /\ BaseUnmoved(i)
  /\ Commit(proposals[i].batch, "proposal")
  /\ proposals' = [proposals EXCEPT ![i].status = "applied"]

\* Rejected, expired after 24 hours, stale, or failed in the attempt to apply.
Close(i) ==
  /\ proposals[i].status = "pending"
  /\ proposals' = [proposals EXCEPT ![i].status = "closed"]
  /\ UNCHANGED <<surface, log>>

KernelInit ==
  /\ SurfaceInit
  /\ proposals = << >>
=============================================================================
