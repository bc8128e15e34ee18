-------------------------- MODULE AttemptResources --------------------------
(***************************************************************************)
(* The live handles of one attempt: acquired one after the other from the  *)
(* host and the providers, and disposed all together.                      *)
(*                                                                         *)
(* Plan is the sequence of acquisitions a manifest asks for, provider by   *)
(* provider: "workspace", "credential" or "clients".  A credential lease   *)
(* and the clients of a provider have a disposer; a workspace allocation   *)
(* has none.                                                               *)
(***************************************************************************)
EXTENDS Naturals, Sequences

CONSTANT Plan

ASSUME PlanAssumption == Plan \in Seq({"workspace", "credential", "clients"})

VARIABLES
  next,    \* index in Plan of the acquisition under way
  lease    \* state of what each acquisition returned

resourceVars == <<next, lease>>

ResourcesTypeOK ==
  /\ next \in 1..(Len(Plan) + 1)
  /\ lease \in [1..Len(Plan) -> {"none", "live", "disposing", "released", "failed"}]

ResourcesInit ==
  /\ next = 1
  /\ lease = [i \in 1..Len(Plan) |-> "none"]

Disposable(i) == Plan[i] # "workspace"

Recorded == [lease EXCEPT ![next] = IF Disposable(next) THEN "live" ELSE "none"]

(* One acquisition returns what was asked for.                             *)
AcquireNext ==
  /\ next <= Len(Plan)
  /\ next' = next + 1
  /\ lease' = Recorded

AcquiredAll == next = Len(Plan) + 1

(* An acquisition fails: the host rejects it, or what it returned does not *)
(* match the binding (a lease is recorded before it is checked).  Every    *)
(* handle acquired so far is then disposed, which may also be none.        *)
Disposing(handles) == [i \in DOMAIN handles |-> IF handles[i] = "live" THEN "disposing" ELSE handles[i]]

FailAcquisition(returned) ==
  /\ next <= Len(Plan)
  /\ lease' = Disposing(IF returned THEN Recorded ELSE lease)
  /\ UNCHANGED next

(* disposeAll(): every disposer is started, and each settles on its own.   *)
BeginDispose ==
  /\ lease' = Disposing(lease)
  /\ UNCHANGED next

SettleDispose(i, how) ==
  /\ lease[i] = "disposing"
  /\ lease' = [lease EXCEPT ![i] = how]
  /\ UNCHANGED next

DisposalsSettled == \A i \in DOMAIN lease : lease[i] # "disposing"
DisposalFailed == \E i \in DOMAIN lease : lease[i] = "failed"
=============================================================================
