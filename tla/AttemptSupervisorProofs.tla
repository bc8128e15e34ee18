---------------------- MODULE AttemptSupervisorProofs ----------------------
(***************************************************************************)
(* Theorems about AttemptSupervisor for any number of identities and calls *)
(* and any limits: the properties its TLC runs check on small instances.   *)
(*                                                                         *)
(* None of them is inductive as it stands.  IInv adds what relates the     *)
(* map of open identities to the calls that hold them, in both directions. *)
(***************************************************************************)
EXTENDS AttemptSupervisor, FiniteSetTheorems, SequenceTheorems, TLAPS

(* An entry of the map of open identities belongs to the call that was     *)
(* given that identity and that still holds it, and the other way around.  *)
ActiveHeld ==
  \A k \in Keys : active[k] # NoCall => Holds(active[k]) /\ key[active[k]] = k

HoldersActive ==
  \A c \in Calls : Holds(c) => active[key[c]] = c

UncertainHeld ==
  \A k \in Keys : uncertain[k] # NoCall =>
    /\ active[k] = uncertain[k]
    /\ call[uncertain[k]] = "supervised"
    /\ uncertain[k] \in triggered \/ run[uncertain[k]] = "rejected"

GraceTriggered ==
  \A c \in Calls : call[c] = "grace" => c \in triggered

TerminalClosed ==
  \A k \in Keys : terminal[k] # NoCall =>
    /\ active[k] = NoCall
    /\ key[terminal[k]] = k
    /\ run[terminal[k]] = "settled"
    /\ call[terminal[k]] \in {"returned", "reconciled"}

SlotsBounded == Cardinality(Entries(active)) <= OpenLimit

HeldInv ==
  /\ ActiveHeld
  /\ HoldersActive
  /\ UncertainHeld
  /\ GraceTriggered
  /\ TerminalClosed

IInv ==
  /\ TypeOK
  /\ HeldInv
  /\ RetentionConsistent
  /\ SlotsBounded

-----------------------------------------------------------------------------
(* finish().                                                               *)

(* The two outcomes of finish() for an identity that has no terminal       *)
(* result yet: the memory grows, or its oldest identity, another one, is   *)
(* forgotten.                                                              *)
LEMMA FinishCases ==
  ASSUME TypeOK, RetentionConsistent, NEW k \in Keys, NEW c \in Calls,
         terminal[k] = NoCall, finish(k, c)
  PROVE  \/ /\ Len(terminalOrder) < TerminalLimit
            /\ terminalOrder' = Append(terminalOrder, k)
            /\ terminal' = [terminal EXCEPT ![k] = c]
         \/ /\ Len(terminalOrder) = TerminalLimit
            /\ terminalOrder # << >>
            /\ Head(terminalOrder) \in Keys
            /\ Head(terminalOrder) # k
            /\ terminal[Head(terminalOrder)] # NoCall
            /\ terminalOrder' = Append(Tail(terminalOrder), k)
            /\ terminal' = [terminal EXCEPT ![k] = c, ![Head(terminalOrder)] = NoCall]
<1>1. /\ terminalOrder \in Seq(Keys)
      /\ Len(terminalOrder) \in Nat
      /\ Len(terminalOrder) <= TerminalLimit
      /\ TerminalLimit \in Nat \ {0}
  BY StateAssumption DEF TypeOK, StateTypeOK, RetentionConsistent
<1>2. Len(Append(terminalOrder, k)) = Len(terminalOrder) + 1
  BY <1>1
<1>3. CASE Len(terminalOrder) < TerminalLimit
  <2>1. Len(Append(terminalOrder, k)) <= TerminalLimit
    BY <1>1, <1>2, <1>3
  <2>2. QED
    BY <1>1, <1>2, <1>3, <2>1 DEF finish
<1>4. CASE Len(terminalOrder) = TerminalLimit
  <2>1. ~ Len(Append(terminalOrder, k)) <= TerminalLimit
    BY <1>1, <1>2, <1>4
  <2>2. /\ terminalOrder # << >>
        /\ Head(Append(terminalOrder, k)) = Head(terminalOrder)
        /\ Tail(Append(terminalOrder, k)) = Append(Tail(terminalOrder), k)
        /\ Head(terminalOrder) = terminalOrder[1]
        /\ 1 \in 1..Len(terminalOrder)
        /\ Head(terminalOrder) \in Keys
    BY <1>1, <1>4
  <2>3. terminal[Head(terminalOrder)] # NoCall
    BY <2>2 DEF RetentionConsistent
  <2>4. /\ terminalOrder' = Tail(Append(terminalOrder, k))
        /\ terminal' = [[terminal EXCEPT ![k] = c]
                          EXCEPT ![Head(Append(terminalOrder, k))] = NoCall]
    BY <2>1 DEF finish
  <2>5. QED
    BY <1>4, <2>2, <2>3, <2>4
<1>5. QED
  BY <1>1, <1>3, <1>4

(* finish() keeps the order and the map of terminal results in step.       *)
LEMMA FinishRetention ==
  ASSUME TypeOK, RetentionConsistent, NEW k \in Keys, NEW c \in Calls,
         terminal[k] = NoCall, finish(k, c)
  PROVE  RetentionConsistent'
<1> USE DEF Entries
<1>1. /\ terminalOrder \in Seq(Keys)
      /\ terminal \in [Keys -> Calls \union {NoCall}]
      /\ Len(terminalOrder) \in Nat
      /\ TerminalLimit \in Nat \ {0}
      /\ c # NoCall
  BY StateAssumption DEF TypeOK, StateTypeOK, Ledger
<1>2. \A i \in 1..Len(terminalOrder) : terminalOrder[i] \in Keys /\ terminalOrder[i] # k
  BY <1>1 DEF RetentionConsistent
<1>3. CASE /\ Len(terminalOrder) < TerminalLimit
           /\ terminalOrder' = Append(terminalOrder, k)
           /\ terminal' = [terminal EXCEPT ![k] = c]
  <2>1. /\ Len(terminalOrder') = Len(terminalOrder) + 1
        /\ terminalOrder'[Len(terminalOrder) + 1] = k
        /\ \A i \in 1..Len(terminalOrder) : terminalOrder'[i] = terminalOrder[i]
    BY <1>1, <1>3
  <2>2. \A i \in 1..Len(terminalOrder') :
          i \in 1..Len(terminalOrder) \/ i = Len(terminalOrder) + 1
    BY <1>1, <2>1
  <2>3. Len(terminalOrder') <= TerminalLimit
    BY <1>1, <1>3, <2>1
  <2>4. \A i \in 1..Len(terminalOrder') : terminal'[terminalOrder'[i]] # NoCall
    BY <1>1, <1>2, <1>3, <2>1, <2>2 DEF RetentionConsistent
  <2>5. \A j \in Entries(terminal)' : \E i \in 1..Len(terminalOrder') : terminalOrder'[i] = j
    <3> SUFFICES ASSUME NEW j \in Keys, terminal'[j] # NoCall
                 PROVE  \E i \in 1..Len(terminalOrder') : terminalOrder'[i] = j
      OBVIOUS
    <3>1. CASE j = k
      BY <1>1, <2>1, <3>1
    <3>2. CASE j # k
      <4>1. PICK i \in 1..Len(terminalOrder) : terminalOrder[i] = j
        BY <1>1, <1>3, <3>2 DEF RetentionConsistent
      <4>2. i \in 1..Len(terminalOrder') /\ terminalOrder'[i] = j
        BY <1>1, <2>1, <4>1
      <4>3. QED
        BY <4>2
    <3>3. QED
      BY <3>1, <3>2
  <2>6. \A i, j \in 1..Len(terminalOrder') : terminalOrder'[i] = terminalOrder'[j] => i = j
    BY <1>1, <1>2, <2>1, <2>2 DEF RetentionConsistent
  <2>7. QED
    BY <2>3, <2>4, <2>5, <2>6 DEF RetentionConsistent
<1>4. CASE /\ Len(terminalOrder) = TerminalLimit
           /\ terminalOrder # << >>
           /\ Head(terminalOrder) \in Keys
           /\ Head(terminalOrder) # k
           /\ terminal[Head(terminalOrder)] # NoCall
           /\ terminalOrder' = Append(Tail(terminalOrder), k)
           /\ terminal' = [terminal EXCEPT ![k] = c, ![Head(terminalOrder)] = NoCall]
  <2> DEFINE n == Len(terminalOrder)
  <2>1. /\ Len(terminalOrder') = n
        /\ n \in Nat \ {0}
        /\ terminalOrder'[n] = k
        /\ \A i \in 1..(n - 1) : terminalOrder'[i] = terminalOrder[i + 1]
        /\ Head(terminalOrder) = terminalOrder[1]
    BY <1>1, <1>4
  <2>2. \A i \in 1..n : i \in 1..(n - 1) \/ i = n
    BY <2>1
  <2>3. \A i \in 1..(n - 1) : i + 1 \in 1..n /\ i + 1 # 1 /\ terminalOrder[i + 1] # terminalOrder[1]
    BY <2>1 DEF RetentionConsistent
  <2>4. Len(terminalOrder') <= TerminalLimit
    BY <1>1, <1>4, <2>1
  <2>5. \A i \in 1..Len(terminalOrder') : terminal'[terminalOrder'[i]] # NoCall
    <3> SUFFICES ASSUME NEW i \in 1..n
                 PROVE  terminal'[terminalOrder'[i]] # NoCall
      BY <2>1
    <3>1. CASE i = n
      BY <1>1, <1>4, <2>1, <3>1
    <3>2. CASE i \in 1..(n - 1)
      <4>1. /\ terminalOrder'[i] = terminalOrder[i + 1]
            /\ i + 1 \in 1..n
            /\ terminalOrder[i + 1] # Head(terminalOrder)
        BY <2>1, <2>3, <3>2
      <4>2. /\ terminal[terminalOrder[i + 1]] # NoCall
            /\ terminalOrder[i + 1] \in Keys
        BY <1>2, <4>1 DEF RetentionConsistent
      <4>3. QED
        BY <1>1, <1>4, <4>1, <4>2
    <3>3. QED
      BY <2>2, <3>1, <3>2
  <2>6. \A j \in Entries(terminal)' : \E i \in 1..Len(terminalOrder') : terminalOrder'[i] = j
    <3> SUFFICES ASSUME NEW j \in Keys, terminal'[j] # NoCall
                 PROVE  \E i \in 1..n : terminalOrder'[i] = j
      BY <2>1
    <3>1. CASE j = k
      BY <2>1, <3>1
    <3>2. CASE j # k
      <4>1. terminal[j] # NoCall /\ j # Head(terminalOrder)
        BY <1>1, <1>4, <3>2
      <4>2. PICK i \in 1..n : terminalOrder[i] = j
        BY <4>1 DEF RetentionConsistent
      <4>3. i # 1
        BY <2>1, <4>1, <4>2
      <4>4. i - 1 \in 1..(n - 1) /\ (i - 1) + 1 = i
        BY <2>1, <4>2, <4>3
      <4>5. i - 1 \in 1..n /\ terminalOrder'[i - 1] = j
        BY <2>1, <4>2, <4>4
      <4>6. QED
        BY <4>5
    <3>3. QED
      BY <3>1, <3>2
  <2>7. \A i, j \in 1..Len(terminalOrder') : terminalOrder'[i] = terminalOrder'[j] => i = j
    <3> SUFFICES ASSUME NEW i \in 1..n, NEW j \in 1..n, terminalOrder'[i] = terminalOrder'[j]
                 PROVE  i = j
      BY <2>1
    <3>1. CASE i = n /\ j = n
      BY <3>1
    <3>2. CASE i = n /\ j \in 1..(n - 1)
      BY <1>2, <2>1, <2>3, <3>2
    <3>3. CASE i \in 1..(n - 1) /\ j = n
      BY <1>2, <2>1, <2>3, <3>3
    <3>4. CASE i \in 1..(n - 1) /\ j \in 1..(n - 1)
      <4>1. i + 1 = j + 1
        BY <2>1, <2>3, <3>4 DEF RetentionConsistent
      <4>2. QED
        BY <2>1, <4>1
    <3>5. QED
      BY <2>2, <3>1, <3>2, <3>3, <3>4
  <2>8. QED
    BY <2>4, <2>5, <2>6, <2>7 DEF RetentionConsistent
<1>5. QED
  BY <1>3, <1>4, FinishCases

-----------------------------------------------------------------------------
(* Types.                                                                  *)

LEMMA FinishType ==
  ASSUME TypeOK, HeldInv, RetentionConsistent, NEW c \in Calls, NEW phase \in CallPhase,
         call[c] \in {"racing", "grace", "supervised"}, finishAccepted(c, phase)
  PROVE  TypeOK'
<1>1. key[c] \in Keys /\ active[key[c]] = c /\ terminal[key[c]] = NoCall
  BY StateAssumption DEF TypeOK, HeldInv, HoldersActive, TerminalClosed, Holds, Holding
<1>2. finish(key[c], c)
  BY DEF finishAccepted
<1>3. terminalOrder' \in Seq(Keys) /\ terminal' \in Ledger
  <2>1. \/ /\ terminalOrder' = Append(terminalOrder, key[c])
           /\ terminal' = [terminal EXCEPT ![key[c]] = c]
        \/ /\ terminalOrder # << >>
           /\ terminalOrder' = Append(Tail(terminalOrder), key[c])
           /\ terminal' = [terminal EXCEPT ![key[c]] = c, ![Head(terminalOrder)] = NoCall]
    BY <1>1, <1>2, FinishCases
  <2>2. terminalOrder \in Seq(Keys) /\ terminal \in Ledger
    BY DEF TypeOK, StateTypeOK
  <2>3. terminalOrder # << >> => Tail(terminalOrder) \in Seq(Keys)
    BY <2>2, HeadTailProperties
  <2>4. \A s \in Seq(Keys) : Append(s, key[c]) \in Seq(Keys)
    BY <1>1, AppendProperties
  <2>5. terminalOrder' \in Seq(Keys)
    BY <2>1, <2>2, <2>3, <2>4
  <2>6. terminal' \in Ledger
    BY <1>1, <2>1, <2>2 DEF Ledger
  <2>7. QED
    BY <2>5, <2>6
<1>4. active' \in Ledger /\ uncertain' \in Ledger
  BY <1>1, <1>2 DEF TypeOK, StateTypeOK, Ledger, finish
<1>5. QED
  BY <1>3, <1>4 DEF TypeOK, StateTypeOK, finishAccepted

LEMMA TypeStep ==
  ASSUME IInv, [Next]_vars
  PROVE  TypeOK'
<1> USE DEF IInv, TypeOK, StateTypeOK, Ledger, CallPhase, stateVars
<1>1. ASSUME NEW c \in Calls, Invoke(c) PROVE TypeOK'
  BY <1>1 DEF Invoke
<1>2. ASSUME NEW c \in Calls, RejectPreflight(c) PROVE TypeOK'
  BY <1>2 DEF RejectPreflight
<1>3. ASSUME NEW c \in Calls, RejectAdmission(c) PROVE TypeOK'
  BY <1>3 DEF RejectAdmission
<1>4. ASSUME NEW c \in Calls, Admit(c) PROVE TypeOK'
  BY <1>4 DEF Admit, begin
<1>5. ASSUME NEW c \in Calls, AdmitWithoutDeadline(c) PROVE TypeOK'
  BY <1>5 DEF AdmitWithoutDeadline, begin
<1>6. ASSUME NEW c \in Calls, Trigger(c) PROVE TypeOK'
  BY <1>6 DEF Trigger
<1>7. ASSUME NEW c \in Calls, Settle(c) PROVE TypeOK'
  BY <1>7 DEF Settle
<1>8. ASSUME NEW c \in Calls, SealThrows(c) PROVE TypeOK'
  BY <1>8 DEF SealThrows
<1>9. ASSUME NEW c \in Calls, ReturnSettled(c) PROVE TypeOK'
  BY <1>9, FinishType DEF ReturnSettled
<1>10. ASSUME NEW c \in Calls, ReturnWithinGrace(c) PROVE TypeOK'
  BY <1>10, FinishType DEF ReturnWithinGrace
<1>11. ASSUME NEW c \in Calls, FinishLate(c) PROVE TypeOK'
  BY <1>11, FinishType DEF FinishLate
<1>12. ASSUME NEW c \in Calls, RaceRejects(c) PROVE TypeOK'
  BY <1>12 DEF RaceRejects
<1>13. ASSUME NEW c \in Calls, NoticeTrigger(c) PROVE TypeOK'
  BY <1>13 DEF NoticeTrigger
<1>14. ASSUME NEW c \in Calls, GraceExpires(c) PROVE TypeOK'
  BY <1>14 DEF GraceExpires, markUncertain
<1>15. ASSUME NEW k \in Keys, Cancel(k) PROVE TypeOK'
  BY <1>15 DEF Cancel, Cancelled, reconcile
<1>16. CASE Restart
  BY <1>16 DEF Restart, Holds, Pending
<1>17. CASE UNCHANGED vars
  BY <1>17 DEF vars, callVars
<1>18. QED
  BY <1>1, <1>2, <1>3, <1>4, <1>5, <1>6, <1>7, <1>8, <1>9, <1>10, <1>11, <1>12, <1>13, <1>14, <1>15, <1>16, <1>17 DEF Next

-----------------------------------------------------------------------------
(* Open identities and the calls that hold them.                           *)

LEMMA FinishHeld ==
  ASSUME TypeOK, HeldInv, RetentionConsistent, NEW c \in Calls,
         NEW phase \in {"returned", "reconciled"},
         call[c] \in {"racing", "grace", "supervised"}, finishAccepted(c, phase)
  PROVE  HeldInv'
<1> USE DEF TypeOK, StateTypeOK, Ledger, Holds, Holding
<1>1. key[c] \in Keys /\ active[key[c]] = c /\ terminal[key[c]] = NoCall /\ c # NoCall
  BY StateAssumption DEF HeldInv, HoldersActive, TerminalClosed
<1>2. /\ finish(key[c], c)
      /\ run[c] = "settled"
      /\ call' = [call EXCEPT ![c] = phase]
      /\ UNCHANGED <<key, run, triggered>>
      /\ active' = [active EXCEPT ![key[c]] = NoCall]
      /\ uncertain' = [uncertain EXCEPT ![key[c]] = NoCall]
  BY DEF finishAccepted, finish
<1>3. \A k \in Keys : k # key[c] => active[k] # c
  BY <1>1 DEF HeldInv, ActiveHeld
<1>4. ActiveHeld' /\ HoldersActive'
  BY <1>1, <1>2, <1>3, StateAssumption DEF HeldInv, ActiveHeld, HoldersActive
<1>5. UncertainHeld' /\ GraceTriggered'
  BY <1>1, <1>2, <1>3, StateAssumption DEF HeldInv, UncertainHeld, GraceTriggered
<1>6. \A k \in Keys : terminal'[k] # NoCall =>
        (k = key[c] /\ terminal'[k] = c) \/ (k # key[c] /\ terminal'[k] = terminal[k])
  <2>1. \/ terminal' = [terminal EXCEPT ![key[c]] = c]
        \/ terminal' = [terminal EXCEPT ![key[c]] = c, ![Head(terminalOrder)] = NoCall]
    BY <1>1, <1>2, FinishCases
  <2>2. QED
    BY <1>1, <2>1
<1>7. TerminalClosed'
  BY <1>1, <1>2, <1>6, StateAssumption DEF HeldInv, TerminalClosed
<1>8. QED
  BY <1>4, <1>5, <1>7 DEF HeldInv

LEMMA HeldStep ==
  ASSUME IInv, [Next]_vars
  PROVE  HeldInv'
<1> USE StateAssumption DEF IInv, TypeOK, StateTypeOK, Ledger, CallPhase, stateVars,
        Holds, Holding, HeldInv, ActiveHeld, HoldersActive, UncertainHeld,
        GraceTriggered, TerminalClosed
<1>1. ASSUME NEW c \in Calls, Invoke(c) PROVE HeldInv'
  BY <1>1 DEF Invoke
<1>2. ASSUME NEW c \in Calls, RejectPreflight(c) PROVE HeldInv'
  BY <1>2 DEF RejectPreflight
<1>3. ASSUME NEW c \in Calls, RejectAdmission(c) PROVE HeldInv'
  BY <1>3 DEF RejectAdmission
<1>4. ASSUME NEW c \in Calls, Admit(c) PROVE HeldInv'
  BY <1>4 DEF Admit, begin, AlreadyAccepted
<1>5. ASSUME NEW c \in Calls, AdmitWithoutDeadline(c) PROVE HeldInv'
  BY <1>5 DEF AdmitWithoutDeadline, begin, AlreadyAccepted
<1>6. ASSUME NEW c \in Calls, Trigger(c) PROVE HeldInv'
  BY <1>6 DEF Trigger
<1>7. ASSUME NEW c \in Calls, Settle(c) PROVE HeldInv'
  BY <1>7 DEF Settle
<1>8. ASSUME NEW c \in Calls, SealThrows(c) PROVE HeldInv'
  BY <1>8 DEF SealThrows
<1>9. ASSUME NEW c \in Calls, ReturnSettled(c) PROVE HeldInv'
  BY <1>9, FinishHeld DEF ReturnSettled, IInv, CallPhase
<1>10. ASSUME NEW c \in Calls, ReturnWithinGrace(c) PROVE HeldInv'
  BY <1>10, FinishHeld DEF ReturnWithinGrace, IInv, CallPhase
<1>11. ASSUME NEW c \in Calls, FinishLate(c) PROVE HeldInv'
  BY <1>11, FinishHeld DEF FinishLate, IInv, CallPhase
<1>12. ASSUME NEW c \in Calls, RaceRejects(c) PROVE HeldInv'
  BY <1>12 DEF RaceRejects
<1>13. ASSUME NEW c \in Calls, NoticeTrigger(c) PROVE HeldInv'
  BY <1>13 DEF NoticeTrigger
<1>14. ASSUME NEW c \in Calls, GraceExpires(c) PROVE HeldInv'
  BY <1>14 DEF GraceExpires, markUncertain
<1>15. ASSUME NEW k \in Keys, Cancel(k) PROVE HeldInv'
  BY <1>15 DEF Cancel, Cancelled, reconcile
<1>16. CASE Restart
  BY <1>16 DEF Restart, Pending
<1>17. CASE UNCHANGED vars
  BY <1>17 DEF vars, callVars
<1>18. QED
  BY <1>1, <1>2, <1>3, <1>4, <1>5, <1>6, <1>7, <1>8, <1>9, <1>10, <1>11, <1>12, <1>13, <1>14, <1>15, <1>16, <1>17 DEF Next

-----------------------------------------------------------------------------
(* Retention.                                                              *)

(* An open identity has no terminal result, so the call closes it.         *)
LEMMA FinishOpen ==
  ASSUME IInv, NEW c \in Calls, NEW phase \in CallPhase,
         call[c] \in {"racing", "grace", "supervised"}, finishAccepted(c, phase)
  PROVE  RetentionConsistent'
<1>1. key[c] \in Keys /\ active[key[c]] = c /\ terminal[key[c]] = NoCall
  BY StateAssumption DEF IInv, HeldInv, HoldersActive, TerminalClosed, TypeOK, Holds, Holding
<1>2. QED
  BY <1>1, FinishRetention DEF IInv, finishAccepted

LEMMA RetentionStep ==
  ASSUME IInv, [Next]_vars
  PROVE  RetentionConsistent'
<1> USE DEF IInv, RetentionConsistent, Entries, CallPhase
<1>1. ASSUME NEW c \in Calls, Invoke(c) PROVE RetentionConsistent'
  BY <1>1 DEF Invoke, stateVars
<1>2. ASSUME NEW c \in Calls, RejectPreflight(c) PROVE RetentionConsistent'
  BY <1>2 DEF RejectPreflight, stateVars
<1>3. ASSUME NEW c \in Calls, RejectAdmission(c) PROVE RetentionConsistent'
  BY <1>3 DEF RejectAdmission, stateVars
<1>4. ASSUME NEW c \in Calls, Admit(c) PROVE RetentionConsistent'
  BY <1>4 DEF Admit, begin
<1>5. ASSUME NEW c \in Calls, AdmitWithoutDeadline(c) PROVE RetentionConsistent'
  BY <1>5 DEF AdmitWithoutDeadline, begin
<1>6. ASSUME NEW c \in Calls, Trigger(c) PROVE RetentionConsistent'
  BY <1>6 DEF Trigger, stateVars
<1>7. ASSUME NEW c \in Calls, Settle(c) PROVE RetentionConsistent'
  BY <1>7 DEF Settle, stateVars
<1>8. ASSUME NEW c \in Calls, SealThrows(c) PROVE RetentionConsistent'
  BY <1>8 DEF SealThrows, stateVars
<1>9. ASSUME NEW c \in Calls, ReturnSettled(c) PROVE RetentionConsistent'
  BY <1>9, FinishOpen DEF ReturnSettled
<1>10. ASSUME NEW c \in Calls, ReturnWithinGrace(c) PROVE RetentionConsistent'
  BY <1>10, FinishOpen DEF ReturnWithinGrace
<1>11. ASSUME NEW c \in Calls, FinishLate(c) PROVE RetentionConsistent'
  BY <1>11, FinishOpen DEF FinishLate
<1>12. ASSUME NEW c \in Calls, RaceRejects(c) PROVE RetentionConsistent'
  BY <1>12 DEF RaceRejects, stateVars
<1>13. ASSUME NEW c \in Calls, NoticeTrigger(c) PROVE RetentionConsistent'
  BY <1>13 DEF NoticeTrigger, stateVars
<1>14. ASSUME NEW c \in Calls, GraceExpires(c) PROVE RetentionConsistent'
  BY <1>14 DEF GraceExpires, markUncertain
<1>15. ASSUME NEW k \in Keys, Cancel(k) PROVE RetentionConsistent'
  BY <1>15 DEF Cancel, stateVars
<1>16. CASE Restart
  BY <1>16, StateAssumption DEF Restart
<1>17. CASE UNCHANGED vars
  BY <1>17 DEF vars, stateVars
<1>18. QED
  BY <1>1, <1>2, <1>3, <1>4, <1>5, <1>6, <1>7, <1>8, <1>9, <1>10, <1>11, <1>12, <1>13, <1>14, <1>15, <1>16, <1>17 DEF Next

-----------------------------------------------------------------------------
(* Slots.                                                                  *)

LEMMA SlotsStep ==
  ASSUME IInv, [Next]_vars
  PROVE  SlotsBounded'
<1>1. /\ active \in [Keys -> Calls \union {NoCall}]
      /\ key \in [Calls -> Keys]
      /\ IsFiniteSet(Entries(active))
      /\ Cardinality(Entries(active)) \in Nat
      /\ Cardinality(Entries(active)) <= OpenLimit
      /\ OpenLimit \in Nat
  <2>1. Entries(active) \in SUBSET Keys /\ IsFiniteSet(Keys)
    BY StateAssumption DEF Entries
  <2>2. IsFiniteSet(Entries(active))
    BY <2>1, FS_Subset
  <2>3. Cardinality(Entries(active)) \in Nat
    BY <2>2, FS_CardinalityType
  <2>4. QED
    BY <2>2, <2>3, StateAssumption DEF IInv, TypeOK, StateTypeOK, Ledger, SlotsBounded
<1>2. ASSUME Entries(active') \subseteq Entries(active)
      PROVE  SlotsBounded'
  <2>1. /\ IsFiniteSet(Entries(active'))
        /\ Cardinality(Entries(active')) <= Cardinality(Entries(active))
    BY <1>1, <1>2, FS_Subset
  <2>2. Cardinality(Entries(active')) \in Nat
    BY <2>1, FS_CardinalityType
  <2>3. QED
    BY <1>1, <2>1, <2>2 DEF SlotsBounded
<1>3. ASSUME NEW k \in Keys, NEW c \in Calls, begin(k, c)
      PROVE  SlotsBounded'
  <2>1. Cardinality(Entries(active)) < OpenLimit
    BY <1>1, <1>3 DEF begin, AtCapacity
  <2>2. Entries(active') = Entries(active) \cup {k}
    BY <1>1, <1>3, StateAssumption DEF begin, Entries
  <2>3. Cardinality(Entries(active) \cup {k}) =
          IF k \in Entries(active) THEN Cardinality(Entries(active))
                                   ELSE Cardinality(Entries(active)) + 1
    BY <1>1, FS_AddElement
  <2>4. Cardinality(Entries(active')) \in
          {Cardinality(Entries(active)), Cardinality(Entries(active)) + 1}
    BY <2>2, <2>3
  <2>5. QED
    BY <1>1, <2>1, <2>4 DEF SlotsBounded
<1>4. CASE \E c \in Calls : begin(key[c], c)
  BY <1>1, <1>3, <1>4
<1>5. CASE \E k \in Keys, c \in Calls : finish(k, c)
  <2>1. Entries(active') \subseteq Entries(active)
    BY <1>1, <1>5 DEF finish, Entries
  <2>2. QED
    BY <1>2, <2>1
<1>6. CASE Restart
  <2>1. Entries(active') \subseteq Entries(active)
    BY <1>6 DEF Restart, Entries
  <2>2. QED
    BY <1>2, <2>1
<1>7. CASE UNCHANGED active
  <2>1. Entries(active') \subseteq Entries(active)
    BY <1>7
  <2>2. QED
    BY <1>2, <2>1
<1>8. \/ \E c \in Calls : begin(key[c], c)
      \/ \E k \in Keys, c \in Calls : finish(k, c)
      \/ Restart
      \/ UNCHANGED active
  BY <1>1 DEF Next, vars, stateVars, Invoke, RejectPreflight, RejectAdmission, Admit,
       AdmitWithoutDeadline, Trigger, Settle, SealThrows, ReturnSettled,
       ReturnWithinGrace, FinishLate, finishAccepted, RaceRejects, NoticeTrigger,
       GraceExpires, markUncertain, Cancel
<1>9. QED
  BY <1>4, <1>5, <1>6, <1>7, <1>8

-----------------------------------------------------------------------------
(* The inductive invariant, and the properties it implies.                 *)

LEMMA InitIInv == Init => IInv
<1> SUFFICES ASSUME Init PROVE IInv
  OBVIOUS
<1>1. TypeOK
  BY DEF Init, StateInit, TypeOK, StateTypeOK, Ledger, CallPhase
<1>2. HeldInv
  BY DEF Init, StateInit, HeldInv, ActiveHeld, HoldersActive, UncertainHeld,
     GraceTriggered, TerminalClosed, Holds, Holding
<1>3. RetentionConsistent
  BY StateAssumption DEF Init, StateInit, RetentionConsistent, Entries
<1>4. SlotsBounded
  <2>1. Entries(active) = {}
    BY DEF Init, StateInit, Entries
  <2>2. QED
    BY <2>1, FS_EmptySet, StateAssumption DEF SlotsBounded
<1>5. QED
  BY <1>1, <1>2, <1>3, <1>4 DEF IInv

LEMMA NextIInv == IInv /\ [Next]_vars => IInv'
  BY TypeStep, HeldStep, RetentionStep, SlotsStep DEF IInv

(* Every state an AttemptSupervisor reaches satisfies IInv.                *)
THEOREM Invariant == SafetySpec => []IInv
<1>1. QED
  BY InitIInv, NextIInv, PTL DEF SafetySpec

(* The state has its types: the maps of AttemptState hold calls, the order *)
(* holds identities (attempt-state.ts).                                    *)
THEOREM TypeCorrect == SafetySpec => []TypeOK
<1>1. IInv => TypeOK
  BY DEF IInv
<1>2. QED
  BY Invariant, <1>1, PTL

(* A duplicate is never dispatched beside a run that is open or whose      *)
(* outcome is uncertain, for any number of calls and identities.           *)
THEOREM NoDuplicateRun == SafetySpec => []OneRunPerIdentity
<1>1. IInv => OneRunPerIdentity
  BY DEF IInv, HeldInv, HoldersActive, OneRunPerIdentity
<1>2. QED
  BY Invariant, <1>1, PTL

(* The physical runs of the process, those nobody waits for any more       *)
(* included, never exceed retainedOpenAttempts: each holds a distinct      *)
(* identity of the bounded map.                                            *)
THEOREM RunsBounded == SafetySpec => []OpenRunsBounded
<1>1. IInv => OpenRunsBounded
  <2> SUFFICES ASSUME IInv PROVE OpenRunsBounded
    OBVIOUS
  <2> DEFINE H == {c \in Calls : Holds(c)}
             f == [c \in H |-> key[c]]
  <2>1. IsFiniteSet(Entries(active))
    BY FS_Subset, StateAssumption DEF Entries
  <2>2. \A c \in H : key[c] \in Entries(active) /\ active[key[c]] = c
    BY StateAssumption DEF IInv, TypeOK, HeldInv, HoldersActive, Entries
  <2>3. f \in [H -> Entries(active)]
    BY <2>2
  <2>4. IsInjective(f)
    BY <2>2 DEF IsInjective
  <2>5. f \in Injection(H, Entries(active))
    BY <2>3, <2>4 DEF Injection
  <2>6. IsFiniteSet(H) /\ Cardinality(H) <= Cardinality(Entries(active))
    BY <2>1, <2>5, FS_Injection
  <2>7. Cardinality(H) \in Nat /\ Cardinality(Entries(active)) \in Nat
    BY <2>1, <2>6, FS_CardinalityType
  <2>8. QED
    BY <2>6, <2>7, StateAssumption DEF IInv, SlotsBounded, OpenRunsBounded
<1>2. QED
  BY Invariant, <1>1, PTL

(* The first-in-first-out order and the map of terminal results describe   *)
(* the same identities, within retainedTerminalAttempts, after any number  *)
(* of evictions.                                                           *)
THEOREM RetentionBounded == SafetySpec => []RetentionConsistent
<1>1. IInv => RetentionConsistent
  BY DEF IInv
<1>2. QED
  BY Invariant, <1>1, PTL

(* reconcileAttempt and cancelAttempt answer with the result of a run of   *)
(* the identity asked for: a settled one when they say terminal, the one   *)
(* still supervised when they say uncertain.                               *)
THEOREM AnswersAreProven == SafetySpec => []AnswersProven
<1>1. IInv => AnswersProven
  BY DEF IInv, HeldInv, TerminalClosed, UncertainHeld, AnswersProven
<1>2. QED
  BY Invariant, <1>1, PTL

-----------------------------------------------------------------------------
(* Refinement of AttemptLedger: every step is a step of the ledger or      *)
(* leaves what the host can read unchanged.                                *)

Known == [k \in Keys |-> reconcile(k)]

LEMMA FinishPromise ==
  ASSUME IInv, NEW c \in Calls, NEW phase \in CallPhase,
         call[c] \in {"racing", "grace", "supervised"}, finishAccepted(c, phase)
  PROVE  Ledger_!Next
<1> DEFINE k == key[c]
<1>1. k \in Keys /\ active[k] = c /\ terminal[k] = NoCall /\ c # NoCall /\ finish(k, c)
  BY StateAssumption DEF IInv, HeldInv, HoldersActive, TerminalClosed, TypeOK, Holds,
     Holding, finishAccepted
<1>2. /\ uncertain \in [Keys -> Calls \union {NoCall}]
      /\ terminal \in [Keys -> Calls \union {NoCall}]
      /\ uncertain' = [uncertain EXCEPT ![k] = NoCall]
  BY <1>1 DEF IInv, TypeOK, StateTypeOK, Ledger, finish
<1>3. Known[k] \in {Ledger_!Unknown, Ledger_!Uncertain(c)}
  BY <1>1 DEF Known, reconcile, IInv, HeldInv, UncertainHeld, Ledger_!Unknown,
     Ledger_!Uncertain
<1>4. CASE /\ Len(terminalOrder) < TerminalLimit
           /\ terminalOrder' = Append(terminalOrder, k)
           /\ terminal' = [terminal EXCEPT ![k] = c]
  <2>1. Known' = [Known EXCEPT ![k] = Ledger_!Terminal(c)]
    BY <1>1, <1>2, <1>4 DEF Known, reconcile, Ledger_!Terminal
  <2>2. Ledger_!BecomeTerminal(k, c)
    BY <1>3, <1>4, <2>1 DEF Known, Ledger_!BecomeTerminal
  <2>3. QED
    BY <1>1, <2>2 DEF Ledger_!Next
<1>5. CASE /\ Len(terminalOrder) = TerminalLimit
           /\ terminalOrder # << >>
           /\ Head(terminalOrder) \in Keys
           /\ Head(terminalOrder) # k
           /\ terminal[Head(terminalOrder)] # NoCall
           /\ terminalOrder' = Append(Tail(terminalOrder), k)
           /\ terminal' = [terminal EXCEPT ![k] = c, ![Head(terminalOrder)] = NoCall]
  <2> DEFINE h == Head(terminalOrder)
  <2> HIDE DEF h
  <2>1. h \in Keys /\ h # k /\ uncertain[h] = NoCall
    BY <1>5, StateAssumption
       DEF h, IInv, HeldInv, TerminalClosed, UncertainHeld, TypeOK, StateTypeOK, Ledger
  <2>2. terminal' = [terminal EXCEPT ![k] = c, ![h] = NoCall]
    BY <1>5 DEF h
  <2>3. Known' = [Known EXCEPT ![k] = Ledger_!Terminal(c), ![h] = Ledger_!Unknown]
    BY <1>1, <1>2, <2>1, <2>2 DEF Known, reconcile, Ledger_!Terminal, Ledger_!Unknown
  <2>4. Ledger_!BecomeTerminalEvicting(k, c)
    BY <1>3, <1>5, <2>3 DEF h, Known, Ledger_!BecomeTerminalEvicting
  <2>5. QED
    BY <1>1, <2>4 DEF Ledger_!Next
<1>6. QED
  BY <1>1, <1>4, <1>5, FinishCases DEF IInv

LEMMA UncertainPromise ==
  ASSUME IInv, NEW c \in Calls, GraceExpires(c)
  PROVE  Ledger_!Next
<1> DEFINE k == key[c]
<1>1. /\ k \in Keys
      /\ active[k] = c
      /\ c # NoCall
      /\ terminal[k] = NoCall
      /\ uncertain[k] = NoCall
  BY StateAssumption DEF IInv, HeldInv, HoldersActive, TerminalClosed, UncertainHeld,
     TypeOK, Holds, Holding, GraceExpires
<1>2. /\ uncertain \in [Keys -> Calls \union {NoCall}]
      /\ uncertain' = [uncertain EXCEPT ![k] = c]
      /\ UNCHANGED <<terminal, terminalOrder>>
  BY DEF IInv, TypeOK, StateTypeOK, Ledger, GraceExpires, markUncertain
<1>3. Known[k] = Ledger_!Unknown
  BY <1>1 DEF Known, reconcile, Ledger_!Unknown
<1>4. Known' = [Known EXCEPT ![k] = Ledger_!Uncertain(c)]
  BY <1>1, <1>2 DEF Known, reconcile, Ledger_!Uncertain
<1>5. Ledger_!BecomeUncertain(k, c)
  BY <1>2, <1>3, <1>4 DEF Known, Ledger_!BecomeUncertain
<1>6. QED
  BY <1>1, <1>5 DEF Ledger_!Next

LEMMA RestartPromise ==
  ASSUME Restart
  PROVE  Ledger_!Next
<1>1. Known' = [k \in Keys |-> Ledger_!Unknown]
  BY DEF Restart, Known, reconcile, Ledger_!Unknown
<1>2. Ledger_!Forget
  BY <1>1 DEF Restart, Known, Ledger_!Forget
<1>3. QED
  BY <1>2 DEF Ledger_!Next

LEMMA LedgerStep ==
  ASSUME IInv, [Next]_vars
  PROVE  Ledger_!Next \/ (UNCHANGED Known /\ UNCHANGED terminalOrder)
<1>1. ASSUME NEW c \in Calls, Invoke(c) PROVE Ledger_!Next \/ (UNCHANGED Known /\ UNCHANGED terminalOrder)
  BY <1>1 DEF Known, reconcile, Invoke, stateVars
<1>2. ASSUME NEW c \in Calls, RejectPreflight(c) PROVE Ledger_!Next \/ (UNCHANGED Known /\ UNCHANGED terminalOrder)
  BY <1>2 DEF Known, reconcile, RejectPreflight, stateVars
<1>3. ASSUME NEW c \in Calls, RejectAdmission(c) PROVE Ledger_!Next \/ (UNCHANGED Known /\ UNCHANGED terminalOrder)
  BY <1>3 DEF Known, reconcile, RejectAdmission, stateVars
<1>4. ASSUME NEW c \in Calls, Admit(c) PROVE Ledger_!Next \/ (UNCHANGED Known /\ UNCHANGED terminalOrder)
  BY <1>4 DEF Known, reconcile, Admit, begin
<1>5. ASSUME NEW c \in Calls, AdmitWithoutDeadline(c) PROVE Ledger_!Next \/ (UNCHANGED Known /\ UNCHANGED terminalOrder)
  BY <1>5 DEF Known, reconcile, AdmitWithoutDeadline, begin
<1>6. ASSUME NEW c \in Calls, Trigger(c) PROVE Ledger_!Next \/ (UNCHANGED Known /\ UNCHANGED terminalOrder)
  BY <1>6 DEF Known, reconcile, Trigger, stateVars
<1>7. ASSUME NEW c \in Calls, Settle(c) PROVE Ledger_!Next \/ (UNCHANGED Known /\ UNCHANGED terminalOrder)
  BY <1>7 DEF Known, reconcile, Settle, stateVars
<1>8. ASSUME NEW c \in Calls, SealThrows(c) PROVE Ledger_!Next \/ (UNCHANGED Known /\ UNCHANGED terminalOrder)
  BY <1>8 DEF Known, reconcile, SealThrows, stateVars
<1>9. ASSUME NEW c \in Calls, ReturnSettled(c) PROVE Ledger_!Next \/ (UNCHANGED Known /\ UNCHANGED terminalOrder)
  BY <1>9, FinishPromise DEF ReturnSettled, CallPhase
<1>10. ASSUME NEW c \in Calls, ReturnWithinGrace(c) PROVE Ledger_!Next \/ (UNCHANGED Known /\ UNCHANGED terminalOrder)
  BY <1>10, FinishPromise DEF ReturnWithinGrace, CallPhase
<1>11. ASSUME NEW c \in Calls, FinishLate(c) PROVE Ledger_!Next \/ (UNCHANGED Known /\ UNCHANGED terminalOrder)
  BY <1>11, FinishPromise DEF FinishLate, CallPhase
<1>12. ASSUME NEW c \in Calls, RaceRejects(c) PROVE Ledger_!Next \/ (UNCHANGED Known /\ UNCHANGED terminalOrder)
  BY <1>12 DEF Known, reconcile, RaceRejects, stateVars
<1>13. ASSUME NEW c \in Calls, NoticeTrigger(c) PROVE Ledger_!Next \/ (UNCHANGED Known /\ UNCHANGED terminalOrder)
  BY <1>13 DEF Known, reconcile, NoticeTrigger, stateVars
<1>14. ASSUME NEW c \in Calls, GraceExpires(c) PROVE Ledger_!Next \/ (UNCHANGED Known /\ UNCHANGED terminalOrder)
  BY <1>14, UncertainPromise
<1>15. ASSUME NEW k \in Keys, Cancel(k) PROVE Ledger_!Next \/ (UNCHANGED Known /\ UNCHANGED terminalOrder)
  BY <1>15 DEF Known, reconcile, Cancel, stateVars
<1>16. CASE Restart
  BY <1>16, RestartPromise
<1>17. CASE UNCHANGED vars
  BY <1>17 DEF Known, reconcile, vars, stateVars
<1>18. QED
  BY <1>1, <1>2, <1>3, <1>4, <1>5, <1>6, <1>7, <1>8, <1>9, <1>10, <1>11, <1>12, <1>13, <1>14, <1>15, <1>16, <1>17 DEF Next

(* Whatever the interleaving of calls, triggers, cancellations, evictions  *)
(* and restarts, the host reads a ledger in which an identity only ever    *)
(* goes from unknown to uncertain to the terminal result of the same call. *)
THEOREM LedgerRefinement == SafetySpec => LedgerPromise
<1>1. Init => Ledger_!Init
  BY DEF Init, StateInit, reconcile, Ledger_!Init, Ledger_!Unknown
<1>2. IInv /\ [Next]_vars => [Ledger_!Next]_(Ledger_!vars)
  BY LedgerStep DEF Known, Ledger_!vars
<1>3. QED
  BY Invariant, <1>1, <1>2, PTL DEF SafetySpec, LedgerPromise, Ledger_!Spec
=============================================================================
