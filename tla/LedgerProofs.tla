---------------------------- MODULE LedgerProofs ----------------------------
(***************************************************************************)
(* What every client of the ledger may rely on, for every set of targets   *)
(* and every number of retries.                                            *)
(***************************************************************************)
EXTENDS Ledger, TLAPS

\* the inductive invariant
Inv == TypeOK /\ SavedIsWritten /\ Unregistered /\ AttemptsBounded

\* It holds at the start.
LEMMA InitInv ==
    ASSUME Retries \in Nat
    PROVE  Init => Inv
BY DEF Init, Inv, TypeOK, Written, SavedIsWritten, Unregistered, AttemptsBounded

\* Every step keeps it.
LEMMA StepInv ==
    ASSUME Retries \in Nat
    PROVE  Inv /\ [Next]_vars => Inv'
<1> SUFFICES ASSUME Inv, [Next]_vars PROVE Inv'
  OBVIOUS
<1> USE DEF Inv, TypeOK, SavedIsWritten, Written, MaySave
<1>1. ASSUME NEW S \in SUBSET Target, Register(S)
      PROVE  Inv'
  BY <1>1 DEF Register, Unregistered, AttemptsBounded
<1>2. ASSUME NEW S \in SUBSET Target, Retire(S)
      PROVE  Inv'
  BY <1>2 DEF Retire, Unregistered, AttemptsBounded
<1>3. ASSUME NEW t \in Target, Open(t)
      PROVE  Inv'
  BY <1>3 DEF Open, Unregistered, AttemptsBounded
<1>4. ASSUME NEW S \in SUBSET Target, NEW W \in SUBSET S, Close(S, W)
      PROVE  Inv'
  <2>1. TypeOK' /\ SavedIsWritten'
    <3>1. /\ successes' \in [Target -> Nat] /\ failures' \in [Target -> Nat]
          /\ \A t \in Target : successes[t] <= successes'[t] /\ failures[t] <= failures'[t]
      BY <1>4 DEF Close
    <3>2. row' = row /\ open' \in SUBSET Target
      BY <1>4 DEF Close
    <3>3. CASE saved' = saved
      BY <3>1, <3>2, <3>3
    <3>4. CASE saved' = Written'
      BY <1>4, <3>1, <3>2, <3>4 DEF Close, Unregistered
    <3> QED
      BY <1>4, <3>3, <3>4 DEF Close
  <2>2. Unregistered'
    BY <1>4 DEF Close, Unregistered
  <2>3. AttemptsBounded'
    <3> SUFFICES ASSUME NEW t \in Target
                 PROVE  /\ successes'[t] <= 1
                        /\ successes'[t] + failures'[t] + (IF t \in open' THEN 1 ELSE 0)
                              <= Retries
                        /\ t \in open' => successes'[t] = 0
      BY DEF AttemptsBounded
    <3>1. CASE t \in S
      <4>1. /\ t \in open /\ t \notin open'
            /\ successes'[t] = successes[t] + (IF t \in W THEN 1 ELSE 0)
            /\ failures'[t] = failures[t] + (IF t \in W THEN 0 ELSE 1)
        BY <1>4, <3>1 DEF Close
      <4> QED
        BY <4>1 DEF AttemptsBounded
    <3>2. CASE t \notin S
      BY <1>4, <3>2 DEF Close, AttemptsBounded
    <3> QED
      BY <3>1, <3>2
  <2> QED
    BY <2>1, <2>2, <2>3
<1>5. CASE Forget
  BY <1>5 DEF Forget, Unregistered, AttemptsBounded
<1>6. CASE Save
  BY <1>6 DEF Save, Unregistered, AttemptsBounded
<1>7. CASE UNCHANGED vars
  BY <1>7 DEF vars, Unregistered, AttemptsBounded
<1> QED
  BY <1>1, <1>2, <1>3, <1>4, <1>5, <1>6, <1>7 DEF Next

\* At most one success and at most Retries attempts for a target.
THEOREM AttemptsAreBounded ==
    ASSUME Retries \in Nat
    PROVE  Spec => []AttemptsBounded
<1>1. Inv => AttemptsBounded
  BY DEF Inv
<1>2. (Init => Inv) /\ (Inv /\ [Next]_vars => Inv')
  BY InitInv, StepInv
<1> QED
  BY <1>1, <1>2, PTL DEF Spec

\* A target that is retired or has succeeded is never tried again, unless a restart
\* drops the tables or comes before that was saved.
THEOREM SettledForGood ==
    ASSUME Retries \in Nat
    PROVE  Spec => SettledIsFinal
<1>1. ASSUME Inv, [Next]_vars, NEW t \in Target, row[t] = "disabled" \/ successes[t] > 0
      PROVE  SettledStays(t)
  <2> USE <1>1 DEF Inv, TypeOK, SettledStays
  <2>1. ASSUME NEW S \in SUBSET Target, Register(S) \/ Retire(S)
        PROVE  SettledStays(t)
    BY <2>1 DEF Register, Retire, Unregistered
  <2>2. ASSUME NEW u \in Target, Open(u)
        PROVE  SettledStays(t)
    BY <2>2 DEF Open
  <2>3. ASSUME NEW S \in SUBSET Target, NEW W \in SUBSET S, Close(S, W)
        PROVE  SettledStays(t)
    BY <2>3 DEF Close
  <2>4. CASE Forget
    BY <2>4 DEF Forget
  <2>5. CASE Save
    BY <2>5 DEF Save
  <2>6. CASE UNCHANGED vars
    BY <2>6 DEF vars
  <2> QED
    BY <2>1, <2>2, <2>3, <2>4, <2>5, <2>6 DEF Next
<1>2. Inv /\ [Next]_vars =>
        [\A t \in Target : row[t] = "disabled" \/ successes[t] > 0 => SettledStays(t)]_vars
  BY <1>1
<1>3. (Init => Inv) /\ (Inv /\ [Next]_vars => Inv')
  BY InitInv, StepInv
<1> QED
  BY <1>2, <1>3, PTL DEF Spec, SettledIsFinal
=============================================================================
