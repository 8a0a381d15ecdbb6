------------------------- MODULE JobContractProofs -------------------------
(***************************************************************************)
(* What JobContract amounts to, for any number of jobs: the end a client   *)
(* was told is the one on record, and it is never told another.            *)
(***************************************************************************)
EXTENDS JobContract, TLAPS

TypeOK ==
    /\ record \in [Jobs -> Entries] /\ told \in [Jobs -> Tellings]
    /\ lost \subseteq Jobs

\* What a client has read of the end of a job is in the job's file, where a
\* restart finds it (engine.go: finish).
ToldIsOnRecord == \A j \in Jobs \ lost : told[j] # "none" => record[j] = told[j]

\* A client that has read an end reads no other later.
ToldForGood == [][\A j \in Jobs \ lost' : told[j] # "none" => told'[j] = told[j]]_vars

LEMMA StepIsTyped == TypeOK /\ [Next]_vars => TypeOK'
<1> SUFFICES ASSUME TypeOK, [Next]_vars PROVE TypeOK'
    OBVIOUS
<1>1. ASSUME NEW j \in Jobs, Accept(j) \/ Refuse(j) \/ Linger(j) \/ Reopen(j) \/ Settle(j) \/ Tell(j)
      PROVE  TypeOK'
    BY <1>1 DEF TypeOK, Accept, Refuse, Linger, Reopen, Settle, Tell, Becomes, Promised, Entries, Tellings
<1>2. ASSUME NEW J \in SUBSET Jobs, Lose(J) PROVE TypeOK'
    BY <1>2 DEF TypeOK, Lose
<1>3. CASE UNCHANGED vars
    BY <1>3 DEF TypeOK, vars
<1> QED BY <1>1, <1>2, <1>3 DEF Next

\* A step that loses no record leaves what was told on record, and as it was.
LEMMA StepKeepsWord ==
    TypeOK /\ ToldIsOnRecord /\ [Next]_vars =>
        /\ ToldIsOnRecord'
        /\ \A j \in Jobs \ lost' : told[j] # "none" => told'[j] = told[j]
<1> SUFFICES ASSUME TypeOK, ToldIsOnRecord, [Next]_vars, NEW j \in Jobs \ lost'
             PROVE  /\ told'[j] # "none" => record'[j] = told'[j]
                    /\ told[j] # "none" => told'[j] = told[j]
    BY DEF ToldIsOnRecord
<1>1. CASE UNCHANGED vars
    BY <1>1 DEF vars, ToldIsOnRecord
<1>2. ASSUME NEW k \in Jobs, Accept(k) \/ Refuse(k) \/ Linger(k) \/ Reopen(k) \/ Settle(k) \/ Tell(k)
      PROVE  /\ told'[j] # "none" => record'[j] = told'[j]
             /\ told[j] # "none" => told'[j] = told[j]
    <2>1. CASE j # k
        BY <1>2, <2>1 DEF Accept, Refuse, Linger, Reopen, Settle, Tell, Becomes, TypeOK, ToldIsOnRecord
    <2>2. CASE j = k /\ (Accept(k) \/ Refuse(k) \/ Linger(k) \/ Reopen(k))
        BY <2>2 DEF Accept, Refuse, Linger, Reopen, Becomes, TypeOK, ToldIsOnRecord, Tellings, Promised
    <2>3. CASE j = k /\ Settle(k)
        BY <2>3 DEF Settle, Becomes, TypeOK, ToldIsOnRecord, Tellings, Promised
    <2>4. CASE j = k /\ Tell(k)
        BY <2>4 DEF Tell, Becomes, TypeOK, ToldIsOnRecord, Tellings, Promised
    <2> QED BY <1>2, <2>1, <2>2, <2>3, <2>4
<1>3. ASSUME NEW J \in SUBSET Jobs, Lose(J)
      PROVE  /\ told'[j] # "none" => record'[j] = told'[j]
             /\ told[j] # "none" => told'[j] = told[j]
    <2>1. j \in Jobs \ J /\ j \notin lost
        BY <1>3 DEF Lose
    <2> QED BY <1>3, <2>1 DEF Lose, ToldIsOnRecord
<1> QED BY <1>1, <1>2, <1>3 DEF Next

\* An engine that keeps the contract has on record whatever it told a client.
THEOREM WhatIsToldIsOnRecord == Spec => []ToldIsOnRecord
<1>1. Init => TypeOK /\ ToldIsOnRecord
    BY DEF Init, TypeOK, ToldIsOnRecord, Entries, Tellings
<1>2. TypeOK /\ ToldIsOnRecord /\ [Next]_vars => (TypeOK /\ ToldIsOnRecord)'
    BY StepIsTyped, StepKeepsWord
<1> QED BY <1>1, <1>2, PTL DEF Spec

\* No retry, late save or restart takes back an end a client was told.
THEOREM WhatIsToldIsFinal == Spec => ToldForGood
<1>1. Init => TypeOK /\ ToldIsOnRecord
    BY DEF Init, TypeOK, ToldIsOnRecord, Entries, Tellings
<1>2. TypeOK /\ ToldIsOnRecord /\ [Next]_vars => (TypeOK /\ ToldIsOnRecord)'
    BY StepIsTyped, StepKeepsWord
<1>3. TypeOK /\ ToldIsOnRecord /\ [Next]_vars =>
          [\A j \in Jobs \ lost' : told[j] # "none" => told'[j] = told[j]]_vars
    BY StepKeepsWord
<1> QED BY <1>1, <1>2, <1>3, PTL DEF Spec, ToldForGood
=============================================================================
