--------------------------- MODULE ResolverProofs ----------------------------
(***************************************************************************)
(* Proofs about Resolver, for any SIDs, accounts and search bases.         *)
(***************************************************************************)
EXTENDS Resolver, TLAPS

-----------------------------------------------------------------------------
(* Type correctness.                                                       *)

LEMMA MemoryType ==
  ASSUME TypeOK, NEW sid \in SIDs, Remembered(sid)
  PROVE  FromMemory(sid) \in Names
  BY DEF TypeOK, Remembered, FromMemory, Names, Qualified

LEMMA FinishType ==
  ASSUME TypeOK, NEW sid \in SIDs, NEW name \in Qualified \cup {Unresolvable},
         Finish(sid, name)
  PROVE  /\ cache' \in [SIDs -> Qualified \cup {Unresolvable, NotCached}]
         /\ asking' = Nobody
         /\ said' \in SUBSET (SIDs \X Names)
  BY DEF TypeOK, Finish, Answer, Names

LEMMA TypeInit == Init => TypeOK
<1> SUFFICES ASSUME Init PROVE TypeOK
  OBVIOUS
<1>1. index \in [SIDs -> Accounts \cup {NoAccount}]
  BY DEF Init, Identities
<1>2. named \in [SIDs -> SUBSET (Accounts \cup {NoAccount})]
  BY DEF Init
<1>3. lookups \in [SIDs -> Nat] /\ base \in 1 .. Bases + 1
  BY ScopeAssumption DEF Init
<1>4. cache \in [SIDs -> Qualified \cup {Unresolvable, NotCached}]
  BY DEF Init
<1>5. QED
  BY <1>1, <1>2, <1>3, <1>4 DEF Init, TypeOK

LEMMA TypeStep == TypeOK /\ [Next]_vars => TypeOK'
<1> SUFFICES ASSUME TypeOK, [Next]_vars PROVE TypeOK'
  OBVIOUS
<1> USE DEF TypeOK
<1>1. CASE UNCHANGED vars
  BY <1>1 DEF vars, resolverVars
<1>2. ASSUME NEW sid \in SIDs, NameFromMemory(sid)
      PROVE  TypeOK'
  BY <1>2, MemoryType DEF NameFromMemory, Answer
<1>3. ASSUME NEW sid \in SIDs, NameWithoutQuery(sid)
      PROVE  TypeOK'
  BY <1>3, FinishType DEF NameWithoutQuery
<1>4. ASSUME NEW sid \in SIDs, StartLookup(sid)
      PROVE  TypeOK'
  BY <1>4, ScopeAssumption DEF StartLookup
<1>5. ASSUME NEW sid \in SIDs, NEW account \in Holders[sid] \cup {NoAccount},
             ChangeAccount(sid, account)
      PROVE  TypeOK'
  <2>1. account \in Accounts \cup {NoAccount}
    BY ScopeAssumption
  <2>2. /\ accounts' \in [SIDs -> Accounts \cup {NoAccount}]
        /\ named' \in [SIDs -> SUBSET (Accounts \cup {NoAccount})]
    BY <1>5, <2>1 DEF ChangeAccount
  <2>3. QED
    BY <1>5, <2>2 DEF ChangeAccount, resolverVars
<1>6. CASE QueryFinds
  <2>1. asking \in SIDs /\ Qualify(accounts[asking]) \in Qualified
    BY <1>6 DEF QueryFinds, Found, Qualified
  <2>2. QED
    BY <1>6, <2>1, FinishType DEF QueryFinds
<1>7. CASE QueryFindsNothing \/ QueryFails
  BY <1>7, ScopeAssumption DEF QueryFindsNothing, QueryFails
<1>8. CASE LookupExhausted
  BY <1>8, FinishType DEF LookupExhausted
<1>9. CASE UseIndex
  BY <1>9 DEF UseIndex, Identities
<1>10. CASE DropSession
  BY <1>10 DEF DropSession, resolverVars
<1>11. QED
  BY <1>1, <1>2, <1>3, <1>4, <1>5, <1>6, <1>7, <1>8, <1>9, <1>10 DEF Next, Lookup

(* Type correctness of the resolver.                                       *)
THEOREM TypeCorrect == Spec => []TypeOK
  BY TypeInit, TypeStep, PTL DEF Spec

-----------------------------------------------------------------------------
(* The inductive invariant: the index is a reading, the answers of a cycle *)
(* are what the memories would answer again, and a SID has been looked up  *)
(* exactly if it is cached or being looked up.                             *)

IndexInv == index = [sid \in SIDs |-> IF sid \in InScope THEN read[sid] ELSE NoAccount]

SaidInv ==
  \A answer \in said : Remembered(answer[1]) /\ answer[2] = FromMemory(answer[1])

LookupInv ==
  /\ asking # Nobody => ~Remembered(asking)
  /\ \A sid \in SIDs :
       lookups[sid] = IF sid = asking \/ cache[sid] # NotCached THEN 1 ELSE 0

IInv == TypeOK /\ IndexInv /\ SaidInv /\ LookupInv

LEMMA IInvInit == Init => IInv
<1> SUFFICES ASSUME Init PROVE IInv
  OBVIOUS
<1>1. TypeOK
  BY TypeInit
<1>2. IndexInv /\ SaidInv
  BY DEF Init, IndexInv, SaidInv, Identities
<1>3. LookupInv
  BY MarksAssumption DEF Init, LookupInv
<1>4. QED
  BY <1>1, <1>2, <1>3 DEF IInv

(* Ending a lookup fills one empty cache entry and answers with it.        *)
LEMMA FinishStep ==
  ASSUME TypeOK, SaidInv, NEW sid \in SIDs, NEW name \in Qualified \cup {Unresolvable},
         ~Remembered(sid), Finish(sid, name), index' = index
  PROVE  SaidInv'
<1> USE DEF TypeOK
<1>1. name # NotCached
  BY NamesAssumption, MarksAssumption DEF Qualified
<1>2. Remembered(sid)' /\ FromMemory(sid)' = name
  BY <1>1 DEF Finish, Remembered, FromMemory
<1>3. ASSUME NEW answer \in said
      PROVE  Remembered(answer[1])' /\ FromMemory(answer[1])' = FromMemory(answer[1])
  <2>1. answer[1] \in SIDs /\ Remembered(answer[1]) /\ answer[1] # sid
    BY DEF SaidInv
  <2>2. QED
    BY <2>1 DEF Finish, Remembered, FromMemory
<1>4. QED
  BY <1>2, <1>3 DEF SaidInv, Finish, Answer

LEMMA SaidStep == TypeOK /\ SaidInv /\ LookupInv /\ [Next]_vars => SaidInv'
<1> SUFFICES ASSUME TypeOK, SaidInv, LookupInv, [Next]_vars PROVE SaidInv'
  OBVIOUS
<1>1. CASE UNCHANGED <<index, cache, said>>
  BY <1>1 DEF SaidInv, Remembered, FromMemory
<1>2. ASSUME NEW sid \in SIDs, NameFromMemory(sid)
      PROVE  SaidInv'
  BY <1>2 DEF NameFromMemory, Answer, SaidInv, Remembered, FromMemory
<1>3. ASSUME NEW sid \in SIDs, NameWithoutQuery(sid)
      PROVE  SaidInv'
  BY <1>3, FinishStep DEF NameWithoutQuery
<1>4. CASE QueryFinds
  <2>1. asking \in SIDs /\ Qualify(accounts[asking]) \in Qualified
    BY <1>4 DEF TypeOK, QueryFinds, Found, Qualified
  <2>2. QED
    BY <1>4, <2>1, FinishStep DEF QueryFinds, LookupInv
<1>5. CASE LookupExhausted
  BY <1>5, FinishStep DEF LookupExhausted, LookupInv, TypeOK
<1>6. CASE UseIndex
  BY <1>6 DEF UseIndex, SaidInv
<1>7. QED
  BY <1>1, <1>2, <1>3, <1>4, <1>5, <1>6
     DEF Next, Lookup, StartLookup, ChangeAccount, QueryFindsNothing, QueryFails,
         DropSession, vars, resolverVars

LEMMA LookupStep == TypeOK /\ LookupInv /\ [Next]_vars => LookupInv'
<1> SUFFICES ASSUME TypeOK, LookupInv, [Next]_vars PROVE LookupInv'
  OBVIOUS
<1> USE DEF TypeOK, LookupInv
<1>1. CASE UNCHANGED <<index, cache, asking, lookups>>
  BY <1>1 DEF Remembered
<1>2. ASSUME NEW sid \in SIDs, NameWithoutQuery(sid)
      PROVE  LookupInv'
  BY <1>2, MarksAssumption DEF NameWithoutQuery, Remembered, Finish
<1>3. ASSUME NEW sid \in SIDs, StartLookup(sid)
      PROVE  LookupInv'
  BY <1>3, MarksAssumption DEF StartLookup, Remembered
<1>4. CASE QueryFinds
  <2>1. Qualify(accounts[asking]) # NotCached
    BY <1>4, NamesAssumption DEF QueryFinds, Found
  <2>2. QED
    BY <1>4, <2>1, MarksAssumption DEF QueryFinds, Finish
<1>5. CASE LookupExhausted
  BY <1>5, MarksAssumption DEF LookupExhausted, Finish
<1>6. CASE UseIndex
  BY <1>6 DEF UseIndex
<1>7. QED
  BY <1>1, <1>2, <1>3, <1>4, <1>5, <1>6
     DEF Next, Lookup, NameFromMemory, ChangeAccount, QueryFindsNothing, QueryFails,
         DropSession, vars, resolverVars

LEMMA IndexStep == IndexInv /\ [Next]_vars => IndexInv'
<1> SUFFICES ASSUME IndexInv, [Next]_vars PROVE IndexInv'
  OBVIOUS
<1>1. CASE UNCHANGED <<index, read>>
  BY <1>1 DEF IndexInv
<1>2. CASE UseIndex
  BY <1>2 DEF UseIndex, IndexInv, Identities
<1>3. QED
  BY <1>1, <1>2
     DEF Next, Lookup, NameFromMemory, NameWithoutQuery, StartLookup, ChangeAccount,
         QueryFinds, QueryFindsNothing, QueryFails, LookupExhausted, DropSession,
         vars, resolverVars

(* The strengthening holds of every reachable state of the resolver.       *)
THEOREM Inductive == Spec => []IInv
<1>1. IInv /\ [Next]_vars => IInv'
  BY TypeStep, SaidStep, LookupStep, IndexStep DEF IInv
<1>2. QED
  BY IInvInit, <1>1, PTL DEF Spec

(* No SID costs a second lookup.                                           *)
THEOREM LookedUpOnce == Spec => []OneLookupPerSID
<1>1. IInv => OneLookupPerSID
  BY DEF IInv, LookupInv, OneLookupPerSID
<1>2. QED
  BY <1>1, Inductive, PTL

(* Accounts in scope are called what the latest reading called them.       *)
THEOREM LatestReadingWins == Spec => []AnswersFollowTheLastReading
<1>1. IInv => AnswersFollowTheLastReading
  BY DEF IInv, TypeOK, IndexInv, SaidInv, FromMemory, AnswersFollowTheLastReading
<1>2. QED
  BY <1>1, Inductive, PTL

(* One cycle never calls one trustee two things.                           *)
THEOREM AnswersAgree == Spec => []OneAnswerPerCycle
<1>1. IInv => OneAnswerPerCycle
  BY DEF IInv, TypeOK, SaidInv, OneAnswerPerCycle
<1>2. QED
  BY <1>1, Inductive, PTL
=============================================================================
