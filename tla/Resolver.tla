------------------------------ MODULE Resolver -------------------------------
(***************************************************************************)
(* Naming trustees: acls/resolve.go over the identity index that           *)
(* acls/snapshot.go builds while it reads.                                 *)
(*                                                                         *)
(* The main goroutine asks for one SID at a time, while it filters and     *)
(* renders the changes of a cycle; a question no memory answers becomes    *)
(* one query per search base, between which accounts and the connection    *)
(* may change.  In diff mode there is no session and no second reading.    *)
(***************************************************************************)
EXTENDS Naturals, FiniteSets

CONSTANTS
  SIDs,          \* the SIDs that ACEs, owners and groups name
  WellKnown,     \* those that name themselves in every domain
  Unparseable,   \* those no objectSid filter can be built for
  InScope,       \* those whose account, if any, a reading enumerates
  Accounts,      \* the sAMAccountNames in use
  Holders,       \* [SIDs -> SUBSET Accounts]: what the holder of a SID may be
                 \* called: a bound on the directories considered
  Home,          \* [SIDs -> 1 .. Bases]: the search base an account lives in
  Bases,         \* the number of search bases
  NoAccount,     \* the empty sAMAccountName
  Unresolvable,  \* what the cache holds for a miss
  NotCached,     \* no entry in the cache
  Nobody         \* no question is being looked up

ASSUME ScopeAssumption ==
  /\ WellKnown \subseteq SIDs /\ Unparseable \subseteq SIDs /\ InScope \subseteq SIDs
  /\ InScope \cap Unparseable = {}
  /\ Bases \in Nat
  /\ Home \in [SIDs -> 1 .. Bases]
  /\ Holders \in [SIDs -> SUBSET Accounts]

ASSUME MarksAssumption ==
  /\ NoAccount \notin Accounts
  /\ Nobody \notin SIDs
  /\ NotCached # Unresolvable

(* A name as it is shown: qualified with the domain when it came out of    *)
(* the directory, complete in itself when it is well known.                *)
Qualify(account) == <<"domain", account>>
BuiltIn(sid) == <<"well-known", sid>>
Qualified == {Qualify(account) : account \in Accounts}

ASSUME NamesAssumption ==
  \A account \in Accounts : Qualify(account) \notin {Unresolvable, NotCached}

Names == Qualified \cup {BuiltIn(sid) : sid \in WellKnown} \cup {Unresolvable}

VARIABLES
  accounts,  \* what the directory calls the holder of each SID
  session,   \* "up", "down", or "nil" when there is none
  index,     \* the identities of the latest reading
  cache,     \* what the lookups so far found
  asking,    \* the SID being looked up
  base,      \* the next search base to query for it
  said,      \* the SIDs answered since the latest reading, and the answers
  \* history variables, which no action reads
  lookups,   \* how many times each SID was looked up
  named,     \* the accounts each SID has had
  read       \* the accounts at the latest reading

resolverVars == <<index, cache, asking, base, said>>
vars == <<accounts, session, resolverVars, lookups, named, read>>

-----------------------------------------------------------------------------
(* Definitions named Mutant... are wrong on purpose: with one in place of   *)
(* the definition that follows it, a run must break a property.            *)

(* indexIdentity, over one reading: the accounts in scope that have a name. *)
Identities == [sid \in SIDs |-> IF sid \in InScope THEN accounts[sid] ELSE NoAccount]

Init ==
  /\ accounts \in [SIDs -> Accounts \cup {NoAccount}]
  /\ \A sid \in SIDs : accounts[sid] \in Holders[sid] \cup {NoAccount}
  /\ session \in {"up", "nil"}
  /\ index = Identities
  /\ cache = [sid \in SIDs |-> NotCached]
  /\ asking = Nobody
  /\ base = 1
  /\ said = {}
  /\ lookups = [sid \in SIDs |-> 0]
  /\ named = [sid \in SIDs |-> {accounts[sid]}]
  /\ read = accounts

(* The environment: accounts created, renamed and deleted; the connection. *)
ChangeAccount(sid, account) ==
  /\ session # "nil"
  /\ accounts' = [accounts EXCEPT ![sid] = account]
  /\ named' = [named EXCEPT ![sid] = @ \cup {account}]
  /\ UNCHANGED <<session, resolverVars, lookups, read>>

DropSession ==
  /\ session = "up"
  /\ session' = "down"
  /\ UNCHANGED <<accounts, resolverVars, lookups, named, read>>

(* A new reading, reconnected if it had to be, and UseIndex.               *)
UseIndex ==
  /\ asking = Nobody
  /\ session # "nil"
  /\ session' = "up"
  /\ index' = Identities
  /\ said' = {}
  /\ read' = accounts
  /\ UNCHANGED <<accounts, cache, asking, base, lookups, named>>

-----------------------------------------------------------------------------
(* Name(sid): the memories are asked in order, the directory last.         *)

Answer(sid, name) == said' = said \cup {<<sid, name>>}

Remembered(sid) ==
  sid \in WellKnown \/ index[sid] # NoAccount \/ cache[sid] # NotCached

MutantFromMemoryCacheFirst(sid) ==
  IF sid \in WellKnown THEN BuiltIn(sid)
  ELSE IF cache[sid] # NotCached THEN cache[sid] ELSE Qualify(index[sid])

FromMemory(sid) ==
  IF sid \in WellKnown THEN BuiltIn(sid)
  ELSE IF index[sid] # NoAccount THEN Qualify(index[sid]) ELSE cache[sid]

NameFromMemory(sid) ==
  /\ asking = Nobody
  /\ Remembered(sid)
  /\ Answer(sid, FromMemory(sid))
  /\ UNCHANGED <<accounts, session, index, cache, asking, base, lookups, named, read>>

MutantFinishForgetsMisses(sid, name) ==
  /\ cache' = IF name = Unresolvable THEN cache ELSE [cache EXCEPT ![sid] = name]
  /\ asking' = Nobody
  /\ Answer(sid, name)

(* The result of a lookup, a miss included, is cached and answered.        *)
Finish(sid, name) ==
  /\ cache' = [cache EXCEPT ![sid] = name]
  /\ asking' = Nobody
  /\ Answer(sid, name)

(* With no session, or no filter to send, the lookup is a miss at once.    *)
NameWithoutQuery(sid) ==
  /\ asking = Nobody
  /\ ~Remembered(sid)
  /\ session = "nil" \/ sid \in Unparseable
  /\ Finish(sid, Unresolvable)
  /\ lookups' = [lookups EXCEPT ![sid] = @ + 1]
  /\ UNCHANGED <<accounts, session, index, base, named, read>>

StartLookup(sid) ==
  /\ asking = Nobody
  /\ ~Remembered(sid)
  /\ session # "nil" /\ sid \notin Unparseable
  /\ asking' = sid
  /\ base' = 1
  /\ lookups' = [lookups EXCEPT ![sid] = @ + 1]
  /\ UNCHANGED <<accounts, session, index, cache, said, named, read>>

Found == Home[asking] = base /\ accounts[asking] # NoAccount

QueryFinds ==
  /\ asking # Nobody /\ base <= Bases
  /\ session = "up"
  /\ Found
  /\ Finish(asking, Qualify(accounts[asking]))
  /\ UNCHANGED <<accounts, session, index, base, lookups, named, read>>

MutantQueryFindsNothingOverruns ==
  /\ asking # Nobody
  /\ session = "up"
  /\ ~Found
  /\ base' = base + 1
  /\ UNCHANGED <<accounts, session, index, cache, asking, said, lookups, named, read>>

QueryFindsNothing ==
  /\ asking # Nobody /\ base <= Bases
  /\ session = "up"
  /\ ~Found
  /\ base' = base + 1
  /\ UNCHANGED <<accounts, session, index, cache, asking, said, lookups, named, read>>

MutantQueryFailsRetriesForever ==
  /\ asking # Nobody /\ base <= Bases
  /\ UNCHANGED <<accounts, session, resolverVars, lookups, named, read>>

(* A query that fails is logged and passed over.                           *)
QueryFails ==
  /\ asking # Nobody /\ base <= Bases
  /\ base' = base + 1
  /\ UNCHANGED <<accounts, session, index, cache, asking, said, lookups, named, read>>

LookupExhausted ==
  /\ asking # Nobody /\ base > Bases
  /\ Finish(asking, Unresolvable)
  /\ UNCHANGED <<accounts, session, index, base, lookups, named, read>>

Lookup == QueryFinds \/ QueryFindsNothing \/ QueryFails \/ LookupExhausted

Next ==
  \/ \E sid \in SIDs :
       \/ NameFromMemory(sid) \/ NameWithoutQuery(sid) \/ StartLookup(sid)
       \/ \E account \in Holders[sid] \cup {NoAccount} : ChangeAccount(sid, account)
  \/ Lookup
  \/ UseIndex
  \/ DropSession

Spec == Init /\ [][Next]_vars

(* A query that was sent returns, with an answer or an error.              *)
FairSpec == Spec /\ WF_vars(Lookup)

-----------------------------------------------------------------------------
(* Every variable stays in its type.                                       *)
TypeOK ==
  /\ accounts \in [SIDs -> Accounts \cup {NoAccount}]
  /\ session \in {"up", "down", "nil"}
  /\ index \in [SIDs -> Accounts \cup {NoAccount}]
  /\ cache \in [SIDs -> Qualified \cup {Unresolvable, NotCached}]
  /\ asking \in SIDs \cup {Nobody}
  /\ base \in 1 .. Bases + 1
  /\ said \in SUBSET (SIDs \X Names)
  /\ lookups \in [SIDs -> Nat]
  /\ named \in [SIDs -> SUBSET (Accounts \cup {NoAccount})]
  /\ read \in [SIDs -> Accounts \cup {NoAccount}]

(* resolve.go:13: a SID is not looked up again for the lifetime of the     *)
(* run, neither after a hit nor after a miss, however many readings and    *)
(* renamings come between.                                                 *)
OneLookupPerSID == \A sid \in SIDs : lookups[sid] <= 1

(* For an account a reading enumerates, every answer until the next        *)
(* reading is the name that reading saw: neither an older reading's nor    *)
(* one a lookup cached, be it a miss a dead connection left behind.        *)
AnswersFollowTheLastReading ==
  \A answer \in said :
    LET sid == answer[1]
    IN  sid \in InScope \ WellKnown /\ read[sid] # NoAccount =>
          answer[2] = Qualify(read[sid])

(* Two questions about one SID between two readings get the same answer,   *)
(* even with the account renamed and the connection lost in between: the   *)
(* filter and the rendering of one cycle agree on who a trustee is.        *)
OneAnswerPerCycle ==
  \A answer1, answer2 \in said : answer1[1] = answer2[1] => answer1 = answer2

(* Rendering never hangs on a name: a lookup ends whatever becomes of the  *)
(* connection.                                                             *)
LookupsEnd == asking # Nobody ~> asking = Nobody

(* resolve.go:12: the mark is what "the cache holds for a SID that was     *)
(* looked up and not found": no account held it when the lookup was made.  *)
MissMeansNotFound ==
  session # "nil" =>
    \A sid \in SIDs \ Unparseable :
      cache[sid] = Unresolvable => NoAccount \in named[sid]
=============================================================================
