---------------------------- MODULE LaunchProofs -----------------------------
(***************************************************************************)
(* Theorems about Launch, for every set of command lines, second and range *)
(* of durations.                                                           *)
(***************************************************************************)
EXTENDS Launch, TLAPS

Durations == -HalfRange .. HalfRange - 1

(* What was asked for.                                                     *)
AskedSecret ==
  IF line.secret # "none" THEN line.secret
  ELSE IF line.noPass THEN "none" ELSE "typed password"
AskedKerberos == line.kerberos \/ line.secret \in KerberosSecrets
GivenPassword == IF line.secret = "password" THEN "password" ELSE "none"
ResolvedPassword ==
  IF AskedSecret \in {"password", "typed password"} THEN AskedSecret ELSE "none"

(* Where main stands: before the password, before the keys, after them, and *)
(* with a session.                                                         *)
Unasked == {"parse", "log", "configure", "diff", "password"}
Resolved == {"credentials", "keys"}
Cycling == {"wait", "read", "reconnect", "retry"}
Bound == Cycling \cup {"capture"}
InSession == Bound \cup {"connect"}
Configured == InSession \cup {"dispatch", "session"}
Steps == Unasked \cup Resolved \cup Configured \cup {"ended"}

(* The types, and the ending.                                              *)
TypeInv ==
  /\ line \in CommandLines
  /\ ldapPort \in Nat /\ useKerberos \in BOOLEAN
  /\ authPassword \in {"none", "password", "typed password"}
  /\ cfg \in [port : Nat, kerberos : BOOLEAN, delay : Durations]
  /\ creds = {} \/ \E s \in Secrets : creds = {s}
  /\ pc \in Steps
  /\ log \in {"none", "open", "closed"} /\ status \in {"running", "0", "1"}
  /\ pc = "ended" <=> status # "running"
  /\ log = "closed" => status = "0"
  /\ prompts \in 0 .. 1 /\ warned \subseteq {"no secret", "no SPN", "delay"}
  /\ binds \subseteq {session}
  /\ wait \in Durations

(* What is known of the secret and of Kerberos, step by step.              *)
SecretInv ==
  /\ pc \in Unasked =>
       /\ authPassword = GivenPassword /\ prompts = 0
       /\ useKerberos = line.kerberos
  /\ pc \in Unasked \cup {"credentials"} => creds = {}
  /\ pc \in Resolved =>
       /\ authPassword = ResolvedPassword
       /\ useKerberos = line.kerberos
       /\ AskedSecret = "none" => "no secret" \in warned
  /\ pc = "keys" => creds = {AskedSecret} \cap {"password", "typed password", "hashes"}
  /\ pc \in Configured =>
       /\ creds = {AskedSecret} \ {"none"}
       /\ cfg.kerberos = AskedKerberos
       /\ AskedSecret = "none" => "no secret" \in warned
       /\ AskedKerberos /\ line.dc = "address" => "no SPN" \in warned

(* Who talks to whom.                                                      *)
TalkInv ==
  /\ line.mode = "diff" =>
       pc \in {"parse", "log", "configure", "diff", "ended"} /\ prompts = 0 /\ creds = {}
  /\ pc = "diff" => line.mode = "diff"
  /\ prompts > 0 => line.secret = "none" /\ ~line.noPass
  /\ binds # {} => pc \in Bound \cup {"ended"} /\ line.mode # "diff"
  /\ pc \in Bound => binds # {}
  /\ status = "0" => line.mode = "diff" \/ binds # {}

(* The session is what the configuration says, and the binds are its.      *)
SessionInv ==
  /\ pc \in InSession =>
       /\ session.secret = AskedSecret
       /\ session.kerberos = AskedKerberos
       /\ session.layer = SecurityLayer(AskedKerberos)
       /\ session.spn = SPN(AskedKerberos)
  /\ BindsAsAsked

(* No delay below a second comes into the cycle.                           *)
DelayInv ==
  /\ pc \in {"password", "dispatch"} \cup Resolved => cfg.delay = line.delay
  /\ pc \in {"session", "connect"} /\ line.mode = "monitor" => cfg.delay >= 1
  /\ pc \in Cycling => cfg.delay >= 1
  /\ pc \notin Cycling \cup {"ended"} => wait = Second
  /\ NoTightLoop

IInv == TypeInv /\ SecretInv /\ TalkInv /\ SessionInv /\ DelayInv

-----------------------------------------------------------------------------
(* Lemmas.                                                                 *)

(* A delay of n seconds is never below a second while it fits, and what a   *)
(* Duration holds is one.                                                  *)
LEMMA DurationWraps ==
  ASSUME NEW n \in Int
  PROVE  /\ AsDuration(n) \in Durations
         /\ 0 <= n /\ n < HalfRange => AsDuration(n) = n
<1>1. HalfRange \in Nat /\ HalfRange > 0
  BY DurationAssumption
<1> DEFINE m == 2 * HalfRange
           x == n + HalfRange
<1>2. m \in Nat /\ m > 0 /\ x \in Int
  BY <1>1
<1>3. x % m \in 0 .. m - 1
  BY <1>2
<1>4. 0 <= x /\ x < m => x % m = x
  BY <1>2
<1>5. AsDuration(n) = (x % m) - HalfRange
  BY DEF AsDuration
<1> HIDE DEF m, x
<1>6. m = 2 * HalfRange /\ x = n + HalfRange
  BY DEF m, x
<1> QED
  BY <1>1, <1>2, <1>3, <1>4, <1>5, <1>6 DEF Durations

LEMMA DelayOfSeconds ==
  ASSUME NEW d \in Int, d >= 1
  PROVE  d * Second \in Int /\ d * Second >= Second
BY DurationAssumption

(* What the next reading waits for, once the delay is one or more.          *)
LEMMA NextDelayIsSound ==
  ASSUME cfg.delay \in Int, cfg.delay >= 1, NEW w \in NextDelay
  PROVE  w \in Durations /\ (w < Second => cfg.delay * Second >= HalfRange)
<1>1. CASE line.randomize
  BY <1>1, DurationAssumption DEF NextDelay, RandomDelays, Durations
<1>2. CASE ~line.randomize
  <2>1. w = AsDuration(cfg.delay * Second)
    BY <1>2 DEF NextDelay
  <2> QED
    BY <2>1, DelayOfSeconds, DurationWraps, DurationAssumption
<1> QED
  BY <1>1, <1>2

(* What a command line is.                                                 *)
LEMMA LineTypes ==
  ASSUME line \in CommandLines
  PROVE  /\ line.mode \in {"monitor", "snapshot", "diff", "other"}
         /\ line.secret \in GivenSecrets \cup {"none"}
         /\ line.port \in Nat /\ line.delay \in Durations
         /\ line.dc \in {"address", "name", "address and --dc-host"}
         /\ line.ldaps \in BOOLEAN /\ line.kerberos \in BOOLEAN
         /\ line.sealing \in BOOLEAN /\ line.noPass \in BOOLEAN
         /\ line.logFile \in BOOLEAN /\ line.randomize \in BOOLEAN
BY CommandLinesAssumption DEF Durations

-----------------------------------------------------------------------------
(* The inductive invariant, one part at a time.                            *)

(* The secret asked for is one of the secrets or none.                     *)
LEMMA AskedIsASecret ==
  ASSUME line \in CommandLines
  PROVE  AskedSecret \in Secrets \cup {"none"} /\ AskedKerberos \in BOOLEAN
BY LineTypes DEF AskedSecret, AskedKerberos, Secrets, GivenSecrets

LEMMA InitIInv == Init => IInv
<1> SUFFICES ASSUME Init PROVE IInv
  OBVIOUS
<1>1. TypeInv
  <2>1. ldapPort \in Nat /\ useKerberos \in BOOLEAN
    BY LineTypes DEF Init
  <2>2. 0 \in Durations /\ Second \in Durations
    BY DurationAssumption DEF Durations
  <2>3. cfg \in [port : Nat, kerberos : BOOLEAN, delay : Durations]
    BY <2>2 DEF Init
  <2> QED
    BY <2>1, <2>2, <2>3 DEF Init, TypeInv, Steps, Unasked
<1>2. SecretInv
  BY DEF Init, SecretInv, Unasked, Resolved, Configured, InSession, Bound, Cycling,
         GivenPassword
<1>3. TalkInv
  BY DEF Init, TalkInv, Bound, Cycling
<1>4. SessionInv
  BY DEF Init, SessionInv, BindsAsAsked, InSession, Bound, Cycling
<1>5. DelayInv
  BY DurationAssumption DEF Init, DelayInv, Cycling, Resolved, NoTightLoop
<1> QED
  BY <1>1, <1>2, <1>3, <1>4, <1>5 DEF IInv

(* No step changes the command line, and what was asked for is a function   *)
(* of it.                                                                  *)
LEMMA LineStays == Next => line' = line
BY DEF Next, ParseArgs, OpenLog, Configure, DiffMode, PasswordResolved, PromptForPassword,
       NewCredentials, SetKeys, Dispatch, SetUpSession, Connect, Capture, Wait, Read,
       ReadFails, ReConnect, Retry, Interrupted, Failing, Fails

LEMMA TypeStep == IInv /\ Next => TypeInv'
<1> SUFFICES ASSUME IInv, Next PROVE TypeInv'
  OBVIOUS
<1>l. line' = line /\ line \in CommandLines
  BY LineStays DEF IInv, TypeInv
<1> USE DEF TypeInv, Steps, Unasked, Resolved, Configured, InSession, Bound, Cycling
<1>1. CASE ParseArgs
  <2>1. ldapPort' \in Nat
    <3>1. line.port \in Nat
      BY <1>l, LineTypes
    <3>2. ldapPort' = line.port \/ ldapPort' = 636 \/ ldapPort' = 389
      BY <1>1 DEF ParseArgs
    <3> QED
      BY <3>1, <3>2
  <2> QED
    BY <1>1, <1>l, <2>1 DEF ParseArgs, IInv, saidVars, sessionVars
<1>2. CASE OpenLog
  BY <1>2, <1>l DEF OpenLog, IInv, flagVars, saidVars, sessionVars
<1>3. CASE Configure
  BY <1>3, <1>l, LineTypes DEF Configure, IInv, flagVars, saidVars, sessionVars
<1>4. CASE DiffMode
  BY <1>4, <1>l DEF DiffMode, Finish, IInv, flagVars, sessionVars
<1>5. CASE PasswordResolved
  BY <1>5, <1>l DEF PasswordResolved, IInv, flagVars, sessionVars
<1>6. CASE PromptForPassword
  <2>1. prompts = 0 /\ prompts' = prompts + 1
    BY <1>6, Zenon DEF PromptForPassword, IInv, SecretInv
  <2>2. log # "closed" /\ status = "running"
    BY <1>6 DEF PromptForPassword, IInv
  <2>3. CASE authPassword' = "typed password" /\ pc' = "credentials" /\ UNCHANGED <<log, status>>
    <3>1. prompts' \in 0 .. 1 /\ authPassword' \in {"none", "password", "typed password"}
      <4>1. prompts' \in 0 .. 1
        BY <2>1
      <4>2. authPassword' = "typed password"
        BY <2>3
      <4> QED
        BY <4>1, <4>2
    <3>2. pc' = "credentials" /\ log' = log /\ status' = status
      BY <2>3
    <3>3. UNCHANGED <<ldapPort, useKerberos, cfg, creds, warned, session, binds, wait>>
      BY <1>6 DEF PromptForPassword, sessionVars
    <3> QED
      BY <1>l, <2>2, <3>1, <3>2, <3>3 DEF IInv
  <2>4. CASE Exit /\ UNCHANGED authPassword
    <3>1. prompts' \in 0 .. 1 /\ authPassword' = authPassword
      BY <2>1, <2>4
    <3>2. pc' = "ended" /\ log' = log /\ status' = "1"
      BY <2>4 DEF Exit
    <3>3. UNCHANGED <<ldapPort, useKerberos, cfg, creds, warned, session, binds, wait>>
      BY <1>6 DEF PromptForPassword, sessionVars
    <3> QED
      BY <1>l, <2>2, <3>1, <3>2, <3>3 DEF IInv
  <2> QED
    BY <1>6, <2>3, <2>4 DEF PromptForPassword
<1>7. CASE NewCredentials
  <2>1. AskedSecret \in Secrets \cup {"none"}
    BY <1>l, AskedIsASecret
  <2>2. creds' = {} \/ \E s \in Secrets : creds' = {s}
    <3>1. authPassword = ResolvedPassword
      BY <1>7 DEF NewCredentials, IInv, SecretInv
    <3>2. creds' = {AskedSecret} \cap {"password", "typed password", "hashes"}
      BY <1>7, <1>l, <3>1, LineTypes
      DEF NewCredentials, ResolvedPassword, AskedSecret, GivenSecrets
    <3> QED
      BY <2>1, <3>2 DEF Secrets
  <2> QED
    BY <1>7, <1>l, <2>2 DEF NewCredentials, IInv, flagVars, saidVars, sessionVars
<1>8. CASE SetKeys
  <2>1. AskedSecret \in Secrets \cup {"none"} /\ line.kerberos \in BOOLEAN
    BY <1>l, AskedIsASecret, LineTypes
  <2>2. creds' = {} \/ \E s \in Secrets : creds' = {s}
    <3>1. creds' = {AskedSecret} \ {"none"}
      BY <1>8, <1>l, LineTypes
      DEF SetKeys, IInv, SecretInv, AskedSecret, GivenSecrets, KerberosSecrets
    <3> QED
      BY <2>1, <3>1
  <2>3. useKerberos' \in BOOLEAN /\ cfg' \in [port : Nat, kerberos : BOOLEAN, delay : Durations]
    BY <1>8 DEF SetKeys, IInv
  <2> QED
    BY <1>8, <1>l, <2>2, <2>3 DEF SetKeys, IInv, sessionVars
<1>9. CASE Dispatch
  <2>1. cfg' \in [port : Nat, kerberos : BOOLEAN, delay : Durations]
    <3>1. 1 \in Durations
      BY DurationAssumption DEF Durations
    <3> QED
      BY <1>9, <3>1 DEF Dispatch, IInv
  <2> QED
    BY <1>9, <1>l, <2>1 DEF Dispatch, IInv, flagVars, sessionVars
<1>10. CASE SetUpSession
  BY <1>10, <1>l DEF SetUpSession, IInv, TalkInv, flagVars, saidVars
<1>11. CASE Connect
  BY <1>11, <1>l DEF Connect, Bind, IInv, flagVars, saidVars
<1>12. CASE Capture
  BY <1>12, <1>l DEF Capture, Finish, IInv, flagVars, sessionVars
<1>13. CASE Wait
  <2>1. wait' \in Durations
    <3>1. cfg.delay \in Int
      <4>1. cfg.delay \in Durations
        BY DEF IInv
      <4> QED
        BY <4>1, DurationAssumption DEF Durations
    <3>2. cfg.delay >= 1 /\ wait' \in NextDelay
      BY <1>13 DEF Wait, IInv, DelayInv
    <3> QED
      BY <3>1, <3>2, NextDelayIsSound
  <2> QED
    BY <1>13, <1>l, <2>1 DEF Wait, IInv, flagVars, saidVars
<1>14. CASE Read
  BY <1>14, <1>l DEF Read, IInv, flagVars, saidVars, sessionVars
<1>15. CASE ReadFails
  BY <1>15, <1>l DEF ReadFails, IInv, flagVars, saidVars, sessionVars
<1>16. CASE ReConnect
  BY <1>16, <1>l DEF ReConnect, Bind, IInv, flagVars, saidVars
<1>17. CASE Retry
  BY <1>17, <1>l DEF Retry, IInv, flagVars, saidVars, sessionVars
<1>18. CASE Interrupted
  BY <1>18, <1>l DEF Interrupted, Finish, IInv, flagVars, sessionVars
<1>19. CASE Failing
  BY <1>19, <1>l DEF Failing, Fails, Exit, IInv, flagVars, saidVars, sessionVars
<1> QED
  BY <1>1, <1>2, <1>3, <1>4, <1>5, <1>6, <1>7, <1>8, <1>9, <1>10, <1>11, <1>12, <1>13,
     <1>14, <1>15, <1>16, <1>17, <1>18, <1>19 DEF Next

LEMMA SecretStep == IInv /\ Next => SecretInv'
<1> SUFFICES ASSUME IInv, Next PROVE SecretInv'
  OBVIOUS
<1>l. /\ line' = line /\ line \in CommandLines
      /\ AskedSecret' = AskedSecret /\ AskedKerberos' = AskedKerberos
      /\ GivenPassword' = GivenPassword /\ ResolvedPassword' = ResolvedPassword
  BY LineStays DEF IInv, TypeInv, AskedSecret, AskedKerberos, GivenPassword, ResolvedPassword
<1>s. SecretInv /\ pc \in Steps
  BY DEF IInv, TypeInv
<1> USE <1>l, <1>s DEF Steps, Unasked, Resolved, Configured, InSession, Bound, Cycling, SecretInv
<1>1. CASE ParseArgs
  BY <1>1 DEF ParseArgs, saidVars
<1>2. CASE OpenLog
  BY <1>2 DEF OpenLog, flagVars, saidVars
<1>3. CASE Configure
  BY <1>3 DEF Configure, flagVars, saidVars
<1>4. CASE DiffMode
  BY <1>4 DEF DiffMode, Finish
<1>5. CASE PasswordResolved
  <2>1. ResolvedPassword = GivenPassword
    BY <1>5, LineTypes
    DEF PasswordResolved, NeedsPrompt, ResolvedPassword, AskedSecret, GivenPassword, GivenSecrets
  <2>2. AskedSecret = "none" => "no secret" \in warned'
    BY <1>5, LineTypes
    DEF PasswordResolved, NeedsPrompt, AskedSecret, GivenPassword, GivenSecrets
  <2> QED
    BY <1>5, <2>1, <2>2 DEF PasswordResolved, flagVars
<1>6. CASE PromptForPassword
  <2>1. AskedSecret = "typed password"
    BY <1>6 DEF PromptForPassword, NeedsPrompt, AskedSecret
  <2>2. ResolvedPassword = "typed password"
    BY <2>1 DEF ResolvedPassword
  <2> QED
    BY <1>6, <2>1, <2>2 DEF PromptForPassword, Exit
<1>7. CASE NewCredentials
  <2>1. creds' = {AskedSecret} \cap {"password", "typed password", "hashes"}
    BY <1>7, LineTypes DEF NewCredentials, ResolvedPassword, AskedSecret, GivenSecrets
  <2> QED
    BY <1>7, <2>1 DEF NewCredentials, flagVars, saidVars
<1>8. CASE SetKeys
  <2>1. creds' = {AskedSecret} \ {"none"}
    BY <1>8, LineTypes DEF SetKeys, AskedSecret, GivenSecrets, KerberosSecrets
  <2>2. cfg'.kerberos = AskedKerberos /\ useKerberos' = AskedKerberos
    <3>1. useKerberos' = AskedKerberos
      BY <1>8 DEF SetKeys, AskedKerberos
    <3>2. cfg \in [port : Nat, kerberos : BOOLEAN, delay : Durations]
      BY DEF IInv, TypeInv
    <3> QED
      BY <1>8, <3>1, <3>2 DEF SetKeys
  <2>3. AskedSecret = "none" => "no secret" \in warned'
    BY <1>8 DEF SetKeys
  <2>4. AskedKerberos /\ line.dc = "address" => "no SPN" \in warned'
    BY <1>8, <2>2 DEF SetKeys
  <2> QED
    BY <1>8, <2>1, <2>2, <2>3, <2>4 DEF SetKeys
<1>9. CASE Dispatch
  <2>1. cfg'.kerberos = cfg.kerberos
    <3>1. cfg \in [port : Nat, kerberos : BOOLEAN, delay : Durations]
      BY DEF IInv, TypeInv
    <3> QED
      BY <1>9, <3>1 DEF Dispatch
  <2>2. warned \subseteq warned'
    BY <1>9 DEF Dispatch
  <2> QED
    BY <1>9, <2>1, <2>2 DEF Dispatch, flagVars
<1>10. CASE SetUpSession
  BY <1>10 DEF SetUpSession, flagVars, saidVars
<1>11. CASE Connect
  BY <1>11 DEF Connect, flagVars, saidVars
<1>12. CASE Capture
  BY <1>12 DEF Capture, Finish
<1>13. CASE Wait
  BY <1>13 DEF Wait, flagVars, saidVars
<1>14. CASE Read \/ ReadFails \/ ReConnect \/ Retry
  BY <1>14 DEF Read, ReadFails, ReConnect, Retry, flagVars, saidVars
<1>15. CASE Interrupted
  BY <1>15 DEF Interrupted, Finish
<1>16. CASE Failing
  BY <1>16 DEF Failing, Fails, Exit
<1> QED
  BY <1>1, <1>2, <1>3, <1>4, <1>5, <1>6, <1>7, <1>8, <1>9, <1>10, <1>11, <1>12, <1>13,
     <1>14, <1>15, <1>16 DEF Next

LEMMA TalkStep == IInv /\ Next => TalkInv'
<1> SUFFICES ASSUME IInv, Next PROVE TalkInv'
  OBVIOUS
<1>l. line' = line /\ line \in CommandLines
  BY LineStays DEF IInv, TypeInv
<1>s. TalkInv /\ pc \in Steps /\ prompts \in 0 .. 1 /\ (status = "running" <=> pc # "ended")
  BY DEF IInv, TypeInv
<1> USE <1>l, <1>s DEF Steps, Unasked, Resolved, Configured, InSession, Bound, Cycling, TalkInv
<1>1. CASE ParseArgs
  BY <1>1 DEF ParseArgs, saidVars, sessionVars
<1>2. CASE OpenLog
  BY <1>2 DEF OpenLog, saidVars, sessionVars
<1>3. CASE Configure
  BY <1>3 DEF Configure, saidVars, sessionVars
<1>4. CASE DiffMode
  BY <1>4 DEF DiffMode, Finish, sessionVars
<1>5. CASE PasswordResolved
  BY <1>5 DEF PasswordResolved, sessionVars
<1>6. CASE PromptForPassword
  BY <1>6 DEF PromptForPassword, NeedsPrompt, Exit, sessionVars
<1>7. CASE NewCredentials
  BY <1>7 DEF NewCredentials, saidVars, sessionVars
<1>8. CASE SetKeys
  BY <1>8 DEF SetKeys, sessionVars
<1>9. CASE Dispatch
  BY <1>9 DEF Dispatch, sessionVars
<1>10. CASE SetUpSession
  BY <1>10 DEF SetUpSession, saidVars
<1>11. CASE Connect
  BY <1>11 DEF Connect, Bind, saidVars
<1>12. CASE Capture
  BY <1>12 DEF Capture, Finish, sessionVars
<1>13. CASE Wait
  BY <1>13 DEF Wait, saidVars
<1>14. CASE Read \/ ReadFails \/ Retry
  BY <1>14 DEF Read, ReadFails, Retry, saidVars, sessionVars
<1>15. CASE ReConnect
  BY <1>15 DEF ReConnect, Bind, saidVars
<1>16. CASE Interrupted
  BY <1>16 DEF Interrupted, Finish, sessionVars
<1>17. CASE Failing
  BY <1>17 DEF Failing, Fails, Exit, saidVars, sessionVars
<1> QED
  BY <1>1, <1>2, <1>3, <1>4, <1>5, <1>6, <1>7, <1>8, <1>9, <1>10, <1>11, <1>12, <1>13,
     <1>14, <1>15, <1>16, <1>17 DEF Next

LEMMA SessionStep == IInv /\ Next => SessionInv'
<1> SUFFICES ASSUME IInv, Next PROVE SessionInv'
  OBVIOUS
<1>l. /\ line' = line
      /\ AskedSecret' = AskedSecret /\ AskedKerberos' = AskedKerberos
      /\ SecurityLayer(AskedKerberos)' = SecurityLayer(AskedKerberos)
      /\ SPN(AskedKerberos)' = SPN(AskedKerberos)
  BY LineStays DEF AskedSecret, AskedKerberos, SecurityLayer, SPN
<1>s. SessionInv /\ pc \in Steps
  BY DEF IInv, TypeInv
<1> USE <1>l, <1>s DEF Steps, Unasked, Resolved, Configured, InSession, Bound, Cycling

\* Steps that leave the session and its binds alone.
<1>1. ASSUME UNCHANGED <<session, binds>>, warned \subseteq warned',
             pc' \in InSession => pc \in InSession
      PROVE  SessionInv'
  BY <1>1 DEF SessionInv, BindsAsAsked
<1>2. CASE SetUpSession
  <2>1. binds = {}
    BY <1>2 DEF SetUpSession, IInv, TalkInv
  <2>2. cfg.kerberos = AskedKerberos
    BY <1>2 DEF SetUpSession, IInv, SecretInv
  <2>3. Presented = AskedSecret
    <3>1. creds = {AskedSecret} \ {"none"}
      BY <1>2 DEF SetUpSession, IInv, SecretInv
    <3>2. CASE AskedSecret = "none"
      BY <3>1, <3>2 DEF Presented
    <3>3. CASE AskedSecret # "none"
      BY <3>1, <3>3 DEF Presented
    <3> QED
      BY <3>2, <3>3
  <2>4. /\ session'.secret = AskedSecret /\ session'.kerberos = AskedKerberos
        /\ session'.layer = SecurityLayer(AskedKerberos)
        /\ session'.spn = SPN(AskedKerberos)
    BY <1>2, <2>2, <2>3 DEF SetUpSession
  <2>5. binds' = {}
    BY <1>2, <2>1 DEF SetUpSession
  <2> QED
    BY <2>4, <2>5 DEF SessionInv, BindsAsAsked
<1>3. CASE Connect \/ ReConnect
  <2>1. UNCHANGED <<session, warned>> /\ binds' = binds \cup {session} /\ pc \in InSession
    BY <1>3 DEF Connect, ReConnect, Bind, saidVars
  <2>2. /\ session.secret = AskedSecret /\ session.kerberos = AskedKerberos
        /\ session.layer = SecurityLayer(AskedKerberos)
        /\ session.spn = SPN(AskedKerberos)
    BY <2>1 DEF SessionInv
  <2>3. /\ AskedSecret = "none" => "no secret" \in warned
        /\ AskedKerberos /\ line.dc = "address" => "no SPN" \in warned
    BY <2>1 DEF IInv, SecretInv
  <2>4. /\ SecurityLayer(AskedKerberos) = "tls" <=> line.ldaps
        /\ SecurityLayer(AskedKerberos) \in {"signing", "sealing"} <=> AskedKerberos /\ ~line.ldaps
        /\ SecurityLayer(AskedKerberos) = "sealing" => line.sealing
    BY DEF SecurityLayer
  <2>5. AskedKerberos /\ session.spn = "address" => line.dc = "address"
    BY <2>2 DEF SPN
  <2>6. BindsAsAsked'
    <3> SUFFICES ASSUME NEW b \in binds'
                 PROVE  /\ b.secret = AskedSecret
                        /\ b.secret = "none" => "no secret" \in warned
                        /\ b.kerberos <=> AskedKerberos
                        /\ b.layer = "tls" <=> line.ldaps
                        /\ b.layer \in {"signing", "sealing"} <=> b.kerberos /\ ~line.ldaps
                        /\ b.layer = "sealing" => line.sealing
                        /\ b.kerberos /\ b.spn = "address" => "no SPN" \in warned
      BY <2>1 DEF BindsAsAsked, AskedSecret, AskedKerberos
    <3>1. CASE b \in binds
      BY <3>1 DEF SessionInv, BindsAsAsked, AskedSecret, AskedKerberos
    <3>2. CASE b = session
      BY <3>2, <2>2, <2>3, <2>4, <2>5
    <3> QED
      BY <2>1, <3>1, <3>2
  <2> QED
    BY <2>1, <2>2, <2>6 DEF SessionInv
<1>4. CASE ParseArgs \/ OpenLog \/ Configure \/ DiffMode
  BY <1>1, <1>4 DEF ParseArgs, OpenLog, Configure, DiffMode, Finish, saidVars, sessionVars
<1>5. CASE PasswordResolved \/ PromptForPassword \/ NewCredentials
  BY <1>1, <1>5 DEF PasswordResolved, PromptForPassword, Exit, NewCredentials, saidVars, sessionVars
<1>6. CASE SetKeys \/ Dispatch
  BY <1>1, <1>6 DEF SetKeys, Dispatch, sessionVars
<1>7. CASE Capture \/ Interrupted
  BY <1>1, <1>7 DEF Capture, Interrupted, Finish, sessionVars
<1>8. CASE Wait \/ Read \/ ReadFails \/ Retry
  BY <1>1, <1>8 DEF Wait, Read, ReadFails, Retry, saidVars, sessionVars
<1>9. CASE Failing
  BY <1>1, <1>9 DEF Failing, Fails, Exit, saidVars, sessionVars
<1> QED
  BY <1>2, <1>3, <1>4, <1>5, <1>6, <1>7, <1>8, <1>9 DEF Next

LEMMA DelayStep == IInv /\ Next => DelayInv'
<1> SUFFICES ASSUME IInv, Next PROVE DelayInv'
  OBVIOUS
<1>l. line' = line
  BY LineStays
<1>s. DelayInv /\ pc \in Steps /\ cfg \in [port : Nat, kerberos : BOOLEAN, delay : Durations]
  BY DEF IInv, TypeInv
<1>n. cfg.delay \in Int
  BY <1>s, DurationAssumption DEF Durations
<1> USE <1>l, <1>s DEF Steps, Unasked, Resolved, Configured, InSession, Bound, Cycling

\* No step but Wait changes the delay that is waited for.
<1>1. ASSUME UNCHANGED <<cfg, wait>> PROVE NoTightLoop'
  BY <1>1 DEF DelayInv, NoTightLoop
<1>2. ASSUME UNCHANGED wait, wait = Second PROVE NoTightLoop'
  BY <1>2, DurationAssumption DEF NoTightLoop
<1>3. CASE ParseArgs \/ OpenLog \/ DiffMode
  BY <1>1, <1>3 DEF ParseArgs, OpenLog, DiffMode, Finish, sessionVars, DelayInv
<1>4. CASE Configure
  BY <1>2, <1>4 DEF Configure, sessionVars, DelayInv
<1>5. CASE PasswordResolved \/ PromptForPassword \/ NewCredentials
  BY <1>1, <1>5 DEF PasswordResolved, PromptForPassword, Exit, NewCredentials, sessionVars, DelayInv
<1>6. CASE SetKeys
  <2>1. cfg'.delay = cfg.delay
    BY <1>6 DEF SetKeys
  <2> QED
    BY <1>2, <1>6, <2>1 DEF SetKeys, sessionVars, DelayInv
<1>7. CASE Dispatch
  <2>1. wait = Second /\ wait' = wait /\ cfg.delay = line.delay
    BY <1>7 DEF Dispatch, DelayInv, sessionVars
  <2>2. line.mode = "monitor" => cfg'.delay >= 1
    BY <1>7, <1>n, <2>1 DEF Dispatch
  <2> QED
    BY <1>2, <1>7, <2>1, <2>2 DEF Dispatch, DelayInv
<1>8. CASE SetUpSession
  BY <1>1, <1>8 DEF SetUpSession, DelayInv
<1>9. CASE Connect
  BY <1>1, <1>9 DEF Connect, DelayInv
<1>10. CASE Capture \/ Interrupted
  BY <1>1, <1>10 DEF Capture, Interrupted, Finish, sessionVars, DelayInv
<1>11. CASE Wait
  <2>1. cfg.delay >= 1 /\ wait' \in NextDelay /\ cfg' = cfg
    BY <1>11 DEF Wait, DelayInv
  <2>2. NoTightLoop'
    BY <1>n, <2>1, NextDelayIsSound DEF NoTightLoop
  <2> QED
    BY <1>11, <2>1, <2>2 DEF Wait, DelayInv
<1>12. CASE Read \/ ReadFails \/ ReConnect \/ Retry
  BY <1>1, <1>12 DEF Read, ReadFails, ReConnect, Retry, sessionVars, DelayInv
<1>13. CASE Failing
  BY <1>1, <1>13 DEF Failing, Fails, Exit, sessionVars, DelayInv
<1> QED
  BY <1>3, <1>4, <1>5, <1>6, <1>7, <1>8, <1>9, <1>10, <1>11, <1>12, <1>13 DEF Next

-----------------------------------------------------------------------------
(* The theorems.                                                           *)

(* The strengthening the others rest on: what each point of main knows of   *)
(* the secret, of Kerberos, of the session and of the delay.               *)
THEOREM Inductive == Spec => []IInv
<1>1. Init => IInv
  BY InitIInv
<1>2. IInv /\ [Next]_vars => IInv'
  <2> SUFFICES ASSUME IInv, [Next]_vars PROVE IInv'
    OBVIOUS
  <2>1. CASE Next
    BY <2>1, TypeStep, SecretStep, TalkStep, SessionStep, DelayStep DEF IInv
  <2>2. CASE UNCHANGED vars
    <3> USE <2>2 DEF vars, flagVars, saidVars, sessionVars
    <3>1. TypeInv'
      BY DEF IInv, TypeInv
    <3>2. SecretInv'
      BY DEF IInv, SecretInv, AskedSecret, AskedKerberos, GivenPassword, ResolvedPassword
    <3>3. TalkInv'
      BY DEF IInv, TalkInv
    <3>4. SessionInv'
      BY DEF IInv, SessionInv, BindsAsAsked, AskedSecret, AskedKerberos, SecurityLayer, SPN
    <3>5. DelayInv'
      BY DEF IInv, DelayInv, NoTightLoop
    <3> QED
      BY <3>1, <3>2, <3>3, <3>4, <3>5 DEF IInv
  <2> QED
    BY <2>1, <2>2
<1> QED
  BY <1>1, <1>2, PTL DEF Spec

(* Every variable of a run stays in its type, for any command lines: one    *)
(* prompt at most, one secret at most in the credentials (main.go:214).    *)
THEOREM TypeCorrect == Spec => []TypeOK
<1>1. IInv => TypeOK
  BY DEF IInv, TypeInv, TypeOK, Durations
<1> QED
  BY <1>1, Inductive, PTL

(* Each bind is the one that was asked for, in the secret, the protocol, the *)
(* security layer and the name of the server (session.go:26, main.go:263). *)
THEOREM EveryBindIsAsAsked == Spec => []BindsAsAsked
<1>1. IInv => BindsAsAsked
  BY DEF IInv, SessionInv
<1> QED
  BY <1>1, Inductive, PTL

(* Diff mode asks for nothing and talks to nothing, and no run asks for a   *)
(* password it was told not to ask for (main.go:200, prompt.go:34).        *)
THEOREM NothingAskedInVain == Spec => []TalksOnlyWhenAsked
<1>1. IInv => TalksOnlyWhenAsked
  BY DEF IInv, TalkInv, TalksOnlyWhenAsked
<1> QED
  BY <1>1, Inductive, PTL

(* For any length of a second and any range of durations, the cycle waits   *)
(* for a second or more unless the delay asked for overflows (run.go:214). *)
THEOREM TheCycleWaits == Spec => []NoTightLoop
<1>1. IInv => NoTightLoop
  BY DEF IInv, DelayInv
<1> QED
  BY <1>1, Inductive, PTL
=============================================================================
