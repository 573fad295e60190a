------------------------------- MODULE Launch --------------------------------
(***************************************************************************)
(* A run from its command line to its exit status: main.go, the password   *)
(* prompt of cli/prompt.go and the set-up of the session in                *)
(* utils/session.go, with the delay of modes/mode_monitor/run.go.          *)
(*                                                                         *)
(* The flags are variables of package main that later steps write to, and  *)
(* the configuration is a copy of them: what matters is who reads which,   *)
(* when.  Readings are one step; Monitor has their interleavings.          *)
(***************************************************************************)
EXTENDS Integers

CONSTANTS
  CommandLines, \* what the parser accepts: a bound on the inputs
  Second,       \* time.Second, in ticks of time.Duration
  HalfRange     \* a Duration is a signed integer below this in magnitude

(* The parser lets through at most one of the secrets, and an empty string  *)
(* is no secret.                                                           *)
GivenSecrets == {"password", "hashes", "aes key", "ccache", "kirbi"}
Secrets == GivenSecrets \cup {"typed password"}
KerberosSecrets == {"aes key", "ccache", "kirbi"}

ASSUME CommandLinesAssumption ==
  \A line \in CommandLines :
    /\ line.mode \in {"monitor", "snapshot", "diff", "other"}
    /\ line.secret \in GivenSecrets \cup {"none"}
    /\ line.port \in Nat /\ line.delay \in -HalfRange .. HalfRange - 1
    /\ line.dc \in {"address", "name", "address and --dc-host"}
    /\ {line.ldaps, line.kerberos, line.sealing, line.noPass, line.logFile,
        line.randomize} \subseteq BOOLEAN

ASSUME DurationAssumption ==
  /\ Second \in Nat \ {0} /\ HalfRange \in Nat
  /\ 5 * Second < HalfRange

VARIABLES
  line,         \* the command line
  ldapPort,     \* flag: the port to connect to
  useKerberos,  \* flag: bind with Kerberos
  authPassword, \* flag: the password, given or typed
  cfg,          \* the configuration handed to the modes
  creds,        \* the secrets in the credentials
  pc,           \* where main stands
  log,          \* the log file
  status,       \* the exit status
  prompts,      \* history: how often a password was asked for
  warned,       \* history: the warnings given
  session,      \* what the session was set up with
  binds,        \* history: the binds made
  wait          \* the delay before the next reading

flagVars == <<ldapPort, useKerberos, authPassword>>
saidVars == <<prompts, warned>>
sessionVars == <<session, binds, wait>>
vars == <<line, flagVars, cfg, creds, pc, log, status, saidVars, sessionVars>>

NoSession == [secret |-> "none", kerberos |-> FALSE, layer |-> "none", spn |-> "address"]

-----------------------------------------------------------------------------
(* Definitions named Mutant... are wrong on purpose: with one in place of   *)
(* what follows it, a run must break a property.                           *)

Init ==
  /\ line \in CommandLines
  /\ ldapPort = line.port /\ useKerberos = line.kerberos
  /\ authPassword = IF line.secret = "password" THEN "password" ELSE "none"
  /\ cfg = [port |-> 0, kerberos |-> FALSE, delay |-> 0] /\ creds = {}
  /\ pc = "parse" /\ log = "none" /\ status = "running"
  /\ prompts = 0 /\ warned = {}
  /\ session = NoSession /\ binds = {} /\ wait = Second

(* os.Exit: no deferred call runs.                                         *)
Exit == pc' = "ended" /\ status' = "1" /\ UNCHANGED log

(* "Done.", and main returns: the log file is closed.                      *)
Finish ==
  /\ pc' = "ended" /\ status' = "0"
  /\ log' = IF log = "open" THEN "closed" ELSE log

Fails(step) ==
  /\ pc = step
  /\ Exit
  /\ UNCHANGED <<line, flagVars, cfg, creds, saidVars, sessionVars>>

(* LDAPS moves the port, unless the caller named one (0: not named).       *)
ParseArgs ==
  /\ pc = "parse"
  /\ ldapPort' = IF line.port # 0 THEN line.port ELSE IF line.ldaps THEN 636 ELSE 389
  /\ pc' = "log"
  /\ UNCHANGED <<line, useKerberos, authPassword, cfg, creds, log, status, saidVars, sessionVars>>

OpenLog ==
  /\ pc = "log"
  /\ log' = IF line.logFile THEN "open" ELSE log
  /\ pc' = "configure"
  /\ UNCHANGED <<line, flagVars, cfg, creds, status, saidVars, sessionVars>>

MutantConfigureAnyMode ==
  /\ pc = "configure"
  /\ cfg' = [port |-> ldapPort, kerberos |-> useKerberos, delay |-> line.delay]
  /\ pc' = "password"
  /\ UNCHANGED <<line, flagVars, creds, log, status, saidVars, sessionVars>>

(* The copy of the flags, and diff mode goes its own way.                  *)
Configure ==
  /\ pc = "configure"
  /\ cfg' = [port |-> ldapPort, kerberos |-> useKerberos, delay |-> line.delay]
  /\ pc' = IF line.mode = "diff" THEN "diff" ELSE "password"
  /\ UNCHANGED <<line, flagVars, creds, log, status, saidVars, sessionVars>>

DiffMode ==
  /\ pc = "diff"
  /\ Finish
  /\ UNCHANGED <<line, flagVars, cfg, creds, prompts, warned, sessionVars>>

-----------------------------------------------------------------------------
(* The secret.                                                             *)

NeedsPrompt == authPassword = "none" /\ line.secret = "none" /\ ~line.noPass

(* ResolvePassword without a prompt, and the warning after it.             *)
PasswordResolved ==
  /\ pc = "password"
  /\ ~NeedsPrompt
  /\ warned' = IF line.noPass /\ authPassword = "none" /\ line.secret = "none"
               THEN warned \cup {"no secret"} ELSE warned
  /\ pc' = "credentials"
  /\ UNCHANGED <<line, flagVars, cfg, creds, log, status, prompts, sessionVars>>

(* An empty password is taken for one.                                     *)
MutantPromptForPassword ==
  /\ pc = "password"
  /\ NeedsPrompt
  /\ prompts' = prompts + 1
  /\ \E typed \in {"none", "typed password"} : authPassword' = typed
  /\ pc' = "credentials"
  /\ UNCHANGED <<line, ldapPort, useKerberos, cfg, creds, log, status, warned, sessionVars>>

(* An empty password is asked for again.                                   *)
MutantPromptForPasswordAgain ==
  /\ pc = "password"
  /\ NeedsPrompt
  /\ prompts' = prompts + 1
  /\ \E typed \in {"none", "typed password"} :
       authPassword' = typed /\ pc' = IF typed = "none" THEN pc ELSE "credentials"
  /\ UNCHANGED <<line, ldapPort, useKerberos, cfg, creds, log, status, warned, sessionVars>>

(* PromptForPassword: typed, empty, or an error of the terminal or the pipe; *)
(* ResolvePassword refuses the last two.                                   *)
PromptForPassword ==
  /\ pc = "password"
  /\ NeedsPrompt
  /\ prompts' = prompts + 1
  /\ \/ authPassword' = "typed password" /\ pc' = "credentials" /\ UNCHANGED <<log, status>>
     \/ Exit /\ UNCHANGED authPassword
  /\ UNCHANGED <<line, ldapPort, useKerberos, cfg, creds, warned, sessionVars>>

(* NewCredentials, from the password and the hashes.                       *)
NewCredentials ==
  /\ pc = "credentials"
  /\ creds' = ({authPassword} \cup ({line.secret} \cap {"hashes"})) \ {"none"}
  /\ pc' = "keys"
  /\ UNCHANGED <<line, flagVars, cfg, log, status, saidVars, sessionVars>>

(* SetAESKey, SetCCache, SetKirbi; each of them implies Kerberos, and the   *)
(* configuration is brought up to date.                                    *)
MutantSetKeysOnly ==
  /\ pc = "keys"
  /\ creds' = creds \cup ({line.secret} \cap KerberosSecrets)
  /\ useKerberos' = (useKerberos \/ line.secret \in KerberosSecrets)
  /\ warned' = IF useKerberos' /\ line.dc = "address"
               THEN warned \cup {"no SPN"} ELSE warned
  /\ pc' = "dispatch"
  /\ UNCHANGED <<line, ldapPort, authPassword, cfg, log, status, prompts, sessionVars>>

SetKeys ==
  /\ pc = "keys"
  /\ creds' = creds \cup ({line.secret} \cap KerberosSecrets)
  /\ useKerberos' = (useKerberos \/ line.secret \in KerberosSecrets)
  /\ cfg' = [cfg EXCEPT !.kerberos = useKerberos']
  /\ warned' = IF useKerberos' /\ line.dc = "address"
               THEN warned \cup {"no SPN"} ELSE warned
  /\ pc' = "dispatch"
  /\ UNCHANGED <<line, ldapPort, authPassword, log, status, prompts, sessionVars>>

MutantDispatch ==
  /\ pc = "dispatch"
  /\ line.mode # "other"
  /\ pc' = "session"
  /\ UNCHANGED <<line, flagVars, cfg, creds, log, status, saidVars, sessionVars>>

(* A mode that is not known is refused; a delay below one is not used.     *)
Dispatch ==
  /\ pc = "dispatch"
  /\ line.mode # "other"
  /\ IF line.mode = "monitor" /\ line.delay < 1
     THEN cfg' = [cfg EXCEPT !.delay = 1] /\ warned' = warned \cup {"delay"}
     ELSE UNCHANGED <<cfg, warned>>
  /\ pc' = "session"
  /\ UNCHANGED <<line, flagVars, creds, log, status, prompts, sessionVars>>

-----------------------------------------------------------------------------
(* utils/session.go.                                                       *)

MutantSecurityLayer(kerberos) ==
  IF kerberos THEN IF line.sealing THEN "sealing" ELSE "signing"
  ELSE IF line.ldaps THEN "tls" ELSE "none"

(* A SASL layer on a Kerberos bind over plain LDAP, and none over TLS.     *)
SecurityLayer(kerberos) ==
  IF line.ldaps THEN "tls"
  ELSE IF ~kerberos THEN "none"
  ELSE IF line.sealing THEN "sealing" ELSE "signing"

(* The bind presents what the credentials hold: they hold one secret.      *)
Presented == IF creds = {} THEN "none" ELSE CHOOSE s \in creds : TRUE

(* The server as the bind names it: --dc-host is set on a Kerberos session. *)
SPN(kerberos) ==
  IF line.dc = "address" \/ (line.dc = "address and --dc-host" /\ ~kerberos)
  THEN "address" ELSE "name"

(* NewSession up to Connect.                                               *)
SetUpSession ==
  /\ pc = "session"
  /\ session' = [secret |-> Presented, kerberos |-> cfg.kerberos,
                 layer |-> SecurityLayer(cfg.kerberos), spn |-> SPN(cfg.kerberos)]
  /\ pc' = "connect"
  /\ UNCHANGED <<line, flagVars, cfg, creds, log, status, saidVars, binds, wait>>

(* Connect binds, and so does ReConnect, with what the session was set up   *)
(* with.                                                                   *)
Bind == binds' = binds \cup {session}

(* Connect, the search bases resolved, and in monitor mode a first reading. *)
Connect ==
  /\ pc = "connect"
  /\ Bind
  /\ pc' = IF line.mode = "monitor" THEN "wait" ELSE "capture"
  /\ UNCHANGED <<line, flagVars, cfg, creds, log, status, saidVars, session, wait>>

(* The search bases, a reading or the file of snapshot mode.               *)
Capture ==
  /\ pc = "capture"
  /\ Finish
  /\ UNCHANGED <<line, flagVars, cfg, creds, prompts, warned, sessionVars>>

-----------------------------------------------------------------------------
(* modes/mode_monitor/run.go, as far as delays and connections go.         *)

AsDuration(n) == ((n + HalfRange) % (2 * HalfRange)) - HalfRange

RandomDelays == Second .. 5 * Second

NextDelay ==
  IF line.randomize THEN RandomDelays ELSE {AsDuration(cfg.delay * Second)}

Wait ==
  /\ pc = "wait"
  /\ wait' \in NextDelay
  /\ pc' = "read"
  /\ UNCHANGED <<line, flagVars, cfg, creds, log, status, saidVars, session, binds>>

Read ==
  /\ pc = "read"
  /\ pc' = "wait"
  /\ UNCHANGED <<line, flagVars, cfg, creds, log, status, saidVars, sessionVars>>

ReadFails ==
  /\ pc = "read"
  /\ pc' = "reconnect"
  /\ UNCHANGED <<line, flagVars, cfg, creds, log, status, saidVars, sessionVars>>

ReConnect ==
  /\ pc = "reconnect"
  /\ Bind
  /\ pc' = "retry"
  /\ UNCHANGED <<line, flagVars, cfg, creds, log, status, saidVars, session, wait>>

Retry ==
  /\ pc = "retry"
  /\ pc' = "wait"
  /\ UNCHANGED <<line, flagVars, cfg, creds, log, status, saidVars, sessionVars>>

Interrupted ==
  /\ pc = "wait"
  /\ Finish
  /\ UNCHANGED <<line, flagVars, cfg, creds, prompts, warned, sessionVars>>

-----------------------------------------------------------------------------
(* The steps that may fail, whether what they were given is wrong or the    *)
(* server refuses; main says so and exits.                                 *)
Failing ==
  \/ line.logFile /\ Fails("log")
  \/ Fails("diff") \/ Fails("credentials")
  \/ line.secret \in KerberosSecrets /\ Fails("keys")
  \/ line.mode = "other" /\ Fails("dispatch")
  \/ Fails("session") \/ Fails("connect") \/ Fails("capture")
  \/ Fails("reconnect") \/ Fails("retry")

Next ==
  \/ ParseArgs \/ OpenLog \/ Configure \/ DiffMode
  \/ PasswordResolved \/ PromptForPassword \/ NewCredentials \/ SetKeys \/ Dispatch
  \/ SetUpSession \/ Connect \/ Capture
  \/ Wait \/ Read \/ ReadFails \/ ReConnect \/ Retry \/ Interrupted
  \/ Failing

Spec == Init /\ [][Next]_vars
-----------------------------------------------------------------------------
(* Every variable stays in its type: at most one password is asked for, the *)
(* credentials hold at most one secret, and only a log file of a run that   *)
(* ended well is closed.                                                   *)
TypeOK ==
  /\ line \in CommandLines
  /\ ldapPort \in Nat /\ useKerberos \in BOOLEAN
  /\ authPassword \in {"none", "password", "typed password"}
  /\ cfg.port \in Nat /\ cfg.kerberos \in BOOLEAN /\ cfg.delay \in -HalfRange .. HalfRange - 1
  /\ creds = {} \/ \E s \in Secrets : creds = {s}
  /\ log \in {"none", "open", "closed"} /\ status \in {"running", "0", "1"}
  /\ pc = "ended" <=> status # "running"
  /\ log = "closed" => status = "0"
  /\ prompts \in 0 .. 1 /\ warned \subseteq {"no secret", "no SPN", "delay"}
  /\ binds \subseteq {session}
  /\ wait \in -HalfRange .. HalfRange - 1

(* Every bind, after a lost connection too, is the one that was asked for:  *)
(* with the secret given or typed, and without one only when the caller     *)
(* said so and was warned; over Kerberos if he asked for it or his secret    *)
(* works over nothing else; under one security layer, the right one; and    *)
(* with the name of the server in a Kerberos bind unless he was warned.     *)
BindsAsAsked ==
  \A b \in binds :
    /\ b.secret = IF line.secret # "none" THEN line.secret
                  ELSE IF line.noPass THEN "none" ELSE "typed password"
    /\ b.secret = "none" => "no secret" \in warned
    /\ b.kerberos <=> line.kerberos \/ line.secret \in KerberosSecrets
    /\ b.layer = "tls" <=> line.ldaps
    /\ b.layer \in {"signing", "sealing"} <=> b.kerberos /\ ~line.ldaps
    /\ b.layer = "sealing" => line.sealing
    /\ b.kerberos /\ b.spn = "address" => "no SPN" \in warned

(* Diff mode "talks to nothing" (main.go:201): it asks for no password and   *)
(* binds to no server.  A password is asked for only by a run that was       *)
(* given no secret and not told to go without, and no run that should have   *)
(* bound ends well without a bind.                                         *)
TalksOnlyWhenAsked ==
  /\ line.mode = "diff" => prompts = 0 /\ creds = {} /\ binds = {}
  /\ prompts > 0 => line.secret = "none" /\ ~line.noPass
  /\ status = "0" => line.mode = "diff" \/ binds # {}

(* No delay makes the loop read the domain controller back to back           *)
(* (main.go:275), unless its count of nanoseconds does not fit in a          *)
(* time.Duration: such a delay is waited for less, or not at all.           *)
NoTightLoop ==
  wait < Second => cfg.delay * Second >= HalfRange
=============================================================================
