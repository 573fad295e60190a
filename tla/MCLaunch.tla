------------------------------ MODULE MCLaunch -------------------------------
(* An instance of Launch for TLC.  The command lines vary what meets in the  *)
(* code together: how to connect with which secret, what to wait, and what   *)
(* mode with which log file.                                                *)
EXTENDS Launch, TLC

Plain ==
  [mode |-> "monitor", secret |-> "password", port |-> 0, delay |-> 1,
   dc |-> "address", ldaps |-> FALSE, kerberos |-> FALSE, sealing |-> FALSE,
   noPass |-> FALSE, logFile |-> FALSE, randomize |-> FALSE]

Connections ==
  {[Plain EXCEPT !.secret = s, !.dc = d, !.ldaps = l, !.kerberos = k, !.sealing = e,
                 !.noPass = n] :
     s \in GivenSecrets \cup {"none"}, d \in {"address", "name", "address and --dc-host"},
     l, k, e, n \in BOOLEAN}

(* 8 is the first delay that does not fit, 16 comes out as none at all.      *)
Delays == {[Plain EXCEPT !.delay = n, !.randomize = r] :
             n \in {-1, 0, 1, 7, 8, 16}, r \in BOOLEAN}

Modes == {[Plain EXCEPT !.mode = m, !.secret = s, !.logFile = f, !.port = p] :
            m \in {"monitor", "snapshot", "diff", "other"}, s \in {"none", "ccache"},
            f \in BOOLEAN, p \in {0, 3268}}

Lines == Connections \cup Delays \cup Modes
=============================================================================
