----------------------------- MODULE ChangeFeed -----------------------------
(***************************************************************************)
(* What monitor mode promises whoever reads its output, with no LDAP, no   *)
(* reconnection and no interrupt in sight.                                 *)
(*                                                                         *)
(* A world of objects changes under the feed.  The feed looks at it over a *)
(* period of time, not at an instant: an observation is an interval, and   *)
(* all it can vouch for is that each object really had the value it        *)
(* accounts for at some point of that interval.  Every observation then    *)
(* makes the feed owe the reader one announcement for each object the      *)
(* reader is wrong about, and none for the others.                         *)
(***************************************************************************)
CONSTANTS Objects, Values

VARIABLES
  world,      \* the value each object has now
  window,     \* the values each object had during the latest observation
  observing,  \* is an observation under way
  baselined,  \* has the reader a first picture to apply announcements to
  view,       \* what the reader, who applied every announcement, believes
  due,        \* the objects still to be announced
  live        \* is the feed running

feedVars == <<world, window, observing, baselined, view, due, live>>

FeedTypeOK ==
  /\ world \in [Objects -> Values]
  /\ window \in [Objects -> SUBSET Values]
  /\ view \in [Objects -> Values]
  /\ due \in SUBSET Objects
  /\ observing \in BOOLEAN /\ baselined \in BOOLEAN /\ live \in BOOLEAN

FeedInit ==
  /\ world \in [Objects -> Values]
  /\ window = [o \in Objects |-> {}]
  /\ view \in [Objects -> Values]
  /\ due = {}
  /\ observing = FALSE /\ baselined = FALSE /\ live = TRUE

(* The world moves whatever the feed does; an observation under way may    *)
(* catch the new value.                                                    *)
Move(o, v) ==
  /\ world' = [world EXCEPT ![o] = v]
  /\ window' = IF observing THEN [window EXCEPT ![o] = @ \cup {v}] ELSE window
  /\ UNCHANGED <<observing, baselined, view, due, live>>

(* An observation starts only once everything the last one found has been  *)
(* announced.                                                              *)
Observe ==
  /\ live /\ ~observing /\ due = {}
  /\ observing' = TRUE
  /\ window' = [o \in Objects |-> {world[o]}]
  /\ UNCHANGED <<world, baselined, view, due, live>>

(* An observation that failed owes the reader nothing.                     *)
Abandon ==
  /\ live /\ observing
  /\ observing' = FALSE
  /\ UNCHANGED <<world, window, baselined, view, due, live>>

(* The first complete observation is the picture announcements start from. *)
Baseline ==
  /\ live /\ observing /\ ~baselined
  /\ baselined' = TRUE
  /\ observing' = FALSE
  /\ view' \in [Objects -> Values]
  /\ \A o \in Objects : view'[o] \in window[o]
  /\ UNCHANGED <<world, window, due, live>>

(* No news is good news: an object that is not due really had the value    *)
(* the reader believes it has.                                             *)
Conclude ==
  /\ live /\ observing /\ baselined
  /\ observing' = FALSE
  /\ due' \in SUBSET Objects
  /\ \A o \in Objects \ due' : view[o] \in window[o]
  /\ UNCHANGED <<world, window, baselined, view, live>>

(* One announcement: it corrects the reader, and it is made once.          *)
Announce(o) ==
  /\ live /\ ~observing
  /\ o \in due
  /\ \E v \in window[o] \ {view[o]} : view' = [view EXCEPT ![o] = v]
  /\ due' = due \ {o}
  /\ UNCHANGED <<world, window, observing, baselined, live>>

Close ==
  /\ live
  /\ live' = FALSE
  /\ UNCHANGED <<world, window, observing, baselined, view, due>>

FeedNext ==
  \/ \E o \in Objects, v \in Values : Move(o, v)
  \/ Observe \/ Abandon \/ Baseline \/ Conclude \/ Close
  \/ \E o \in Objects : Announce(o)

FeedSpec == FeedInit /\ [][FeedNext]_feedVars
=============================================================================
