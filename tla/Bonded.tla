-------------------------------- MODULE Bonded --------------------------------
(***************************************************************************)
(* A bonded session: the driver's paths (driver_bonded.rs,                 *)
(* driver_bonded_simple.rs) beside the path group that holds the policy    *)
(* (bonding.rs): fan-out of a media packet, weighted rotation, choice of   *)
(* the path feedback takes, liveness, and paths added and removed while    *)
(* the session runs.  Ages are counted in keepalive intervals.             *)
(***************************************************************************)
EXTENDS Naturals, Sequences, FiniteSets, FiniteSetsExt

CONSTANTS
  PathTimeout,  \* session_timeout
  DupGrace,     \* dup_grace: how much longer a duplicate path is sent on
  BondCases     \* [sender, simple, eap, paths, adds, removes, weights, gone]

ASSUME BondAssumption ==
  /\ PathTimeout \in Nat /\ DupGrace \in Nat
  /\ \A c \in BondCases :
       /\ c.sender \in BOOLEAN /\ c.eap \in BOOLEAN /\ c.simple \in BOOLEAN
       /\ c.simple => ~c.eap /\ c.adds \cup c.removes = {}
       /\ c.adds \subseteq Nat /\ c.removes \subseteq Nat /\ c.weights \subseteq Nat
       /\ \A k \in DOMAIN c.paths : c.paths[k].weight \in Nat /\ c.paths[k].priority \in Nat

VARIABLES
  bond,      \* the case
  driver,    \* "running", "timeout", "rejected" or "panicked"
  connected, \* ever_connected
  links,     \* the driver's paths: [index, known: the address feedback goes to,
             \* authed, seen, silent]
  group,     \* the group's paths: [index, weight, credit, priority, rtt, seen, silent]
  fan,       \* what the last step transmitted
  faded,     \* the peer has gone for good
  heard,     \* history: index -> intervals since a datagram of that path, or Unheard
  waits      \* history: index -> media elected elsewhere since it was last elected

bondVars == <<bond, driver, connected, links, group, fan, faded, heard, waits>>

Old     == PathTimeout + DupGrace + 1   \* bound of every age
Unheard == Old + 1
Nothing == [kind |-> "none"]
Runs == driver = "running"
Indices == {links[k].index : k \in DOMAIN links}

Link(i, authed) == [index |-> i, known |-> bond.sender, authed |-> authed, seen |-> FALSE, silent |-> 0]
Member(i, w, p) == [index |-> i, weight |-> w, credit |-> w, priority |-> p, rtt |-> 0,
                    seen |-> FALSE, silent |-> 0]

----------------------------------------------------------------------------
(* The group.                                                              *)
Dead(g)    == g.seen /\ g.silent > PathTimeout
LiveOf(g)  == g.seen /\ g.silent <= PathTimeout
DupDead(g) == g.seen /\ g.silent > PathTimeout + DupGrace

Duplicates  == {k \in DOMAIN group : group[k].weight = 0 /\ ~DupDead(group[k])}
\* Slip: a path that died keeps its share of the rotation.
SendableDead == {k \in DOMAIN group : group[k].weight > 0}

Sendable    == {k \in DOMAIN group : group[k].weight > 0 /\ ~Dead(group[k])}

\* best_weighted: the most credit; ties to the earliest registered.
Richest(grp, set) ==
  CHOOSE k \in set : \A j \in set : grp[k].credit > grp[j].credit
                                    \/ (grp[k].credit = grp[j].credit /\ k <= j)

\* Slip: only the path that is elected gets new credit.
RefilledOne(set) ==
  [k \in DOMAIN group |-> IF set # {} /\ k = Min(set) THEN [group[k] EXCEPT !.credit = @ + group[k].weight]
                          ELSE group[k]]

Refilled(set) ==
  [k \in DOMAIN group |-> IF k \in set THEN [group[k] EXCEPT !.credit = group[k].weight]
                          ELSE group[k]]

\* select_weighted: the group after a new round began, if it had to.
Round ==
  IF Sendable # {} /\ group[Richest(group, Sendable)].credit = 0 THEN Refilled(Sendable) ELSE group

\* select_nack_path, over the paths whose address is known.
Prefer(a, b) == a.priority > b.priority \/ (a.priority = b.priority /\ a.rtt < b.rtt)
\* Slip: the first path that may be used is taken, live or not.
NackPathAny(known) == LET ok == {k \in DOMAIN group : group[k].seen /\ group[k].index \in known}
                      IN IF ok = {} THEN {} ELSE {Min(ok)}

NackPath(known) ==
  LET usable == {k \in DOMAIN group : group[k].seen /\ group[k].index \in known}
      live   == {k \in usable : LiveOf(group[k])}
      Before(k, j) == IF live # {} THEN Prefer(group[k], group[j]) ELSE group[k].silent < group[j].silent
      among  == IF live # {} THEN live ELSE usable
  IN {k \in among : \A j \in among \ {k} : Before(k, j) \/ (~Before(j, k) /\ k < j)}

----------------------------------------------------------------------------
BondStart(c) ==
  /\ bond = c /\ driver = "running" /\ connected = FALSE
  /\ links = [k \in DOMAIN c.paths |-> [index |-> k - 1, known |-> c.sender, authed |-> ~c.eap,
                                        seen |-> FALSE, silent |-> 0]]
  /\ group = [k \in DOMAIN c.paths |-> Member(k - 1, c.paths[k].weight, c.paths[k].priority)]
  /\ fan = Nothing /\ faded = FALSE
  /\ heard = [i \in (0..Len(c.paths) - 1) \cup c.adds |-> Unheard]
  /\ waits = [i \in (0..Len(c.paths) - 1) \cup c.adds |-> 0]

BondInit == \E c \in BondCases : BondStart(c)

Observed(p) == [p EXCEPT !.seen = TRUE, !.silent = 0]
\* Group::observe of path number i.
GroupObserve(i, rtt) ==
  [k \in DOMAIN group |->
     IF group[k].index # i THEN group[k]
     ELSE [Observed(group[k]) EXCEPT !.rtt = IF rtt = 0 THEN @ ELSE rtt]]

\* Slip: a peer that answers only with control traffic is not observed.
HearsMedia(kind) == kind = "media"

\* Every datagram that resolves to a path is a sign of life.
Hears(kind) == TRUE

\* The sender finds the position by source address; the receiver takes the
\* reader's index for it.
Position(k) == IF bond.sender THEN k ELSE links[k].index + 1

\* learn_media, learn_rtcp: in the Simple profile feedback goes to a port of its
\* own, which media does not tell.
Learns(kind) == ~bond.simple \/ kind # "media"

\* observe_path_rtt
EchoRtt(kind, l, rtt) == IF kind = "echo" /\ l.authed THEN rtt ELSE 0

\* What a datagram makes of the driver's path.
Touched(l, kind, auth) ==
  [(IF Hears(kind) THEN Observed(l) ELSE l)
     EXCEPT !.known = @ \/ Learns(kind), !.authed = @ \/ auth]

\* on_recv of a datagram from the remote of links[k].
OnDatagram(k, kind, rtt) ==
  LET at == Position(k)
      auth == kind = "eap" /\ bond.eap
  IN
  /\ Runs /\ ~faded /\ fan' = Nothing
  /\ heard' = [heard EXCEPT ![links[k].index] = 0]
  /\ IF at \notin DOMAIN links
       THEN UNCHANGED <<driver, connected, links, group>>
       ELSE
         /\ links' = [links EXCEPT ![at] = Touched(@, kind, auth)]
         /\ group' = IF Hears(kind)
                       THEN GroupObserve(at - 1, EchoRtt(kind, links[at], rtt))
                       ELSE group
         /\ connected' = (connected \/ auth)
         \* admit: the host may reject the first path to authenticate
         /\ driver' \in IF auth /\ ~connected THEN {"running", "rejected"} ELSE {"running"}
  /\ UNCHANGED <<bond, faded, waits>>

\* The positions the group's indices are taken for, and the paths found there.
Named(ks)      == {group[k].index + 1 : k \in ks}
Carried(named) == {links[n].index : n \in named \cap DOMAIN links}

\* drain of one SendMedia: duplicates to every target, one copy to the elected.
OnMedia ==
  /\ Runs /\ bond.sender
  /\ \A k \in DOMAIN links : links[k].authed       \* recv_app_gated
  /\ LET elected == IF Sendable = {} THEN {} ELSE {Richest(Round, Sendable)}
         named   == Named(Duplicates \cup elected)
     IN
     /\ group' = [k \in DOMAIN group |->
                    IF k \in elected THEN [Round[k] EXCEPT !.credit = @ - 1] ELSE Round[k]]
     /\ fan' = [kind |-> "media", carried |-> Carried(named)]
     \* paths[idx] is not checked
     /\ driver' = IF named \subseteq DOMAIN links THEN "running" ELSE "panicked"
     /\ waits' = [i \in DOMAIN waits |->
                    IF \E k \in elected : group[k].index = i THEN 0
                    ELSE IF \E k \in Sendable : group[k].index = i THEN waits[i] + 1
                    ELSE 0]
  /\ UNCHANGED <<bond, connected, links, faded, heard>>

KnownPaths == {n - 1 : n \in {m \in DOMAIN links : links[m].known}}

OnFeedback ==
  /\ Runs
  /\ fan' = [kind |-> "feedback", carried |-> Carried(Named(NackPath(KnownPaths)))]
  /\ UNCHANGED <<bond, driver, connected, links, group, faded, heard, waits>>

SetWeight(i, w) ==
  /\ Runs /\ bond.sender /\ fan' = Nothing
  /\ group' = IF \A k \in DOMAIN group : group[k].index # i THEN group
              ELSE [k \in DOMAIN group |->
                      LET new == IF group[k].index = i THEN w ELSE group[k].weight
                      IN [group[k] EXCEPT !.weight = new, !.credit = new]]
  /\ waits' = [j \in DOMAIN waits |-> 0]
  /\ UNCHANGED <<bond, driver, connected, links, faded, heard>>

AddPath(i, w) ==
  /\ Runs /\ i \notin Indices /\ fan' = Nothing
  /\ links' = Append(links, Link(i, ~bond.eap))
  /\ group' = Append(group, Member(i, w, 0))
  /\ heard' = [heard EXCEPT ![i] = Unheard] /\ waits' = [j \in DOMAIN waits |-> 0]
  /\ UNCHANGED <<bond, driver, connected, faded>>

\* Vec::remove of the path with the index, which one path has.
WithoutIndex(ps, i) == LET pos == CHOOSE k \in DOMAIN ps : ps[k].index = i
                  IN SubSeq(ps, 1, pos - 1) \o SubSeq(ps, pos + 1, Len(ps))

RemovePath(i) ==
  /\ Runs /\ i \in Indices /\ fan' = Nothing
  /\ links' = WithoutIndex(links, i)
  /\ group' = WithoutIndex(group, i)
  /\ heard' = [heard EXCEPT ![i] = Unheard] /\ waits' = [j \in DOMAIN waits |-> 0]
  /\ UNCHANGED <<bond, driver, connected, faded>>

AllExpired(ls) == \A k \in DOMAIN ls : ls[k].seen /\ ls[k].silent > PathTimeout

Age(n) == IF n < Old THEN n + 1 ELSE n

\* A keepalive interval passes and its tick is handled.
OnTick ==
  LET aged == [k \in DOMAIN links |-> [links[k] EXCEPT !.silent = Age(@)]] IN
  /\ Runs /\ fan' = Nothing
  /\ links' = aged
  /\ group' = [k \in DOMAIN group |-> [group[k] EXCEPT !.silent = Age(@)]]
  /\ heard' = [i \in DOMAIN heard |-> IF heard[i] = Unheard THEN Unheard ELSE Age(heard[i])]
  /\ driver' = IF AllExpired(aged) THEN "timeout" ELSE "running"
  /\ UNCHANGED <<bond, connected, faded, waits>>

Fade ==
  /\ Runs /\ bond.gone /\ ~faded /\ faded' = TRUE /\ fan' = Nothing
  /\ UNCHANGED <<bond, driver, connected, links, group, heard, waits>>

BondNext ==
  \/ \E k \in DOMAIN links :
       \/ OnDatagram(k, IF bond.sender THEN "control" ELSE "media", 0)
       \/ ~bond.sender /\ \E rtt \in 1..2 : OnDatagram(k, "echo", rtt)
       \/ bond.eap /\ OnDatagram(k, "eap", 0)
  \/ OnMedia \/ OnFeedback \/ OnTick \/ Fade
  \/ \E i \in DOMAIN waits, w \in bond.weights : SetWeight(i, w)
  \/ \E i \in bond.adds : AddPath(i, 0)
  \/ \E i \in bond.removes : RemovePath(i)

BondFairness == WF_bondVars(OnTick)
BondSpec == BondInit /\ [][BondNext]_bondVars /\ BondFairness

----------------------------------------------------------------------------
(* Properties.                                                             *)

\* While paths are only added and removed at the end of the list, a path's
\* index, its place in the driver and its entry in the group denote the same
\* path, and both judge its life alike (driver_bonded.rs: on_recv,
\* apply_peer_cmd; bonding.rs: Group).
PathsAgree ==
  /\ Len(links) = Len(group)
  /\ \A k \in DOMAIN links :
       /\ links[k].index = k - 1 /\ group[k].index = k - 1
       /\ links[k].seen = group[k].seen /\ links[k].silent = group[k].silent
       /\ group[k].credit <= group[k].weight
       /\ (heard[k - 1] # Unheard) = links[k].seen

\* The rotation starves nobody: between two turns of a path that stays usable
\* the others carry at most two rounds, whatever dies or comes back meanwhile
\* (bonding.rs: select_weighted).
FairShare ==
  LET total == MapThenSumSet(LAMBDA k : group[k].weight, DOMAIN group) IN
  \A k \in DOMAIN group : waits[group[k].index] <= 2 * total

\* The driver gives the session up only when every path has been heard and each
\* has been silent for longer than the timeout (driver_bonded.rs: all_expired).
EndsOnlySilent ==
  driver = "timeout" => \A i \in Indices : heard[i] # Unheard /\ heard[i] > PathTimeout

\* The two views of the paths agree, and the session is given up on no less
\* than the silence of all of them.
PathsJudged == PathsAgree /\ EndsOnlySilent

\* A media packet reaches every duplicate path from which anything came within
\* the timeout and its grace; with none, it reaches a path if any weighted one
\* is live (bonding.rs: duplicate_targets, select_weighted; drain).
Seamless ==
  [][ fan'.kind = "media" =>
        /\ \A k \in DOMAIN group :
             group[k].weight = 0 /\ heard[group[k].index] <= PathTimeout + DupGrace
               => group[k].index \in fan'.carried
        /\ (\E k \in DOMAIN group : group[k].weight > 0 /\ heard[group[k].index] <= PathTimeout)
             => \E i \in fan'.carried : heard[i] <= PathTimeout \/ heard[i] = Unheard
    ]_bondVars

\* The paths with an address for feedback, and those of them that are not silent.
Answerable     == {links[k].index : k \in {j \in DOMAIN links : links[j].known}}
LiveAnswerable == {k \in DOMAIN group : group[k].index \in Answerable
                                        /\ heard[group[k].index] <= PathTimeout}

\* Feedback leaves whenever a path with an address for it was ever heard, and
\* takes a live one of them while there is one, of the highest priority
\* (select_nack_path).
FeedbackAlive ==
  [][ fan'.kind = "feedback" =>
        /\ (\E i \in Answerable : heard[i] # Unheard) => fan'.carried # {}
        /\ \A k \in DOMAIN group : group[k].index \in fan'.carried /\ LiveAnswerable # {} =>
             k \in LiveAnswerable
             /\ \A j \in LiveAnswerable : group[j].priority <= group[k].priority
    ]_bondVars

\* Adding and removing paths leaves the driver running.
DriverSurvives == driver # "panicked"
===============================================================================
