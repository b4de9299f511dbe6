----------------------------- MODULE SessionLog -----------------------------
(***************************************************************************)
(* The broker's log files, over many launches: Logger::InitSession, the    *)
(* pruning of old sessions and the rotation of a full file,                *)
(* src/src/Vcam.Common/log.h, as wWinMain calls them.                      *)
(*                                                                         *)
(* A file is named by the local time of its launch, to the second, and     *)
(* that is all pruning knows of it.  The clock may stand still between two *)
(* launches and may be set back (by the user, or at the end of summer      *)
(* time).  Of a file's content, the launches that wrote lines of it are    *)
(* kept, and whether it is over the size limit.  A file that somebody has  *)
(* open may resist deleting, moving and writing.  The broker may end, or   *)
(* crash, between any two steps.                                           *)
(***************************************************************************)
EXTENDS Integers, FiniteSets

CONSTANTS Keep,        \* 15: session logs to keep
          MaxLaunch,   \* bound on the launches of the broker
          MaxTime      \* bound on the clock, in seconds

ASSUME BoundsAssumption == Keep \in Nat /\ MaxLaunch \in Nat /\ MaxTime \in Nat

VARIABLES
  now,       \* GetLocalTime
  launch,    \* launches so far; the last one runs, unless step = "down"
  step,      \* where wWinMain is in InitSession, or that it is logging
  doomed,    \* files PruneOld has yet to delete
  path,      \* _path, as the time in its name
  log,       \* log[t]: the launches with lines in the file named t
  full,      \* files over _maxBytes
  backups,   \* files that have a ".1" beside them
  stamp,     \* history: stamp[l], the name launch l has chosen
  stuck,     \* history: files the last PruneOld could not delete
  pruned     \* history: launches whose lines PruneOld has deleted

files == <<log, full, backups>>
vars == <<now, launch, step, doomed, path, files, stamp, stuck, pruned>>

Times == 0 .. MaxTime
Launches == 1 .. MaxLaunch
NoTime == -1

\* The files FindFirstFile and FindNextFile find: prefix-*.log.
Sessions == {t \in Times : log[t] # {}}

\* Type correctness; what is listed for deletion, or over the limit, exists.
TypeOK ==
  /\ now \in Times
  /\ launch \in 0 .. MaxLaunch
  /\ step \in {"down", "list", "delete", "name", "log"}
  /\ path \in Times \cup {NoTime}
  /\ log \in [Times -> SUBSET Launches]
  /\ doomed \subseteq Sessions /\ full \subseteq Sessions
  /\ backups \subseteq Times /\ stuck \subseteq Times
  /\ stamp \in [Launches -> Times \cup {NoTime}]
  /\ pruned \subseteq Launches

Init ==
  /\ now = 0 /\ launch = 0
  /\ step = "down"
  /\ path = NoTime
  /\ log = [t \in Times |-> {}]
  /\ doomed = {} /\ full = {} /\ backups = {} /\ stuck = {} /\ pruned = {}
  /\ stamp = [l \in Launches |-> NoTime]

-----------------------------------------------------------------------------
(* A launch.                                                               *)

Launch ==
  /\ step = "down"
  /\ launch < MaxLaunch
  /\ launch' = launch + 1
  /\ step' = "list"
  /\ path' = NoTime
  /\ UNCHANGED <<now, doomed, files, stamp, stuck, pruned>>

\* Old sessions to leave, so that there is room for the new one.
KeepOld == IF Keep > 0 THEN Keep - 1 ELSE 0

\* Mutant: no room is left for the new session.
Doomed_OneTooFew == {t \in Sessions : Cardinality({r \in Sessions : r > t}) >= Keep}

\* Mutant: the files are sorted the other way round.
Doomed_Newest == {t \in Sessions : Cardinality({r \in Sessions : r < t}) >= KeepOld}

\* All but the last KeepOld of the sorted names.
Doomed == {t \in Sessions : Cardinality({r \in Sessions : r > t}) >= KeepOld}

\* PruneOld lists and sorts the files...
List ==
  /\ step = "list"
  /\ doomed' = Doomed
  /\ stuck' = {}
  /\ step' = "delete"
  /\ UNCHANGED <<now, launch, path, files, stamp, pruned>>

\* ...and deletes the oldest ones, the first of the names first; what
\* DeleteFileW returns is not looked at.
Delete ==
  /\ step = "delete"
  /\ \E t \in doomed :
       /\ \A r \in doomed : t <= r
       /\ doomed' = doomed \ {t}
       /\ \/ /\ log' = [log EXCEPT ![t] = {}]
             /\ full' = full \ {t}
             /\ pruned' = pruned \cup log[t]
             /\ UNCHANGED stuck
          \/ /\ stuck' = stuck \cup {t}
             /\ UNCHANGED <<log, full, pruned>>
  /\ UNCHANGED <<now, launch, step, path, backups, stamp>>

\* The name is chosen from the clock.
Name ==
  /\ step = "delete"
  /\ doomed = {}
  /\ path' = now
  /\ stamp' = [stamp EXCEPT ![launch] = now]
  /\ step' = "log"
  /\ UNCHANGED <<now, launch, doomed, files, stuck, pruned>>

-----------------------------------------------------------------------------
(* LogRaw: "---- log opened ----" first, and every line after it.          *)

\* Mutant: a file that has been moved away still counts as full.
Log_StaysFull ==
  /\ step = "log"
  /\ \E moved, wrote \in BOOLEAN :
       /\ moved => path \in full
       /\ log' = [log EXCEPT ![path] = (IF moved THEN {} ELSE @) \cup
                                       (IF wrote THEN {launch} ELSE {})]
       /\ backups' = IF moved THEN backups \cup {path} ELSE backups
       /\ \/ full' = full
          \/ wrote /\ full' = full \cup {path}
  /\ UNCHANGED <<now, launch, step, doomed, path, stamp, stuck, pruned>>

\* A file over the limit is moved to ".1", over the one before it; then the
\* line is appended to what is there, or to a new file.
Log ==
  /\ step = "log"
  /\ \E moved, wrote \in BOOLEAN :
       /\ moved => path \in full
       /\ log' = [log EXCEPT ![path] = (IF moved THEN {} ELSE @) \cup
                                       (IF wrote THEN {launch} ELSE {})]
       /\ backups' = IF moved THEN backups \cup {path} ELSE backups
       /\ LET others == IF moved THEN full \ {path} ELSE full
          IN \/ full' = others
             \/ wrote /\ full' = others \cup {path}
  /\ UNCHANGED <<now, launch, step, doomed, path, stamp, stuck, pruned>>

-----------------------------------------------------------------------------
\* The broker exits, or crashes.
End ==
  /\ step # "down"
  /\ step' = "down"
  /\ doomed' = {}
  /\ UNCHANGED <<now, launch, path, files, stamp, stuck, pruned>>

\* Time passes, or the clock is set.
Clock ==
  /\ now' \in Times \ {now}
  /\ UNCHANGED <<launch, step, doomed, path, files, stamp, stuck, pruned>>

Next == Launch \/ List \/ Delete \/ Name \/ Log \/ End \/ Clock

Spec == Init /\ [][Next]_vars

-----------------------------------------------------------------------------
(* Safety.                                                                 *)

\* "at most `keep` session logs exist", at every moment from the end of
\* InitSession on and whatever the clock does; a file that could not be
\* deleted stays over and above that, until a later launch deletes it.  (For
\* a keep of 0, which wWinMain does not pass, the one new file exists.)
CountBounded ==
  step = "log" => Cardinality(Sessions) <= KeepOld + 1 + Cardinality(stuck)

\* The launches so far have chosen their names in order.
InOrder ==
  \A l, m \in Launches : l < m /\ stamp[m] # NoTime => stamp[l] <= stamp[m]

\* "the 15 most recent are kept": if the clock was never set back from one
\* launch to the next, the lines of a launch outlive the Keep - 1 launches
\* after it, those within the same second included.
KeepsNewest == InOrder => \A l \in pruned : l + KeepOld + 1 <= launch

-----------------------------------------------------------------------------
(* The inductive invariant behind CountBounded and KeepsNewest.            *)

\* A file holds lines of the launches that have chosen its name; the running
\* launch has chosen one once PruneOld is done.
Dated ==
  /\ \A t \in Times : \A l \in log[t] : l <= launch /\ stamp[l] = t
  /\ \A l \in Launches : l > launch => stamp[l] = NoTime
  /\ step # "down" => launch \in Launches
  /\ step \in {"list", "delete"} => stamp[launch] = NoTime /\ path = NoTime
  /\ step = "log" => path \in Times /\ stamp[launch] = path
  /\ doomed # {} => step = "delete"

\* Besides the new file, and those that cannot be deleted, KeepOld are left.
Spared ==
  step \in {"delete", "log"} =>
    Cardinality(Sessions \ (doomed \cup stuck \cup {path})) <= KeepOld

\* What is about to be deleted is as old as what has been.
Aged == InOrder => \A t \in doomed : \A l \in log[t] : l + KeepOld + 1 <= launch

IInv == TypeOK /\ Dated /\ Spared /\ Aged /\ KeepsNewest

=============================================================================
