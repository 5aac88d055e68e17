---------------------------- MODULE SandboxRemote ----------------------------
(***************************************************************************)
(* The git remote of a worktree session (celily/src/git_remote.rs, and     *)
(* celily/src/main.rs around it): a section of the host repository's       *)
(* config that several runs of the same worktree name, and the user, read  *)
(* and write with one `git config` command at a time. Each run's URL names *)
(* its own instance, so URLs identify runs; everything else a run writes   *)
(* is the same for all of them.                                            *)
(*                                                                         *)
(* git itself is outside the repository: a command takes effect at once or *)
(* fails and changes nothing, and `--remove-section` of a section that is  *)
(* not there fails.                                                        *)
(***************************************************************************)
EXTENDS Naturals, Sequences

CONSTANTS
  Runs,       \* runs with the same worktree name
  NoUrl,      \* the remote is not configured
  UserUrl,    \* a URL of the user's own, not an ext:: one
  Faults      \* may a git command fail by itself?

ASSUME RemoteAssumption ==
  /\ NoUrl \notin Runs /\ UserUrl \notin Runs /\ NoUrl # UserUrl
  /\ Faults \in BOOLEAN

VARIABLES
  url,      \* remote.<name>.url
  keys,     \* the other settings of the section that celily wrote
  pc,       \* run |-> where it is
  written,  \* run |-> settings it has written, the URL first
  faulty,   \* history: runs one of whose git commands failed by itself
  raced     \* history: runs that looked, and have not acted, when the user
            \* edited the section

section == <<url, keys>>
vars == <<section, pc, written, faulty, raced>>

\* What register writes, in order.
Settings == <<"url", "fetch", "tagOpt", "prune", "pruneTags", "skipFetchAll">>

Hardening == {Settings[i] : i \in 2 .. Len(Settings)}

\* Written by the time k settings are.
WrittenKeys(k) == {Settings[i] : i \in 2 .. k}

IsExt(u) == u \in Runs

PC == {"look", "replace", "write",     \* register
       "exec",                         \* the user's command runs
       "lookAgain", "remove",          \* unregister
       "exited", "killed"}

TypeOK ==
  /\ url \in Runs \cup {NoUrl, UserUrl}
  /\ keys \subseteq Hardening
  /\ pc \in [Runs -> PC]
  /\ written \in [Runs -> 0 .. Len(Settings)]
  /\ faulty \subseteq Runs
  /\ raced \subseteq Runs

\* The section is empty or the user's. The remote of a run that was killed
\* earlier is covered by runs that are killed here.
Init ==
  /\ url \in {NoUrl, UserUrl}
  /\ keys = {}
  /\ pc = [r \in Runs |-> "look"]
  /\ written = [r \in Runs |-> 0]
  /\ faulty = {}
  /\ raced = {}

Goto(r, from, to) == pc[r] = from /\ pc' = [pc EXCEPT ![r] = to]

\* A git command of r fails by itself.
Fault(r) == Faults /\ faulty' = faulty \cup {r} /\ UNCHANGED section

\* `git config remote.<name>.url`; a failed command reads as no URL.
ReadUrl(r, u) ==
  \/ u = url /\ UNCHANGED <<section, faulty>>
  \/ u = NoUrl /\ Fault(r)

SectionExists == url # NoUrl \/ keys # {}

RemoveSection ==
  /\ SectionExists
  /\ url' = NoUrl
  /\ keys' = {}

-----------------------------------------------------------------------------
\* register

\* Mutant of Look: any remote of the name is replaced.
LookReplaceAny(r) ==
  /\ \E u \in Runs \cup {NoUrl, UserUrl} :
       /\ ReadUrl(r, u)
       /\ IF u = NoUrl THEN Goto(r, "look", "write") ELSE Goto(r, "look", "replace")
  /\ UNCHANGED written

\* Mutant of Look: a sandbox remote of the name is taken for the run's own.
LookReuse(r) ==
  /\ \E u \in Runs \cup {NoUrl, UserUrl} :
       /\ ReadUrl(r, u)
       /\ \/ u = NoUrl /\ Goto(r, "look", "write")
          \/ IsExt(u) /\ Goto(r, "look", "exec")
          \/ u = UserUrl /\ Goto(r, "look", "exited")
  /\ UNCHANGED written

Look(r) ==
  /\ \E u \in Runs \cup {NoUrl, UserUrl} :
       /\ ReadUrl(r, u)
       /\ \/ u = NoUrl /\ Goto(r, "look", "write")
          \/ IsExt(u) /\ Goto(r, "look", "replace")
          \/ u = UserUrl /\ Goto(r, "look", "exited")   \* bail!
  /\ UNCHANGED written

Replace(r) ==
  /\ \/ Goto(r, "replace", "write") /\ RemoveSection /\ UNCHANGED faulty
     \/ Goto(r, "replace", "exited") /\ Fault(r)
     \/ Goto(r, "replace", "exited") /\ ~SectionExists /\ UNCHANGED <<section, faulty>>
  /\ UNCHANGED written

\* Mutant of Write: a setting that cannot be written is skipped.
WriteSkips(r) ==
  LET k == written[r] + 1 IN
  /\ pc[r] = "write"
  /\ written' = [written EXCEPT ![r] = k]
  /\ \/ Fault(r)
     \/ /\ IF Settings[k] = "url" THEN url' = r /\ UNCHANGED keys
                                  ELSE keys' = keys \cup {Settings[k]} /\ UNCHANGED url
        /\ UNCHANGED faulty
  /\ pc' = [pc EXCEPT ![r] = IF k = Len(Settings) THEN "exec" ELSE "write"]

\* One `git config <key> <value>`; the first that fails ends the run, and
\* what was written stays.
Write(r) ==
  LET k == written[r] + 1 IN
  /\ \/ /\ pc[r] = "write"
        /\ written' = [written EXCEPT ![r] = k]
        /\ IF Settings[k] = "url" THEN url' = r /\ UNCHANGED keys
                                  ELSE keys' = keys \cup {Settings[k]} /\ UNCHANGED url
        /\ pc' = [pc EXCEPT ![r] = IF k = Len(Settings) THEN "exec" ELSE "write"]
        /\ UNCHANGED faulty
     \/ Goto(r, "write", "exited") /\ Fault(r) /\ UNCHANGED written

-----------------------------------------------------------------------------
\* The command ends, well or not, and the remote is unregistered

\* Mutant of Finish: a command that fails returns before unregister.
FinishEarly(r) ==
  /\ Goto(r, "exec", "lookAgain") \/ Goto(r, "exec", "exited")
  /\ UNCHANGED <<section, written, faulty>>

Finish(r) ==
  /\ Goto(r, "exec", "lookAgain")
  /\ UNCHANGED <<section, written, faulty>>

LookAgain(r) ==
  /\ \E u \in Runs \cup {NoUrl, UserUrl} :
       /\ ReadUrl(r, u)
       /\ IF u = r THEN Goto(r, "lookAgain", "remove") ELSE Goto(r, "lookAgain", "exited")
  /\ UNCHANGED written

\* A failure is only logged.
Remove(r) ==
  /\ Goto(r, "remove", "exited")
  /\ \/ RemoveSection /\ UNCHANGED faulty
     \/ Fault(r)
     \/ ~SectionExists /\ UNCHANGED <<section, faulty>>
  /\ UNCHANGED written

Ended(r) == pc[r] \in {"exited", "killed"}

Kill(r) ==
  /\ ~Ended(r)
  /\ pc' = [pc EXCEPT ![r] = "killed"]
  /\ UNCHANGED <<section, written, faulty>>

-----------------------------------------------------------------------------
\* The user: git remote add, set-url, remove

Acting(r) == pc[r] \in {"replace", "write", "remove"}

UserEdits ==
  /\ \/ ~SectionExists /\ url' = UserUrl /\ UNCHANGED keys
     \/ IsExt(url) /\ url' = UserUrl /\ UNCHANGED keys
     \/ RemoveSection
  /\ raced' = raced \cup {r \in Runs : Acting(r)}
  /\ UNCHANGED <<pc, written, faulty>>

Step(r) ==
  Look(r) \/ Replace(r) \/ Write(r) \/ Finish(r) \/ LookAgain(r) \/ Remove(r)

Next ==
  \/ \E r \in Runs : (Step(r) \/ Kill(r)) /\ UNCHANGED raced
  \/ UserEdits
  \/ (\A r \in Runs : Ended(r)) /\ UNCHANGED vars

Spec == Init /\ [][Next]_vars
-----------------------------------------------------------------------------

\* What a run has written since it wrote its URL is there for as long as the
\* URL is its own: whoever removes the section removes the URL with it.
KeysFollowUrl ==
  \A r \in Runs :
    /\ url = r => written[r] >= 1 /\ WrittenKeys(written[r]) \subseteq keys
    /\ pc[r] \in {"look", "replace"} => written[r] = 0
    /\ pc[r] = "write" => written[r] < Len(Settings)
    /\ pc[r] \in {"exec", "lookAgain", "remove"} => written[r] = Len(Settings)

\* The inductive invariant behind Hardened.
RemoteInv == TypeOK /\ KeysFollowUrl

\* While a run's command runs, a fetch through the run's own URL takes no
\* tags, prunes nothing, writes one ref and is explicit, whatever other runs
\* and the user do to the section (SandboxRemote::register).
Hardened ==
  \A r \in Runs : pc[r] \in {"exec", "lookAgain", "remove"} /\ url = r => keys = Hardening

\* A run none of whose git commands failed leaves no remote to its instance,
\* which is gone, behind (unregister).
NoStaleRemote == \A r \in Runs : pc[r] = "exited" /\ r \notin faulty => url # r

\* What a run is about to act on is not the user's, unless its look failed or
\* the user came in between.
ActsOnOwn == \A r \in Runs : Acting(r) /\ r \notin faulty \cup raced => url # UserUrl

\* This step is one of run r.
Acts(r) == pc'[r] # pc[r] \/ written'[r] # written[r]

\* A remote of the user's is never touched by a run whose git commands work,
\* unless the user put it there between the run's look and its act.
UserRemoteKept ==
  [][\A r \in Runs :
       url = UserUrl /\ Acts(r) /\ r \notin faulty' \cup raced => UNCHANGED section]_vars

\* unregister's doc: the remote is removed unless another run has replaced
\* it meanwhile. A run removes no other run's remote once its command is done.
RemovesOnlyOwn ==
  [][\A r, q \in Runs : pc[r] = "remove" /\ pc'[r] = "exited" /\ url = q /\ q # r
       => url' = q]_vars

\* The manual: the remote is removed when celily exits, without being killed.
RemovedOnExit == \A r \in Runs : pc[r] = "exited" => url # r
=============================================================================
